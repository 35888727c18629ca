------------------------------ MODULE Recurring ------------------------------
(***************************************************************************)
(* The provider's recurring rule against the subscription row: the         *)
(* worker's expiration and audit, the webhook after an approved renewal,   *)
(* the member's cancellation and the operator's repair of expired rules    *)
(* (services/subscriptions.py, services/access.py, api.py, worker.py).     *)
(*                                                                         *)
(* None of them holds a transaction open while it calls the provider:      *)
(* every one reads the row, calls STATUS, SUSPEND or RESUME, and writes in *)
(* a later transaction.  Each of these is an action here, and the others   *)
(* may act in between.  A process remembers what it read and was answered  *)
(* in its task.  A call that fails may have taken effect all the same.     *)
(*                                                                         *)
(* An approved renewal waits in pending until a webhook request commits    *)
(* it; that it is applied only once is AppliedAtMostOnce of Billing.  The  *)
(* provider's Confirmed behaves as its Created and Completed as Removed.   *)
(***************************************************************************)
EXTENDS SubscriptionState, FiniteSets

CONSTANTS
    Subs,          \* the subscriptions of one member
    Handlers,      \* webhook requests with their background tasks
    Worker,        \* the worker process (there is one: README, production notes)
    Members,       \* the member's cancellations in the bot
    Operators,     \* runs of reconcile-expired-recurring-rules --apply
    None,          \* NULL
    InitialRules,  \* rules the provider may have created at the first payment
    Legacy,        \* subscriptions an older release may have expired
    Mismatched,    \* TRUE: the provider may charge another amount than agreed
    FirstPeriods,  \* lengths of a first period, in ticks
    BillingMonths, \* billing period, in ticks
    Grace,         \* grace period, in ticks
    MaxTime,       \* bound on the clock
    MaxCharges,    \* bound on the renewals the provider charges, per rule
    MaxFailures,   \* bound on the calls that fail
    MaxCrashes     \* bound on the tasks that are lost

ASSUME RecurringAssumption ==
    /\ None \notin Subs
    /\ Worker \notin Handlers \cup Members \cup Operators
    /\ Handlers \cap Members = {} /\ Members \cap Operators = {}
    /\ Operators \cap Handlers = {}
    /\ InitialRules \subseteq {"active", "created", "missing"}
    /\ Legacy \subseteq Subs /\ Mismatched \in BOOLEAN
    /\ FirstPeriods \subseteq Nat \ {0}
    /\ BillingMonths \in Nat \ {0, 1} /\ Grace \in Nat
    /\ MaxTime \in Nat /\ MaxCharges \in Nat
    /\ MaxFailures \in Nat /\ MaxCrashes \in Nat

VARIABLES
    now,       \* the clock
    sub,       \* the subscription rows
    rule,      \* the rules at the provider
    pending,   \* approved renewals the provider goes on announcing
    charges,   \* renewals charged so far
    task,      \* what every process is in the middle of
    cancelled, \* history: what became of the cancellations of each subscription
    failures,  \* calls failed so far
    crashes    \* tasks lost so far

vars == <<now, sub, rule, pending, charges, task, cancelled, failures, crashes>>

Processes == Handlers \cup Members \cup Operators \cup {Worker}

RuleStatus == {"active", "created", "suspended", "removed", "missing"}

\* The next thing a process does.
Steps == {"idle",
          \* the webhook, and the audit from "verify" on
          "process", "recover", "recovered", "verify", "verified", "alert",
          \* the worker's expiration
          "status", "suspend", "shutdown", "resume", "resumed", "failed", "revoke",
          \* the member
          "stop", "cancel",
          \* the operator
          "check", "recheck", "repair", "repaired", "undo"}

\* The subscription, the expiration cutoff, the webhook's context, whether the
\* process has issued a SUSPEND, the last answer, and when the task began.
Task == [step     : Steps,
         sub      : Subs \cup {None},
         cutoff   : Nat,
         resume   : BOOLEAN,
         preserve : BOOLEAN,
         issued   : BOOLEAN,
         answer   : RecurringStatus,
         began    : Nat]

IdleTask ==
    [step |-> "idle", sub |-> None, cutoff |-> 0, resume |-> FALSE,
     preserve |-> FALSE, issued |-> FALSE, answer |-> "pending", began |-> 0]

Idle(p) == task[p].step = "idle"
At(p, step) == task[p].step = step
Of(p) == task[p].sub

\* Subscriptions start with their first payments, which were made at different
\* times or for different periods; an older release left expired ones behind.
Init ==
    /\ now = 0
    /\ \E first \in [Subs -> FirstPeriods], old \in SUBSET Legacy :
          /\ \A s, t \in Subs : s # t => first[s] # first[t]
          /\ sub = [s \in Subs |->
                IF s \in old
                THEN ExpireSubscription(NewSubscription(0, 0, "active"), TRUE)
                ELSE NewSubscription(0, first[s], "pending")]
    /\ rule \in [Subs -> InitialRules]
    /\ pending   = [s \in Subs |-> 0]
    /\ charges   = [s \in Subs |-> 0]
    /\ task      = [p \in Processes |-> IdleTask]
    /\ cancelled = [s \in Subs |-> "no"]
    /\ failures  = 0
    /\ crashes   = 0

-----------------------------------------------------------------------------
(***************************************************************************)
(* Tasks and provider calls                                                *)
(***************************************************************************)
Start(p, s, step) ==
    /\ Idle(p)
    /\ task' = [task EXCEPT ![p] =
          [IdleTask EXCEPT !.step = step, !.sub = s, !.began = now]]

Goto(p, step) == task' = [task EXCEPT ![p].step = step]
Answered(p, step, answer) ==
    task' = [task EXCEPT ![p] = [@ EXCEPT !.step = step, !.answer = answer]]
Finish(p) == task' = [task EXCEPT ![p] = IdleTask]

\* Only the task of p and the row of its subscription change.
Rewrites(p, row) ==
    /\ sub' = [sub EXCEPT ![Of(p)] = row]
    /\ UNCHANGED <<now, rule, pending, charges, cancelled, failures, crashes>>
Keeps ==
    UNCHANGED <<now, sub, rule, pending, charges, cancelled, failures, crashes>>

Fails == failures < MaxFailures /\ failures' = failures + 1

\* A SUSPEND is accepted for every rule (4100) and for a missing one (4102).
Suspended(r) == IF r \in Chargeable THEN "suspended" ELSE r

\* A RESUME is accepted for a rule that is suspended or active.
MayResume(r) == r \in {"active", "suspended"}

Calls == UNCHANGED <<now, sub, pending, charges, cancelled, crashes>>

SuspendSucceeds(p) ==
    /\ rule' = [rule EXCEPT ![Of(p)] = Suspended(@)]
    /\ UNCHANGED failures /\ Calls
SuspendFails(p) ==
    /\ Fails
    /\ rule' \in {rule, [rule EXCEPT ![Of(p)] = Suspended(@)]}
    /\ Calls

ResumeSucceeds(p) ==
    /\ MayResume(rule[Of(p)])
    /\ rule' = [rule EXCEPT ![Of(p)] = "active"]
    /\ UNCHANGED failures /\ Calls
ResumeFails(p) ==
    /\ \/ Fails /\ rule' = rule
       \/ Fails /\ MayResume(rule[Of(p)]) /\ rule' = [rule EXCEPT ![Of(p)] = "active"]
       \/ ~MayResume(rule[Of(p)]) /\ UNCHANGED <<failures, rule>>
    /\ Calls

StatusSucceeds == UNCHANGED <<rule, failures>> /\ Calls
StatusFails == Fails /\ UNCHANGED rule /\ Calls

-----------------------------------------------------------------------------
(***************************************************************************)
(* The webhook of an approved renewal                                      *)
(***************************************************************************)
\* Faulty variant: a stopped rule is resumed whoever stopped it.
ReadContextForgettingCancel(h, s) ==
    /\ pending[s] > 0
    /\ Idle(h)
    /\ task' = [task EXCEPT ![h] =
          [IdleTask EXCEPT !.step = "process", !.sub = s,
                           !.resume = sub[s].shutdown_at, !.began = now]]
    /\ Keeps

\* What the request remembers of the row before it is processed.
ReadContext(h, s) ==
    /\ pending[s] > 0
    /\ Idle(h)
    /\ task' = [task EXCEPT ![h] =
          [IdleTask EXCEPT
              !.step     = "process",
              !.sub      = s,
              !.resume   = sub[s].shutdown_at /\ ~sub[s].cancel_at_period_end,
              !.preserve = sub[s].cancel_at_period_end,
              !.began    = now]]
    /\ Keeps

\* The background task changes the rule only if the context asks for it.
AfterApproval(h) ==
    IF task[h].resume \/ task[h].preserve THEN "recover" ELSE "verify"

\* The committed renewal; the answer to the provider ends its announcements.
ProcessApproved(h) ==
    /\ At(h, "process")
    /\ pending[Of(h)] > 0
    /\ sub' = [sub EXCEPT ![Of(h)] = ExtendSubscription(@, BillingMonths, now)]
    /\ pending' = [pending EXCEPT ![Of(h)] = @ - 1]
    /\ Goto(h, AfterApproval(h))
    /\ UNCHANGED <<now, rule, charges, cancelled, failures, crashes>>

\* An approval of another amount is stored and extends nothing, but it counts
\* as processed: the background task follows it as it follows a renewal.
ProcessMismatched(h) ==
    /\ Mismatched
    /\ At(h, "process")
    /\ pending[Of(h)] > 0
    /\ pending' = [pending EXCEPT ![Of(h)] = @ - 1]
    /\ Goto(h, AfterApproval(h))
    /\ UNCHANGED <<now, sub, rule, charges, cancelled, failures, crashes>>

\* Another request has committed the same callback.
AlreadyProcessed(h) ==
    /\ At(h, "process")
    /\ pending[Of(h)] = 0
    /\ Finish(h)
    /\ Keeps

\* recover_recurring_after_approved, run after the response was sent.
CallRecover(h) ==
    /\ At(h, "recover")
    /\ \/ /\ task[h].preserve
          /\ \/ SuspendSucceeds(h) /\ Answered(h, "recovered", "suspended")
             \/ SuspendFails(h)    /\ Answered(h, "recovered", "check_failed")
       \/ /\ ~task[h].preserve
          /\ \/ ResumeSucceeds(h) /\ Answered(h, "recovered", "active")
             \/ ResumeFails(h)    /\ Answered(h, "recovered", "check_failed")

RecoveredRow(s, answer) ==
    CASE answer = "suspended"    -> CancelAtPeriodEnd(s, "suspended")
      [] answer = "active"       -> RecordResumed(s)
      [] answer = "check_failed" -> [s EXCEPT !.provider_recurring_status = answer]

CommitRecover(h) ==
    /\ At(h, "recovered")
    /\ Rewrites(h, RecoveredRow(sub[Of(h)], task[h].answer))
    /\ Goto(h, "verify")

\* verify_recurring_for_order, for the webhook and for the worker's audit.
CallVerify(p) ==
    /\ At(p, "verify")
    /\ \/ StatusSucceeds /\ Answered(p, "verified", rule[Of(p)])
       \/ StatusFails    /\ Answered(p, "verified", "check_failed")

\* Faulty variant: a suspended rule never raises an alert.
CommitVerifySilently(p) ==
    /\ At(p, "verified")
    /\ Rewrites(p, RecordVerified(sub[Of(p)], task[p].answer))
    /\ IF task[p].answer \in {"active", "suspended"}
       THEN Finish(p) ELSE Goto(p, "alert")

CommitVerify(p) ==
    /\ At(p, "verified")
    /\ Rewrites(p, RecordVerified(sub[Of(p)], task[p].answer))
    /\ IF \/ task[p].answer = "active"
          \/ task[p].preserve /\ task[p].answer = "suspended"
       THEN Finish(p) ELSE Goto(p, "alert")

\* The administrators hear once of a rule that cannot charge.
RaiseAlert(p) ==
    /\ At(p, "alert")
    /\ LET s   == sub[Of(p)]
           due == /\ s.provider_recurring_status = task[p].answer
                  /\ ~s.provider_recurring_alerted_at
       IN  Rewrites(p, [s EXCEPT !.provider_recurring_alerted_at = @ \/ due])
    /\ Finish(p)

-----------------------------------------------------------------------------
(***************************************************************************)
(* The worker                                                              *)
(***************************************************************************)
BeginAudit(s) ==
    /\ sub[s].status \in Entitled
    /\ ~sub[s].cancel_at_period_end
    /\ sub[s].provider_recurring_status # "active"
    /\ Start(Worker, s, "verify")
    /\ Keeps

\* Faulty variant: an expiration that has failed is not tried again.
BeginExpireOnce(s) ==
    /\ now >= Grace
    /\ IsDueForExpiration(sub[s], now - Grace)
    /\ ~sub[s].shutdown_error
    /\ Idle(Worker)
    /\ task' = [task EXCEPT ![Worker] =
          [IdleTask EXCEPT !.step = "status", !.sub = s,
                           !.cutoff = now - Grace, !.began = now]]
    /\ Keeps

BeginExpire(s) ==
    /\ now >= Grace
    /\ IsDueForExpiration(sub[s], now - Grace)
    /\ Idle(Worker)
    /\ task' = [task EXCEPT ![Worker] =
          [IdleTask EXCEPT !.step = "status", !.sub = s,
                           !.cutoff = now - Grace, !.began = now]]
    /\ Keeps

CallExpireStatus ==
    /\ At(Worker, "status")
    /\ LET r == rule[Of(Worker)]
       IN  \/ StatusFails /\ Answered(Worker, "failed", "check_failed")
           \/ /\ StatusSucceeds
              /\ \/ r \in Chargeable     /\ Answered(Worker, "suspend", r)
                 \/ r \in TerminalStatus /\ Answered(Worker, "shutdown", r)

\* Faulty variant: a SUSPEND that fails counts as one that succeeded.
CallExpireSuspendUnchecked ==
    /\ At(Worker, "suspend")
    /\ SuspendSucceeds(Worker) \/ SuspendFails(Worker)
    /\ task' = [task EXCEPT ![Worker] =
          [@ EXCEPT !.step = "shutdown", !.issued = TRUE, !.answer = "suspended"]]

CallExpireSuspend ==
    /\ At(Worker, "suspend")
    /\ \/ /\ SuspendSucceeds(Worker)
          /\ task' = [task EXCEPT ![Worker] =
                [@ EXCEPT !.step = "shutdown", !.issued = TRUE, !.answer = "suspended"]]
       \/ SuspendFails(Worker) /\ Goto(Worker, "failed")

\* Faulty variant: the row is not read again after the calls.
StillDueUnchecked == TRUE

\* The row is locked and read again: a renewal may have overtaken the call.
StillDue == IsDueForExpiration(sub[Of(Worker)], task[Worker].cutoff)

CommitShutdown ==
    /\ At(Worker, "shutdown")
    /\ StillDue
    /\ Rewrites(Worker, RecordShutdown(sub[Of(Worker)], task[Worker].answer))
    /\ Goto(Worker, "revoke")

\* Faulty variant: the overtaken SUSPEND is not undone.
OvertakenShutdownKept ==
    /\ At(Worker, "shutdown")
    /\ ~StillDue
    /\ Finish(Worker)
    /\ Keeps

OvertakenShutdown ==
    /\ At(Worker, "shutdown")
    /\ ~StillDue
    /\ IF task[Worker].issued /\ ~sub[Of(Worker)].cancel_at_period_end
       THEN Goto(Worker, "resume") ELSE Finish(Worker)
    /\ Keeps

CallExpireResume ==
    /\ At(Worker, "resume")
    /\ \/ ResumeSucceeds(Worker) /\ Goto(Worker, "resumed")
       \/ ResumeFails(Worker)    /\ Answered(Worker, "failed", "suspended")

CommitResumed ==
    /\ At(Worker, "resumed")
    /\ Rewrites(Worker, RecordResumed(sub[Of(Worker)]))
    /\ Finish(Worker)

CommitShutdownFailure ==
    /\ At(Worker, "failed")
    /\ Rewrites(Worker, RecordShutdownFailure(sub[Of(Worker)], task[Worker].answer))
    /\ Finish(Worker)

\* One transaction with the row locked; the channel owner cannot be removed.
Revoke ==
    /\ At(Worker, "revoke")
    /\ \E removed \in BOOLEAN :
          Rewrites(Worker, IF StillDue THEN ExpireSubscription(sub[Of(Worker)], removed)
                           ELSE sub[Of(Worker)])
    /\ Finish(Worker)

\* Telegram refuses, and the transaction is rolled back.
RevokeFails ==
    /\ At(Worker, "revoke")
    /\ StillDue
    /\ Fails
    /\ Finish(Worker)
    /\ UNCHANGED <<now, sub, rule, pending, charges, cancelled, crashes>>

AlertShutdownFailure(s) ==
    /\ Idle(Worker)
    /\ sub[s].status \in Entitled
    /\ sub[s].shutdown_error /\ ~sub[s].shutdown_alerted_at
    /\ sub' = [sub EXCEPT ![s].shutdown_alerted_at = TRUE]
    /\ UNCHANGED <<now, rule, pending, charges, task, cancelled, failures, crashes>>

-----------------------------------------------------------------------------
(***************************************************************************)
(* The member's cancellation                                               *)
(***************************************************************************)
\* current_for_user: an entitled subscription with the latest period end.
Current ==
    {s \in Subs : /\ sub[s].status \in Entitled
                  /\ \A t \in Subs : sub[t].status \in Entitled =>
                        sub[t].current_period_end <= sub[s].current_period_end}

BeginCancel(m, s) ==
    /\ s \in Current
    /\ Start(m, s, "stop")
    /\ Keeps

CallCancelSuspend(m) ==
    /\ At(m, "stop")
    /\ \/ SuspendSucceeds(m) /\ Goto(m, "cancel")
       \/ SuspendFails(m)    /\ Finish(m)

\* The rule is stopped, one renewal at most is still to be announced, and nobody
\* but the member is at work on the subscription.
Undisturbed(m, s) ==
    /\ rule[s] \notin Chargeable /\ pending[s] <= 1
    /\ \A p \in Processes \ {m} : Of(p) # s

\* A cancellation is "clean" or "raced", or "lost" if it has stopped the rule of one
\* subscription and has marked another one, or none.
CancelledAfter(m, marked) ==
    [s \in Subs |->
        IF s = marked THEN IF Undisturbed(m, s) THEN "clean" ELSE "raced"
        ELSE IF s = Of(m) /\ cancelled[s] = "no" THEN "lost" ELSE cancelled[s]]

\* The current subscription is looked up again, and that one is marked.
CommitCancel(m) ==
    /\ At(m, "cancel")
    /\ Finish(m)
    /\ \/ Current = {} /\ UNCHANGED sub /\ cancelled' = CancelledAfter(m, None)
       \/ \E s \in Current :
             /\ sub' = [sub EXCEPT ![s] = CancelAtPeriodEnd(@, "suspended")]
             /\ cancelled' = CancelledAfter(m, s)
    /\ UNCHANGED <<now, rule, pending, charges, failures, crashes>>

-----------------------------------------------------------------------------
(***************************************************************************)
(* The operator's repair of expired subscriptions                          *)
(***************************************************************************)
BeginRepair(o, s) ==
    /\ sub[s].status = "expired"
    /\ Start(o, s, "check")
    /\ Keeps

\* Faulty variant: a rule that is only created counts as one that cannot charge.
CallCheckLoosely(o) ==
    /\ At(o, "check")
    /\ LET r == rule[Of(o)]
       IN  \/ StatusFails /\ Finish(o)
           \/ /\ StatusSucceeds
              /\ \/ r = "active" /\ Answered(o, "recheck", r)
                 \/ r # "active" /\ Answered(o, "repaired", r)

CallCheck(o) ==
    /\ At(o, "check")
    /\ LET r == rule[Of(o)]
       IN  \/ StatusFails /\ Finish(o)
           \/ /\ StatusSucceeds
              /\ \/ r = "active"          /\ Answered(o, "recheck", r)
                 \/ r \in TerminalStatus  /\ Answered(o, "repaired", r)
                 \/ r = "created"         /\ Finish(o)

Recheck(o) ==
    /\ At(o, "recheck")
    /\ IF sub[Of(o)].status = "expired"
       THEN Goto(o, "repair") ELSE Finish(o)
    /\ Keeps

CallRepair(o) ==
    /\ At(o, "repair")
    /\ \/ /\ SuspendSucceeds(o)
          /\ task' = [task EXCEPT ![o] =
                [@ EXCEPT !.step = "repaired", !.issued = TRUE, !.answer = "suspended"]]
       \/ SuspendFails(o) /\ Finish(o)

CommitRepair(o) ==
    /\ At(o, "repaired")
    /\ LET s == sub[Of(o)]
       IN  IF s.status = "expired"
           THEN /\ Rewrites(o, RecordShutdown(s, task[o].answer))
                /\ Finish(o)
           ELSE /\ IF task[o].issued
                   THEN Goto(o, "undo") ELSE Finish(o)
                /\ Keeps

\* A refused RESUME ends the command with an error.
CallUndo(o) ==
    /\ At(o, "undo")
    /\ ResumeSucceeds(o) \/ ResumeFails(o)
    /\ Finish(o)

-----------------------------------------------------------------------------
(***************************************************************************)
(* The environment                                                         *)
(***************************************************************************)
\* The provider charges a renewal and announces it until it is answered.
ProviderCharges(s) ==
    /\ rule[s] = "active"
    /\ charges[s] < MaxCharges
    /\ charges' = [charges EXCEPT ![s] = @ + 1]
    /\ pending' = [pending EXCEPT ![s] = @ + 1]
    /\ UNCHANGED <<now, sub, rule, task, cancelled, failures, crashes>>

\* A created rule becomes active; a rule ends when its payments are used up or
\* the bank withdraws it.
ProviderMovesRule(s) ==
    /\ \/ rule[s] = "created" /\ rule' = [rule EXCEPT ![s] = "active"]
       \/ rule[s] \in Chargeable /\ rule' = [rule EXCEPT ![s] = "removed"]
    /\ UNCHANGED <<now, sub, pending, charges, task, cancelled, failures, crashes>>

\* A process dies; what it has committed or called stays.
Crash(p) ==
    /\ ~Idle(p)
    /\ crashes < MaxCrashes
    /\ crashes' = crashes + 1
    /\ Finish(p)
    /\ UNCHANGED <<now, sub, rule, pending, charges, cancelled, failures>>

\* A provider call is given up after seconds and a period lasts a month: a task
\* may see the clock advance once, never twice.
Tick ==
    /\ now < MaxTime
    /\ \A p \in Processes : ~Idle(p) => task[p].began = now
    /\ now' = now + 1
    /\ UNCHANGED <<sub, rule, pending, charges, task, cancelled, failures, crashes>>

Webhook(h) ==
    \/ \E s \in Subs : ReadContext(h, s)
    \/ ProcessApproved(h) \/ ProcessMismatched(h) \/ AlreadyProcessed(h)
    \/ CallRecover(h) \/ CommitRecover(h)

Verification(p) == CallVerify(p) \/ CommitVerify(p) \/ RaiseAlert(p)

Expiration ==
    \/ CallExpireStatus \/ CallExpireSuspend \/ CommitShutdown \/ OvertakenShutdown
    \/ CallExpireResume \/ CommitResumed \/ CommitShutdownFailure
    \/ Revoke \/ RevokeFails

Cancellation(m) == CallCancelSuspend(m) \/ CommitCancel(m)

Repair(o) ==
    CallCheck(o) \/ Recheck(o) \/ CallRepair(o) \/ CommitRepair(o) \/ CallUndo(o)

Next ==
    \/ \E h \in Handlers : Webhook(h)
    \/ \E p \in Handlers \cup {Worker} : Verification(p)
    \/ \E s \in Subs : BeginAudit(s) \/ BeginExpire(s) \/ AlertShutdownFailure(s)
    \/ Expiration
    \/ \E m \in Members : Cancellation(m) \/ \E s \in Subs : BeginCancel(m, s)
    \/ \E o \in Operators : Repair(o) \/ \E s \in Subs : BeginRepair(o, s)
    \/ \E s \in Subs : ProviderCharges(s) \/ ProviderMovesRule(s)
    \/ \E p \in Processes : Crash(p)
    \/ Tick

\* The provider announces a renewal until it is answered, a background task
\* and the worker go on, and the worker's loop comes round to everything that
\* is due.  Nobody has to cancel or to repair, and nothing has to be charged.
Fairness ==
    /\ \A h \in Handlers : WF_vars(Webhook(h) \/ Verification(h))
    /\ WF_vars(Verification(Worker) \/ Expiration)
    /\ \A s \in Subs : /\ SF_vars(BeginAudit(s)) /\ SF_vars(BeginExpire(s))
                       /\ SF_vars(AlertShutdownFailure(s))
    /\ \A m \in Members : WF_vars(Cancellation(m))
    /\ \A o \in Operators : WF_vars(Repair(o))

Spec == Init /\ [][Next]_vars
FairSpec == Spec /\ Fairness

-----------------------------------------------------------------------------
(***************************************************************************)
(* Properties                                                              *)
(***************************************************************************)
\* Every variable has the shape of its table, of the provider or of a task.
TypeOK ==
    /\ now \in Nat
    /\ sub  \in [Subs -> SubscriptionRow]
    /\ rule \in [Subs -> RuleStatus]
    /\ pending \in [Subs -> Nat]
    /\ charges \in [Subs -> Nat]
    /\ task \in [Processes -> Task]
    /\ cancelled \in [Subs -> {"no", "clean", "raced", "lost"}]
    /\ failures \in Nat
    /\ crashes \in Nat

\* No process is in the middle of anything that concerns s.
Unattended(s) == \A p \in Processes : Of(p) # s

Quiet(s) == pending[s] = 0 /\ Unattended(s)

\* "This prevents an expired member from being charged by an orphaned recurring
\* rule" (README): whoever has lost access, or was found expired by the
\* operator's repair, has a rule that cannot charge, whatever calls failed,
\* whichever renewals were late and wherever a process died.  (The period of a
\* subscription that an older release expired ended at 0.)
NoOrphanedRule ==
    \A s \in Subs :
        sub[s].status = "expired" /\ (sub[s].current_period_end > 0 \/ sub[s].shutdown_at)
            => rule[s] \notin Chargeable

\* The steps at which the worker is about to expire a subscription, and those at
\* which the operator is repairing one.
ExpirationSteps ==
    {"status", "suspend", "shutdown", "resume", "resumed", "failed", "revoke"}
RepairSteps == {"check", "recheck", "repair", "repaired", "undo"}

\* The subscription of p is not expired and cannot be due before p is done.
Renewed(p) ==
    /\ sub[Of(p)].status # "expired"
    /\ sub[Of(p)].current_period_end > task[p].began + 1

\* Of a task that has begun: it has a row, the clock has advanced once at most,
\* the answer is one its next step knows, and the worker's cutoff leaves the
\* grace period.
TaskSound(p) ==
    /\ ~Idle(p) => Of(p) \in Subs /\ task[p].began \in {now, now - 1}
    /\ At(p, "recovered") => task[p].answer \in {"suspended", "active", "check_failed"}
    /\ p = Worker /\ task[p].step \in ExpirationSteps => task[p].cutoff + Grace <= now

\* Whoever is about to RESUME is at work on a renewed subscription; and whoever is
\* about to record that the rule was stopped is right, unless a renewal has
\* overtaken him.
RuleSound(p) ==
    /\ task[p].step \in {"recover", "recovered", "undo"} => Renewed(p)
    /\ task[p].step \in RepairSteps => sub[Of(p)].status = "expired" \/ Renewed(p)
    /\ At(p, "repaired") /\ sub[Of(p)].status = "expired" =>
            rule[Of(p)] \notin Chargeable
    /\ p = Worker /\ task[p].step \in ExpirationSteps => sub[Of(p)].status # "expired"
    /\ p = Worker /\ task[p].step \in {"shutdown", "revoke"} /\ StillDue =>
            rule[Of(p)] \notin Chargeable

\* Why nobody resumes the rule of an expired subscription.
RuleInv == \A p \in Processes : TaskSound(p) /\ RuleSound(p)

\* Nothing has failed and nothing was lost so far.
Faultless == failures = 0 /\ crashes = 0

\* What a task remembers of the calls before it: only a request that keeps a
\* cancellation suspends a rule, and whoever is about to record a stopped rule has an
\* answer that says so.
AnswerSound(p) ==
    /\ task[p].step \in {"status", "check"} => ~task[p].issued
    /\ At(p, "recovered") /\ task[p].answer = "suspended" => task[p].preserve
    /\ task[p].step \in {"shutdown", "repaired"} =>
            /\ task[p].answer \in TerminalStatus
            /\ task[p].issued => task[p].answer = "suspended"
    /\ At(p, "failed") /\ Faultless => task[p].answer # "active"

\* After a clean cancellation everybody else at work on the subscription either
\* cannot issue a command or issues the SUSPEND of a request that keeps the mark.
CleanTask(p) ==
    /\ task[p].step \in {"process", "recover"} => task[p].preserve
    /\ task[p].step \notin {"suspend", "resume", "recheck", "repair", "undo"}
    /\ task[p].step \in {"shutdown", "repaired"} => ~task[p].issued

\* A request that has cleared the mark and will set it again.
Restoring(p) ==
    /\ task[p].preserve
    /\ \/ At(p, "recover")
       \/ At(p, "recovered") /\ task[p].answer = "suspended"

\* Why a clean cancellation holds: the late renewal finds the mark, for it is the
\* only one that can clear it.
StaysCancelled(s) ==
    /\ rule[s] \notin Chargeable /\ pending[s] <= 1
    /\ pending[s] > 0 => sub[s].cancel_at_period_end
    /\ \A p \in Processes : Of(p) = s => CleanTask(p)
    /\ Faultless => \/ sub[s].cancel_at_period_end
                    \/ \E p \in Processes : Of(p) = s /\ Restoring(p)

CleanInv == \A s \in Subs : cancelled[s] = "clean" => StaysCancelled(s)

\* The background task of a request belongs to a renewed subscription, and the
\* worker's audit to one that has not expired.
AuditSound(p) ==
    task[p].step \in {"verify", "verified", "alert"} =>
        /\ p # Worker => Renewed(p)
        /\ p = Worker => sub[Of(p)].status # "expired"

\* p has stopped the rule and has still to say so, to undo it, or to fail in that.
Stopping(p) ==
    \/ task[p].step \in {"shutdown", "repaired"} /\ task[p].issued
    \/ task[p].step \in {"resume", "undo", "cancel"}

\* p is about to write that the rule is active.
Claiming(p) ==
    \/ task[p].step \in {"verified", "recovered"} /\ task[p].answer = "active"
    \/ p = Worker /\ At(p, "resumed")

\* Why the row is honest: whoever has stopped a rule is the only one to write of it
\* until he is done.
StaysHonest(s) ==
    /\ ~sub[s].cancel_at_period_end
    /\ \A p \in Processes : Of(p) = s => ~task[p].preserve
    /\ (/\ Faultless /\ rule[s] = "suspended"
        /\ \A p \in Processes : Of(p) = s => ~Stopping(p)) =>
            /\ sub[s].provider_recurring_status # "active"
            /\ \A p \in Processes : Of(p) = s => ~Claiming(p)

HonestInv == \A s \in Subs : cancelled[s] = "no" => StaysHonest(s)

\* Every row, rule and task has its shape, whoever is about to issue or to record a
\* command has reason to, and nobody is about to undo a cancellation or to write
\* what is no longer so.
Inv ==
    /\ TypeOK /\ RuleInv
    /\ \A p \in Processes : AnswerSound(p) /\ AuditSound(p)
    /\ CleanInv /\ HonestInv

\* The worker takes access away only after the paid period and its grace, even
\* when a renewal overtakes an expiration that has begun.
PaidMembersKeepAccess ==
    [][\A s \in Subs :
          sub[s].status \in Entitled /\ sub'[s].status = "expired" =>
              sub[s].current_period_end + Grace <= now]_vars

\* A cancellation that committed with the rule stopped, with nobody else at work on
\* the subscription and with one late renewal at most has stopped the rule for good:
\* the renewal, the worker and the failures of later calls notwithstanding.
CleanCancellationStops ==
    \A s \in Subs : cancelled[s] = "clean" => rule[s] \notin Chargeable

\* Such a cancellation also stays on the row if no call fails and no task is lost,
\* though the late renewal clears its mark.
CleanCancellationStays ==
    \A s \in Subs :
        cancelled[s] = "clean" /\ Unattended(s) /\ Faultless
            => sub[s].cancel_at_period_end

\* Both: what has been cancelled stays cancelled, at the provider and on the row.
CleanCancellationHolds == CleanCancellationStops /\ CleanCancellationStays

\* "cancel button -> WayForPay suspended -> active until period end" (README).
CancelledIsNotCharged ==
    \A s \in Subs :
        cancelled[s] \in {"clean", "raced"} /\ Quiet(s) => rule[s] \notin Chargeable

\* "The bot reports auto-renewal as enabled only for the provider state Active"
\* (README): as long as no call fails and nobody cancels, the row does not say so
\* of a rule that the application has suspended.  A rule that the provider removes on
\* its own is not covered: the row says "active" until the next STATUS.
AutoRenewIsHonest ==
    \A s \in Subs :
        /\ cancelled[s] = "no" /\ Faultless /\ Unattended(s)
        /\ sub[s].provider_recurring_status = "active"
        => rule[s] # "suspended"

\* An overdue subscription is expired or renewed in the end, however the
\* provider and Telegram fail before.
OverdueIsResolved ==
    \A s \in Subs :
        (now >= Grace /\ IsDueForExpiration(sub[s], now - Grace))
            ~> (sub[s].status = "expired" \/ sub[s].current_period_end + Grace > now)

\* A renewed subscription whose rule was stopped under it is not forgotten: the
\* rule is resumed, or the administrators are told of it (or of the SUSPEND that
\* seemed to have failed), unless the subscription expires.
StoppedRuleIsNoticed ==
    \A s \in Subs :
        (/\ sub[s].status \in Entitled /\ rule[s] = "suspended"
         /\ cancelled[s] \in {"no", "lost"})
            ~> \/ rule[s] # "suspended"
               \/ sub[s].provider_recurring_alerted_at
               \/ sub[s].shutdown_alerted_at
               \/ sub[s].status = "expired"

=============================================================================
