---------------------------- MODULE Notifications ----------------------------
(***************************************************************************)
(* Who is told what of a subscription (services/subscription_              *)
(* notifications.py): a member of a refused payment, of the end of the     *)
(* grace period and of the removal; the administrators of refused          *)
(* payments, of an unhealthy recurring rule and of a rule that could not   *)
(* be stopped.                                                             *)
(*                                                                         *)
(* All six are sent in the same way.  A job lists what seems due, and for  *)
(* each takes four steps that others may come between: claim its mark in a *)
(* locked transaction, send the message, and, when the delivery failed,    *)
(* release the mark in another transaction.  Webhook requests and the      *)
(* worker do so at the same time.  A delivery that fails may have arrived. *)
(*                                                                         *)
(* Left out: texts, cancellations and the recovery of a suspended rule     *)
(* (Recurring has them), the limit of 100 per round, and test payments.    *)
(***************************************************************************)
EXTENDS SubscriptionState, WorkerLoop, FiniteSets

CONSTANTS
    None,          \* no subject
    Answers,       \* what STATUS may answer
    BillingMonths, \* billing period, in ticks
    Grace,         \* payment_grace_period_hours, in ticks
    ReminderLead   \* payment_grace_reminder_hours_before, in ticks

ASSUME NotificationsAssumption ==
    /\ None \notin Subs \cup Nat
    /\ Answers \subseteq RecurringStatus \ {"pending", "not_applicable"}
    /\ BillingMonths \in Nat \ {0} /\ Grace \in Nat \ {0} /\ ReminderLead \in 0..Grace

VARIABLES
    clock,   \* the time
    sub,     \* the subscription rows
    payment, \* the refused payments and their admin_notified_at
    task,    \* what every process is in the middle of
    heard    \* history: what has been sent in the present incident

notificationVars == <<clock, sub, payment, task, heard>>

\* A job is named for its notice, the worker's jobs for their stage.  The notice
\* of an unhealthy rule ("rule") follows an audit or a renewal.
MemberJobs == {"failed", "reminder", "revoked"}
AdminJobs  == {"rule", "shutdown", "declined"}
Jobs       == MemberJobs \cup AdminJobs

\* The marks; that of "declined" is in the payment.
MarkOf ==
    [failed   |-> "payment_failed_user_notified_at",
     reminder |-> "grace_reminder_notified_at",
     revoked  |-> "access_revoked_notified_at",
     rule     |-> "provider_recurring_alerted_at",
     shutdown |-> "shutdown_alerted_at"]

\* Refused payments are numbered in the order of their arrival.
Payments == 1..MaxEvents
PaymentState == {"none", "unalerted", "alerted"}

Subject == Subs \cup Payments
Notices == ((Jobs \ {"declined"}) \X Subs) \cup ({"declined"} \X Payments)

\* What is still to do, the notice in hand, the notices whose incident has not
\* changed since they were listed or claimed, the answers of STATUS, the payment
\* of a request, the expiration cutoff.
Task == [job     : Jobs \cup {"none", "expire"},
         step    : {"idle", "list", "verify", "claim", "send", "release",
                    "due", "stop", "revoke"},
         todo    : SUBSET Subject,
         subject : Subject \cup {None},
         current : SUBSET Subject,
         answer  : [Subs -> Answers \cup {"pending"}],
         payment : Payments \cup {0},
         cutoff  : Int]

IdleTask ==
    [job |-> "none", step |-> "idle", todo |-> {}, subject |-> None, current |-> {},
     answer |-> [s \in Subs |-> "pending"], payment |-> 0, cutoff |-> 0]

\* Messages that arrived, marks released, and whether a claim died with its
\* process, since the mark was last reset.
Heard == [told : Nat, released : Nat, lost : BOOLEAN]
Unheard == [told |-> 0, released |-> 0, lost |-> FALSE]

Idle(p) == task[p] = IdleTask
At(p, step) == task[p].step = step
Hand(p) == <<task[p].job, task[p].subject>>

NotificationsInit ==
    /\ clock = 0
    /\ sub = [s \in Subs |-> NewSubscription(0, BillingMonths, "active")]
    /\ payment = [p \in Payments |-> "none"]
    /\ task = [p \in Processes |-> IdleTask]
    /\ heard = [n \in Notices |-> Unheard]

NotificationsTypes ==
    /\ clock \in Nat
    /\ sub \in [Subs -> SubscriptionRow]
    /\ payment \in [Payments -> PaymentState]
    /\ task \in [Processes -> Task]
    /\ heard \in [Notices -> Heard]

-----------------------------------------------------------------------------
(***************************************************************************)
(* Marks                                                                   *)
(***************************************************************************)
Marked(job, x) ==
    IF job = "declined" THEN payment[x] = "alerted" ELSE sub[x][MarkOf[job]]

SetMark(job, x, value) ==
    IF job = "declined"
    THEN /\ payment' = [payment EXCEPT ![x] = IF value THEN "alerted" ELSE "unalerted"]
         /\ UNCHANGED sub
    ELSE /\ sub' = [sub EXCEPT ![x][MarkOf[job]] = value]
         /\ UNCHANGED payment

\* A row is rewritten and the marks of some jobs with it: a new incident begins,
\* and what a process has in hand for them belongs to the old one.
Rewrites(s, row, jobs, tasks) ==
    /\ sub' = [sub EXCEPT ![s] = row]
    /\ heard' = [n \in Notices |->
          IF n[1] \in jobs /\ n[2] = s THEN Unheard ELSE heard[n]]
    /\ task' = [p \in Processes |->
          IF tasks[p].job \in jobs
          THEN [tasks[p] EXCEPT !.current = @ \ {s}] ELSE tasks[p]]

\* The jobs whose marks a payment clears, and a refused one when it is the first.
RenewalResets == MemberJobs \cup {"shutdown"}
RefusalResets(s) == IF sub[s].status = "active" THEN MemberJobs ELSE {}

\* Conditions of the worker's queries.
RefusedMember(s) == sub[s].status = "past_due" /\ sub[s].payment_failed_at
InReminderWindow(s) ==
    /\ sub[s].current_period_end > clock - Grace
    /\ sub[s].current_period_end <= clock - Grace + ReminderLead
Removed(s) ==
    sub[s].status = "expired" /\ sub[s].payment_failed_at /\ sub[s].access_revoked_at
ShutdownFailed(s) == sub[s].status \in Entitled /\ sub[s].shutdown_error

Due(job) ==
    CASE job = "failed"   -> {s \in Subs : RefusedMember(s)}
      [] job = "reminder" -> {s \in Subs : RefusedMember(s) /\ InReminderWindow(s)}
      [] job = "revoked"  -> {s \in Subs : Removed(s)}
      [] job = "shutdown" -> {s \in Subs : ShutdownFailed(s)}
      [] job = "declined" -> {p \in Payments : payment[p] # "none"}

\* What a job finds due and not yet announced.
Listed(job) == {x \in Due(job) : ~Marked(job, x)}

\* The audit's query.
Unverified ==
    {s \in Subs : /\ sub[s].status \in Entitled
                  /\ ~sub[s].cancel_at_period_end
                  /\ sub[s].provider_recurring_status # "active"}

RequiresAlert(answer) == answer \notin {"active", "not_applicable", "pending"}

\* What the claim looks at again under its lock: only part of what the query has
\* looked at.
StillDue(p, x) ==
    LET job == task[p].job
    IN  CASE job \in {"failed", "reminder"} -> sub[x].status = "past_due"
          [] job = "revoked"  -> sub[x].status = "expired"
          [] job = "rule"     -> sub[x].provider_recurring_status = task[p].answer[x]
          [] job = "shutdown" -> sub[x].shutdown_error
          [] job = "declined" -> TRUE

MayClaim(p, x) == ~Marked(task[p].job, x) /\ StillDue(p, x)

-----------------------------------------------------------------------------
(***************************************************************************)
(* What the provider announces                                             *)
(***************************************************************************)
\* A refused payment is stored; the row changes if it is entitled.
Refused(h, s, p) ==
    /\ Idle(h)
    /\ payment[p] = "none" /\ \A q \in Payments : q < p => payment[q] # "none"
    /\ Event
    /\ payment' = [payment EXCEPT ![p] = "unalerted"]
    /\ LET tasks == [task EXCEPT ![h] =
               [IdleTask EXCEPT !.job = "failed", !.step = "list",
                                !.subject = s, !.payment = p]]
       IN  IF sub[s].status \in Entitled
           THEN Rewrites(s, ApplyFailedPayment(sub[s]), RefusalResets(s), tasks)
           ELSE task' = tasks /\ UNCHANGED <<sub, heard>>
    /\ UNCHANGED clock

\* A renewal extends the row; its background task then verifies the rule.
Renewed(h, s) ==
    /\ Idle(h)
    /\ Event
    /\ Rewrites(s, ExtendSubscription(sub[s], BillingMonths, clock), RenewalResets,
                [task EXCEPT ![h] =
                    [IdleTask EXCEPT !.job = "rule", !.step = "verify", !.todo = {s}]])
    /\ UNCHANGED <<clock, payment>>

-----------------------------------------------------------------------------
(***************************************************************************)
(* Listing                                                                 *)
(***************************************************************************)
\* A request goes on from the member to the administrators; otherwise a task
\* without anything left to do is over.
Onward(p, t) ==
    IF t.todo = {} /\ ~(p \in Requests /\ t.job = "failed")
    THEN IdleTask
    ELSE [t EXCEPT !.step = "claim", !.subject = None]

Finds(p, job, found) ==
    task' = [task EXCEPT ![p] =
        Onward(p, [task[p] EXCEPT !.job = job, !.todo = found, !.current = found])]

\* A job of the worker.
ListDue(job) ==
    /\ Idle(Worker)
    /\ Listed(job) # {}
    /\ Finds(Worker, job, Listed(job))
    /\ Smooth
    /\ UNCHANGED <<clock, sub, payment, heard>>

\* A request looks up the subscription it has changed.
ListRefused(h) ==
    /\ h \in Requests
    /\ task[h].job = "failed" /\ At(h, "list")
    /\ Finds(h, "failed", {task[h].subject} \cap Listed("failed"))
    /\ Smooth
    /\ UNCHANGED <<clock, sub, payment, heard>>

\* Then it alerts the administrators of its payment.
ListDeclined(h) ==
    /\ h \in Requests
    /\ task[h].job = "failed" /\ At(h, "claim") /\ task[h].todo = {}
    /\ Finds(h, "declined", {task[h].payment} \cap Listed("declined"))
    /\ Smooth
    /\ UNCHANGED <<clock, sub, payment, heard>>

\* The audit.  A row that was looked at less than recurring_status_recheck_minutes
\* ago is left out: the worker need not take this step.
BeginAudit ==
    /\ Idle(Worker)
    /\ Unverified # {}
    /\ task' = [task EXCEPT ![Worker] =
          [IdleTask EXCEPT !.job = "rule", !.step = "verify", !.todo = Unverified]]
    /\ Smooth
    /\ UNCHANGED <<clock, sub, payment, heard>>

\* STATUS is asked and its answer stored.  A failing call is an answer too.
Verify(p, s, answer) ==
    /\ At(p, "verify") /\ s \in task[p].todo
    /\ Rewrites(s, RecordVerified(sub[s], answer),
                IF answer = "active" THEN {"rule"} ELSE {},
                [task EXCEPT ![p].todo = @ \ {s}, ![p].answer[s] = answer])
    /\ Smooth
    /\ UNCHANGED <<clock, payment>>

\* Every answer is in: what is wrong with the rules is to be reported.
ListUnhealthy(p) ==
    /\ At(p, "verify") /\ task[p].todo = {}
    /\ Finds(p, "rule", {s \in Subs : RequiresAlert(task[p].answer[s])})
    /\ Smooth
    /\ UNCHANGED <<clock, sub, payment, heard>>

-----------------------------------------------------------------------------
(***************************************************************************)
(* Claim, send, release                                                    *)
(***************************************************************************)
\* A message counts for the incident it was claimed in.
Counted(p, n) ==
    heard' = IF task[p].subject \in task[p].current
             THEN [heard EXCEPT ![Hand(p)].told = @ + n] ELSE heard

\* The claim belongs to the incident in which it is made.
Claim(p, x) ==
    /\ At(p, "claim") /\ x \in task[p].todo
    /\ MayClaim(p, x)
    /\ SetMark(task[p].job, x, TRUE)
    /\ task' = [task EXCEPT ![p].step = "send", ![p].todo = @ \ {x},
                            ![p].subject = x, ![p].current = @ \cup {x}]
    /\ Smooth
    /\ UNCHANGED <<clock, heard>>

ClaimRefused(p, x) ==
    /\ At(p, "claim") /\ x \in task[p].todo
    /\ ~MayClaim(p, x)
    /\ task' = [task EXCEPT ![p] = Onward(p, [task[p] EXCEPT !.todo = @ \ {x}])]
    /\ Smooth
    /\ UNCHANGED <<clock, sub, payment, heard>>

\* The member, or at least one administrator, gets the message.
Send(p) ==
    /\ At(p, "send")
    /\ Counted(p, 1)
    /\ task' = [task EXCEPT ![p] = Onward(p, @)]
    /\ Smooth
    /\ UNCHANGED <<clock, sub, payment>>

\* Telegram reports an error, perhaps after it has delivered the message.
SendFails(p) ==
    /\ At(p, "send")
    /\ Fails
    /\ Counted(p, 0) \/ Counted(p, 1)
    /\ task' = [task EXCEPT ![p].step = "release"]
    /\ UNCHANGED <<clock, sub, payment>>

\* Faulty variant: the mark stays although the message has not been delivered.
ReleaseNever(p) ==
    /\ At(p, "release")
    /\ task' = [task EXCEPT ![p] = Onward(p, @)]
    /\ Smooth
    /\ UNCHANGED <<clock, sub, payment, heard>>

\* The mark is removed, whoever has set it meanwhile.
Release(p) ==
    /\ At(p, "release")
    /\ SetMark(task[p].job, task[p].subject, FALSE)
    /\ heard' = [heard EXCEPT ![Hand(p)].released = @ + 1]
    /\ task' = [task EXCEPT ![p] = Onward(p, @)]
    /\ Smooth
    /\ UNCHANGED clock

\* What is left of a lost task: a mark claimed for a message that may not have
\* been sent stays in the row.
TaskLost(p) ==
    /\ heard' = IF task[p].step \in {"send", "release"}
                   /\ task[p].subject \in task[p].current
                THEN [heard EXCEPT ![Hand(p)].lost = TRUE] ELSE heard
    /\ task' = [task EXCEPT ![p] = IdleTask]
    /\ UNCHANGED <<clock, sub, payment>>

TaskSteps(p) ==
    \/ \E s \in Subs, answer \in Answers : Verify(p, s, answer)
    \/ ListUnhealthy(p)
    \/ \E x \in Subject : Claim(p, x) \/ ClaimRefused(p, x)
    \/ Send(p) \/ SendFails(p) \/ Release(p)
    \/ ListRefused(p) \/ ListDeclined(p)

=============================================================================
