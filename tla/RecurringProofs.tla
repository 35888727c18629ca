--------------------------- MODULE RecurringProofs ---------------------------
(***************************************************************************)
(* What holds of Recurring for every set of subscriptions, requests,       *)
(* members and operators, and for every period, grace and bound.           *)
(*                                                                         *)
(* A step is described by what it does to a row (RowMoves), to a rule      *)
(* (RuleMoves) and to the task of one process (Onward, Finish); the        *)
(* invariants of all other processes follow from these descriptions        *)
(* (OthersKeepTasks, OthersKeepRules).  Four inductive invariants rest one *)
(* on the other: Shape, Rules (what keeps a rule from being orphaned),     *)
(* Cancellations (what keeps a cancelled row cancelled) and Honesty (what  *)
(* keeps a row from saying "active" of a rule that was stopped).           *)
(***************************************************************************)
EXTENDS Recurring, TLAPS

-----------------------------------------------------------------------------
(***************************************************************************)
(* What a step does to the rows                                            *)
(***************************************************************************)
\* Status and paid-through date stay.
KeepsEntitlement(s) ==
    /\ sub'[s].status = sub[s].status
    /\ sub'[s].current_period_end = sub[s].current_period_end

\* A renewal: a whole period from now at least.
Renews(s) ==
    /\ sub'[s].status = "active"
    /\ sub'[s].current_period_end >= now + BillingMonths

\* The worker removes an overdue member.
Expires(s) ==
    /\ s = Of(Worker) /\ At(Worker, "revoke") /\ StillDue
    /\ task'[Worker].step = "idle"
    /\ sub'[s].status = "expired"
    /\ sub'[s].current_period_end = sub[s].current_period_end
    /\ rule' = rule

RowMoves(s) == KeepsEntitlement(s) \/ Renews(s) \/ Expires(s)

\* What the functions of a row leave alone: they return rows, and touch neither
\* the status nor the paid-through date.
LEMMA RowKept ==
    ASSUME NEW s \in SubscriptionRow, NEW r \in RecurringStatus, NEW b \in BOOLEAN,
           NEW t \in {RecordShutdown(s, r), RecordShutdownFailure(s, r),
                      RecordResumed(s), CancelAtPeriodEnd(s, r), RecordVerified(s, r),
                      [s EXCEPT !.provider_recurring_status = r],
                      [s EXCEPT !.provider_recurring_alerted_at = @ \/ b],
                      [s EXCEPT !.shutdown_alerted_at = TRUE]}
    PROVE  /\ t \in SubscriptionRow
           /\ t.status = s.status
           /\ t.current_period_end = s.current_period_end
<1>1. CASE t = RecordShutdown(s, r)
  BY <1>1 DEF RecordShutdown, SubscriptionRow
<1>2. CASE t = RecordShutdownFailure(s, r)
  BY <1>2 DEF RecordShutdownFailure, SubscriptionRow
<1>3. CASE t = RecordResumed(s)
  BY <1>3 DEF RecordResumed, SubscriptionRow, RecurringStatus
<1>4. CASE t = CancelAtPeriodEnd(s, r)
  BY <1>4 DEF CancelAtPeriodEnd, RecordShutdown, SubscriptionRow
<1>5. CASE t = RecordVerified(s, r)
  BY <1>5 DEF RecordVerified, SubscriptionRow
<1>6. CASE t = [s EXCEPT !.provider_recurring_status = r]
  BY <1>6 DEF SubscriptionRow
<1>7. CASE t = [s EXCEPT !.provider_recurring_alerted_at = @ \/ b]
  BY <1>7 DEF SubscriptionRow
<1>8. CASE t = [s EXCEPT !.shutdown_alerted_at = TRUE]
  BY <1>8 DEF SubscriptionRow
<1> QED
  BY <1>1, <1>2, <1>3, <1>4, <1>5, <1>6, <1>7, <1>8

\* A renewal returns a row that is active for a whole period from the payment.
LEMMA RowRenewed ==
    ASSUME NEW s \in SubscriptionRow, NEW m \in Nat, NEW t \in Nat
    PROVE  /\ ExtendSubscription(s, m, t) \in SubscriptionRow
           /\ ExtendSubscription(s, m, t).status = "active"
           /\ ExtendSubscription(s, m, t).current_period_end >= t + m
           /\ ~ExtendSubscription(s, m, t).shutdown_at
<1> DEFINE base == IF s.current_period_end < t THEN t ELSE s.current_period_end
           row(b, e) == [s EXCEPT !.current_period_start            = b,
                                  !.current_period_end              = e,
                                  !.status                          = "active",
                                  !.cancel_at_period_end            = FALSE,
                                  !.payment_failed_at               = FALSE,
                                  !.payment_failed_user_notified_at = FALSE,
                                  !.grace_reminder_notified_at      = FALSE,
                                  !.access_revoked_at               = FALSE,
                                  !.access_revoked_notified_at      = FALSE,
                                  !.shutdown_at                     = FALSE,
                                  !.shutdown_error                  = FALSE,
                                  !.shutdown_alerted_at             = FALSE]
<1>1. base \in Nat /\ base + m \in Nat /\ base >= t
  BY DEF SubscriptionRow
<1>2. ASSUME NEW b \in Nat, NEW e \in Nat
      PROVE  /\ row(b, e) \in SubscriptionRow
             /\ row(b, e).status = "active"
             /\ row(b, e).current_period_end = e
  BY ZenonT(60) DEF SubscriptionRow, SubscriptionStatus
<1>3. ExtendSubscription(s, m, t) = row(base, base + m)
  BY Zenon DEF ExtendSubscription
<1>4. ASSUME NEW b \in Nat, NEW e \in Nat
      PROVE  ~row(b, e).shutdown_at
  BY DEF SubscriptionRow
<1>5. base + m >= t + m
  BY <1>1
<1> HIDE DEF row, base
<1> QED
  BY <1>1, <1>2, <1>3, <1>4, <1>5

\* The expiration returns an expired row with the same paid-through date.
LEMMA RowExpired ==
    ASSUME NEW s \in SubscriptionRow, NEW b \in BOOLEAN
    PROVE  /\ ExpireSubscription(s, b) \in SubscriptionRow
           /\ ExpireSubscription(s, b).status = "expired"
           /\ ExpireSubscription(s, b).current_period_end = s.current_period_end
  BY DEF ExpireSubscription, SubscriptionRow, SubscriptionStatus

-----------------------------------------------------------------------------
(***************************************************************************)
(* What a step does to the tasks                                           *)
(***************************************************************************)
\* Nobody else's task changes, and the tasks remain tasks.
OthersStay(p) ==
    /\ task' \in [Processes -> Task]
    /\ \A q \in Processes \ {p} : task'[q] = task[q]

\* The process goes on to a step, with the same subscription and cutoff.
Onward(p, step) ==
    /\ OthersStay(p)
    /\ task'[p].step = step
    /\ task'[p].sub = task[p].sub
    /\ task'[p].cutoff = task[p].cutoff
    /\ task'[p].began = task[p].began

\* The process is done.
Ends(p) == OthersStay(p) /\ task'[p].step = "idle"

\* The process has begun with a row, a moment ago.
Begins(p, s, step) ==
    /\ OthersStay(p)
    /\ task'[p].step = step
    /\ task'[p].sub = s
    /\ task'[p].began = now

\* The operators that change a task are of these three kinds.
LEMMA FinishEnds ==
    ASSUME TypeOK, NEW p \in Processes, Finish(p)
    PROVE  Ends(p)
<1>1. IdleTask \in Task
  BY DEF IdleTask, Task, Steps, RecurringStatus
<1>2. IdleTask.step = "idle"
  BY DEF IdleTask
<1> QED
  BY <1>1, <1>2 DEF Finish, Ends, OthersStay, TypeOK

\* A process that only moves on keeps everything else of its task.
LEMMA GotoOnward ==
    ASSUME TypeOK, NEW p \in Processes, NEW st \in Steps, Goto(p, st)
    PROVE  Onward(p, st) /\ task'[p].answer = task[p].answer
  BY DEF Goto, Onward, OthersStay, TypeOK, Task

\* An answer is kept for the next step.
LEMMA AnsweredOnward ==
    ASSUME TypeOK, NEW p \in Processes, NEW st \in Steps,
           NEW a \in RecurringStatus, Answered(p, st, a)
    PROVE  Onward(p, st) /\ task'[p].answer = a
  BY DEF Answered, Onward, OthersStay, TypeOK, Task

\* So is the fact that a SUSPEND was issued.
LEMMA IssuedOnward ==
    ASSUME TypeOK, NEW p \in Processes, NEW st \in Steps,
           task' = [task EXCEPT ![p] =
               [@ EXCEPT !.step = st, !.issued = TRUE, !.answer = "suspended"]]
    PROVE  Onward(p, st)
  BY DEF Onward, OthersStay, TypeOK, Task, RecurringStatus

\* A process begins with a clean task.
LEMMA StartBegins ==
    ASSUME TypeOK, NEW p \in Processes, NEW s \in Subs, NEW st \in Steps,
           Start(p, s, st)
    PROVE  Begins(p, s, st)
<1>1. IdleTask \in Task
  BY DEF IdleTask, Task, Steps, RecurringStatus
<1> DEFINE t == [IdleTask EXCEPT !.step = st, !.sub = s, !.began = now]
<1>2. /\ t \in Task
      /\ t.step = st /\ t.sub = s /\ t.began = now
  BY <1>1 DEF TypeOK, Task
<1>3. task' = [task EXCEPT ![p] = t]
  BY DEF Start
<1> HIDE DEF t
<1> QED
  BY <1>2, <1>3 DEF Begins, OthersStay, TypeOK

-----------------------------------------------------------------------------
(***************************************************************************)
(* What a call does to the rules                                           *)
(***************************************************************************)
Suspends(p) == SuspendSucceeds(p) \/ SuspendFails(p)
Resumes(p) == ResumeSucceeds(p) \/ ResumeFails(p)
Asks == StatusSucceeds \/ StatusFails

\* A call changes no row, and no rule but the one it is about; only a RESUME
\* makes a rule chargeable, and a SUSPEND that succeeds leaves it stopped.
LEMMA CallEffect ==
    ASSUME TypeOK, NEW p \in Processes, Suspends(p) \/ Resumes(p) \/ Asks
    PROVE  /\ UNCHANGED <<now, sub, pending, charges, cancelled, crashes>>
           /\ rule' \in [Subs -> RuleStatus] /\ failures' \in Nat
           /\ \A s \in Subs \ {Of(p)} : rule'[s] = rule[s]
           /\ Suspends(p) \/ Asks =>
                  \A s \in Subs : rule'[s] \in Chargeable => rule[s] \in Chargeable
           /\ SuspendSucceeds(p) /\ Of(p) \in Subs => rule'[Of(p)] \notin Chargeable
           /\ Asks => rule' = rule
<1> DEFINE stopped == [rule EXCEPT ![Of(p)] = Suspended(@)]
           resumed == [rule EXCEPT ![Of(p)] = "active"]
<1>1. /\ stopped \in [Subs -> RuleStatus]
      /\ \A s \in Subs : stopped[s] \in Chargeable => rule[s] \in Chargeable
      /\ Of(p) \in Subs => stopped[Of(p)] \notin Chargeable
      /\ \A s \in Subs \ {Of(p)} : stopped[s] = rule[s]
  BY DEF TypeOK, RuleStatus, Suspended, Chargeable
<1>2. /\ resumed \in [Subs -> RuleStatus]
      /\ \A s \in Subs \ {Of(p)} : resumed[s] = rule[s]
  BY DEF TypeOK, RuleStatus
<1>3. rule \in [Subs -> RuleStatus] /\ failures \in Nat
  BY DEF TypeOK
<1>4. Asks => /\ rule' = rule /\ failures' \in {failures, failures + 1} /\ Calls
  BY DEF Asks, StatusSucceeds, StatusFails, Fails
<1>5. Suspends(p) => /\ rule' \in {rule, stopped}
                     /\ failures' \in {failures, failures + 1} /\ Calls
  BY DEF Suspends, SuspendSucceeds, SuspendFails, Fails
<1>6. SuspendSucceeds(p) => rule' = stopped
  BY DEF SuspendSucceeds
<1>7. Resumes(p) => /\ rule' \in {rule, resumed}
                    /\ failures' \in {failures, failures + 1} /\ Calls
  BY DEF Resumes, ResumeSucceeds, ResumeFails, Fails
<1> HIDE DEF stopped, resumed
<1>8. /\ UNCHANGED <<now, sub, pending, charges, cancelled, crashes>>
      /\ failures' \in Nat
  BY <1>3, <1>4, <1>5, <1>7 DEF Calls
<1>9. /\ rule' \in [Subs -> RuleStatus]
      /\ \A s \in Subs \ {Of(p)} : rule'[s] = rule[s]
  BY <1>1, <1>2, <1>3, <1>4, <1>5, <1>7
<1> QED
  BY <1>1, <1>4, <1>5, <1>6, <1>8, <1>9

-----------------------------------------------------------------------------
(***************************************************************************)
(* The shape of the state                                                  *)
(***************************************************************************)
\* TypeOK but for the tasks.
TablesOK ==
    /\ now \in Nat
    /\ sub  \in [Subs -> SubscriptionRow]
    /\ rule \in [Subs -> RuleStatus]
    /\ pending \in [Subs -> Nat]
    /\ charges \in [Subs -> Nat]
    /\ cancelled \in [Subs -> {"no", "clean", "raced", "lost"}]
    /\ failures \in Nat
    /\ crashes \in Nat

\* The invariant of the first part: types, and tasks that are sound.
Shape == TypeOK /\ \A p \in Processes : TaskSound(p)

\* What a step of the first part shows.
ShapeMoves == Shape' /\ \A s \in Subs : RowMoves(s)

\* A process that ends leaves a sound state.
LEMMA EndsShape ==
    ASSUME Shape, NEW p \in Processes, Ends(p), now' = now, TablesOK'
    PROVE  Shape'
<1>1. TypeOK'
  BY DEF Ends, OthersStay, TablesOK, TypeOK
<1>2. TaskSound(p)'
  BY DEF Ends, TaskSound, Idle, At, ExpirationSteps
<1>3. ASSUME NEW q \in Processes \ {p} PROVE TaskSound(q)'
  BY <1>3 DEF Ends, OthersStay, Shape, TaskSound, Idle, At, Of
<1> QED
  BY <1>1, <1>2, <1>3 DEF Shape

\* So does one that goes on, unless it joins the expiration or keeps an answer.
LEMMA OnwardShape ==
    ASSUME Shape, NEW p \in Processes, NEW st \in Steps, Onward(p, st), ~Idle(p),
           now' = now, TablesOK',
           st = "recovered" => task'[p].answer \in {"suspended", "active", "check_failed"},
           p = Worker /\ st \in ExpirationSteps => task[p].step \in ExpirationSteps
    PROVE  Shape'
<1>1. TypeOK'
  BY DEF Onward, OthersStay, TablesOK, TypeOK
<1>2. TaskSound(p)'
  BY DEF Onward, TaskSound, Shape, Idle, At, Of
<1>3. ASSUME NEW q \in Processes \ {p} PROVE TaskSound(q)'
  BY <1>3 DEF Onward, OthersStay, Shape, TaskSound, Idle, At, Of
<1> QED
  BY <1>1, <1>2, <1>3 DEF Shape

\* And so does one that begins with anything but an expiration.
LEMMA BeginsShape ==
    ASSUME Shape, NEW p \in Processes, NEW s \in Subs,
           NEW st \in Steps \ (ExpirationSteps \cup {"idle", "recovered"}),
           Begins(p, s, st), now' = now, TablesOK'
    PROVE  Shape'
<1>1. TypeOK'
  BY DEF Begins, OthersStay, TablesOK, TypeOK
<1>2. TaskSound(p)'
  BY DEF Begins, TaskSound, Idle, At, Of
<1>3. ASSUME NEW q \in Processes \ {p} PROVE TaskSound(q)'
  BY <1>3 DEF Begins, OthersStay, Shape, TaskSound, Idle, At, Of
<1> QED
  BY <1>1, <1>2, <1>3 DEF Shape

\* A process that is busy with something has a row.
LEMMA BusyRow ==
    ASSUME Shape, NEW p \in Processes, NEW st \in Steps \ {"idle"}, At(p, st)
    PROVE  /\ ~Idle(p) /\ Of(p) \in Subs
           /\ sub[Of(p)] \in SubscriptionRow /\ rule[Of(p)] \in RuleStatus
  BY DEF Shape, TaskSound, Idle, At, TypeOK

\* Writing a row that keeps the entitlement moves nothing.
LEMMA WriteKeeps ==
    ASSUME Shape, NEW x \in Subs, NEW row \in SubscriptionRow,
           row.status = sub[x].status,
           row.current_period_end = sub[x].current_period_end,
           sub' = [sub EXCEPT ![x] = row]
    PROVE  /\ sub' \in [Subs -> SubscriptionRow]
           /\ \A s \in Subs : RowMoves(s)
  BY DEF Shape, TypeOK, RowMoves, KeepsEntitlement

\* Writing nothing does not either.
LEMMA SameKeeps ==
    ASSUME Shape, sub' = sub PROVE \A s \in Subs : RowMoves(s)
  BY DEF RowMoves, KeepsEntitlement

\* The steps of a webhook request, its background task included.
LEMMA WebhookShape ==
    ASSUME Shape, NEW h \in Handlers, Webhook(h)
    PROVE  ShapeMoves
<1> USE DEF ShapeMoves
<1> h \in Processes /\ TypeOK
  BY DEF Processes, Shape
<1> /\ {"idle", "process", "recover", "recovered", "verify"} \subseteq Steps
    /\ {"idle", "process", "recover", "recovered", "verify"} \cap ExpirationSteps = {}
    /\ {"suspended", "active", "check_failed"} \subseteq RecurringStatus
  BY DEF Steps, ExpirationSteps, RecurringStatus
<1>1. ASSUME NEW s \in Subs, ReadContext(h, s)
      PROVE  ShapeMoves
  <2> DEFINE t == [IdleTask EXCEPT
                      !.step     = "process",
                      !.sub      = s,
                      !.resume   = sub[s].shutdown_at /\ ~sub[s].cancel_at_period_end,
                      !.preserve = sub[s].cancel_at_period_end,
                      !.began    = now]
  <2>1. sub[s] \in SubscriptionRow /\ now \in Nat
    BY DEF TypeOK
  <2>2. sub[s].shutdown_at \in BOOLEAN /\ sub[s].cancel_at_period_end \in BOOLEAN
    BY <2>1 DEF SubscriptionRow
  <2>3. /\ t \in Task
        /\ t.step = "process" /\ t.sub = s /\ t.began = now
    BY <2>1, <2>2 DEF IdleTask, Task, RecurringStatus
  <2>4. task' = [task EXCEPT ![h] = t] /\ Keeps
    BY <1>1 DEF ReadContext
  <2> HIDE DEF t
  <2>5. Begins(h, s, "process")
    BY <2>3, <2>4 DEF Begins, OthersStay, TypeOK
  <2>6. TablesOK' /\ now' = now /\ sub' = sub
    BY <2>4 DEF Keeps, TablesOK, TypeOK
  <2> QED
    BY <2>5, <2>6, BeginsShape, SameKeeps
<1>2. CASE ProcessApproved(h)
  <2>1. ~Idle(h) /\ Of(h) \in Subs /\ sub[Of(h)] \in SubscriptionRow
    BY <1>2, BusyRow DEF ProcessApproved
  <2> DEFINE row == ExtendSubscription(sub[Of(h)], BillingMonths, now)
  <2>2. /\ row \in SubscriptionRow /\ row.status = "active"
        /\ row.current_period_end >= now + BillingMonths
    BY <2>1, RowRenewed, RecurringAssumption DEF TypeOK
  <2>3. /\ sub' = [sub EXCEPT ![Of(h)] = row]
        /\ pending' = [pending EXCEPT ![Of(h)] = @ - 1] /\ pending[Of(h)] > 0
        /\ Goto(h, AfterApproval(h))
        /\ UNCHANGED <<now, rule, charges, cancelled, failures, crashes>>
    BY <1>2 DEF ProcessApproved
  <2> HIDE DEF row
  <2>4. TablesOK'
    <3>1. pending' \in [Subs -> Nat]
      BY <2>1, <2>3 DEF TypeOK
    <3>2. sub' \in [Subs -> SubscriptionRow]
      BY <2>2, <2>3 DEF TypeOK
    <3> QED
      BY <2>3, <3>1, <3>2 DEF TablesOK, TypeOK
  <2>5. \A s \in Subs : RowMoves(s)
    BY <2>1, <2>2, <2>3 DEF RowMoves, KeepsEntitlement, Renews, TypeOK
  <2>6. AfterApproval(h) \in {"recover", "verify"}
    BY DEF AfterApproval
  <2>7. Onward(h, AfterApproval(h))
    BY <2>3, <2>6, GotoOnward
  <2> QED
    BY <2>1, <2>3, <2>4, <2>5, <2>6, <2>7, OnwardShape
<1>3. CASE ProcessMismatched(h)
  <2>1. ~Idle(h) /\ Of(h) \in Subs
    BY <1>3, BusyRow DEF ProcessMismatched
  <2>2. /\ pending' = [pending EXCEPT ![Of(h)] = @ - 1] /\ pending[Of(h)] > 0
        /\ Goto(h, AfterApproval(h))
        /\ UNCHANGED <<now, sub, rule, charges, cancelled, failures, crashes>>
    BY <1>3 DEF ProcessMismatched
  <2>3. TablesOK'
    BY <2>1, <2>2 DEF TablesOK, TypeOK
  <2>4. AfterApproval(h) \in {"recover", "verify"}
    BY DEF AfterApproval
  <2>5. Onward(h, AfterApproval(h))
    BY <2>2, <2>4, GotoOnward
  <2> QED
    BY <2>1, <2>2, <2>3, <2>4, <2>5, OnwardShape, SameKeeps
<1>4. CASE AlreadyProcessed(h)
  <2>1. Finish(h) /\ Keeps
    BY <1>4 DEF AlreadyProcessed
  <2>2. TablesOK' /\ now' = now /\ sub' = sub
    BY <2>1 DEF Keeps, TablesOK, TypeOK
  <2> QED
    BY <2>1, <2>2, FinishEnds, EndsShape, SameKeeps
<1>5. CASE CallRecover(h)
  <2>1. ~Idle(h)
    BY <1>5, BusyRow DEF CallRecover
  <2>2. /\ Suspends(h) \/ Resumes(h) \/ Asks
        /\ \E a \in {"suspended", "active", "check_failed"} : Answered(h, "recovered", a)
    BY <1>5 DEF CallRecover, Suspends, Resumes
  <2>3. TablesOK' /\ now' = now /\ sub' = sub
    BY <2>2, CallEffect DEF TablesOK, TypeOK
  <2>4. PICK a \in {"suspended", "active", "check_failed"} : Answered(h, "recovered", a)
    BY <2>2
  <2>5. Onward(h, "recovered") /\ task'[h].answer = a
    BY <2>4, AnsweredOnward
  <2> QED
    BY <2>1, <2>3, <2>4, <2>5, OnwardShape, SameKeeps
<1>6. CASE CommitRecover(h)
  <2>1. /\ ~Idle(h) /\ Of(h) \in Subs /\ sub[Of(h)] \in SubscriptionRow
        /\ task[h].answer \in {"suspended", "active", "check_failed"}
    BY <1>6, BusyRow DEF CommitRecover, Shape, TaskSound
  <2> DEFINE row == RecoveredRow(sub[Of(h)], task[h].answer)
  <2>2. /\ row \in SubscriptionRow
        /\ row.status = sub[Of(h)].status
        /\ row.current_period_end = sub[Of(h)].current_period_end
    BY <2>1, RowKept, ZenonT(60) DEF RecoveredRow
  <2>3. /\ sub' = [sub EXCEPT ![Of(h)] = row]
        /\ Goto(h, "verify")
        /\ UNCHANGED <<now, rule, pending, charges, cancelled, failures, crashes>>
    BY <1>6 DEF CommitRecover, Rewrites
  <2> HIDE DEF row
  <2>4. sub' \in [Subs -> SubscriptionRow] /\ \A s \in Subs : RowMoves(s)
    BY <2>1, <2>2, <2>3, WriteKeeps
  <2>5. TablesOK' /\ now' = now
    BY <2>3, <2>4 DEF TablesOK, TypeOK
  <2> QED
    BY <2>1, <2>3, <2>4, <2>5, GotoOnward, OnwardShape
<1> QED
  BY <1>1, <1>2, <1>3, <1>4, <1>5, <1>6 DEF Webhook

\* A process that writes a row of the same entitlement and ends, or goes on.
LEMMA RewriteShape ==
    ASSUME Shape, NEW p \in Processes, NEW row \in SubscriptionRow,
           ~Idle(p), Of(p) \in Subs, Rewrites(p, row),
           row.status = sub[Of(p)].status,
           row.current_period_end = sub[Of(p)].current_period_end,
           \/ Finish(p)
           \/ \E st \in Steps : /\ Goto(p, st) /\ st # "recovered"
                                /\ p = Worker /\ st \in ExpirationSteps
                                        => task[p].step \in ExpirationSteps
    PROVE  ShapeMoves
<1>1. /\ sub' = [sub EXCEPT ![Of(p)] = row]
      /\ UNCHANGED <<now, rule, pending, charges, cancelled, failures, crashes>>
  BY DEF Rewrites
<1>2. sub' \in [Subs -> SubscriptionRow] /\ \A s \in Subs : RowMoves(s)
  BY <1>1, WriteKeeps
<1>3. TablesOK' /\ now' = now /\ TypeOK
  BY <1>1, <1>2 DEF TablesOK, TypeOK, Shape
<1>4. CASE Finish(p)
  BY <1>2, <1>3, <1>4, FinishEnds, EndsShape DEF ShapeMoves
<1>5. ASSUME NEW st \in Steps, Goto(p, st), st # "recovered",
             p = Worker /\ st \in ExpirationSteps => task[p].step \in ExpirationSteps
      PROVE  ShapeMoves
  BY <1>2, <1>3, <1>5, GotoOnward, OnwardShape DEF ShapeMoves
<1> QED
  BY <1>4, <1>5

\* A process that calls the provider, or nobody, and ends or goes on.
LEMMA CallShape ==
    ASSUME Shape, NEW p \in Processes, ~Idle(p),
           Suspends(p) \/ Resumes(p) \/ Asks \/ Keeps,
           \/ Ends(p)
           \/ \E st \in Steps : /\ Onward(p, st) /\ st # "recovered"
                                /\ p = Worker /\ st \in ExpirationSteps
                                        => task[p].step \in ExpirationSteps
    PROVE  ShapeMoves
<1>1. TypeOK
  BY DEF Shape
<1>2. TablesOK' /\ now' = now /\ sub' = sub
  <2>1. CASE Keeps
    BY <1>1, <2>1 DEF Keeps, TablesOK, TypeOK
  <2>2. CASE Suspends(p) \/ Resumes(p) \/ Asks
    BY <1>1, <2>2, CallEffect DEF TablesOK, TypeOK
  <2> QED
    BY <2>1, <2>2
<1>3. CASE Ends(p)
  BY <1>2, <1>3, EndsShape, SameKeeps DEF ShapeMoves
<1>4. ASSUME NEW st \in Steps, Onward(p, st), st # "recovered",
             p = Worker /\ st \in ExpirationSteps => task[p].step \in ExpirationSteps
      PROVE  ShapeMoves
  BY <1>2, <1>4, OnwardShape, SameKeeps DEF ShapeMoves
<1> QED
  BY <1>3, <1>4

\* The STATUS check and its alert, of a request and of the worker's audit.
LEMMA VerificationShape ==
    ASSUME Shape, NEW p \in Processes, Verification(p)
    PROVE  ShapeMoves
<1> TypeOK
  BY DEF Shape
<1> /\ {"verify", "verified", "alert"} \subseteq Steps \ {"idle", "recovered"}
    /\ {"verify", "verified", "alert"} \cap ExpirationSteps = {}
  BY DEF Steps, ExpirationSteps
<1>1. CASE CallVerify(p)
  <2>1. ~Idle(p) /\ rule[Of(p)] \in RuleStatus
    BY <1>1, BusyRow DEF CallVerify
  <2>2. Asks /\ \E a \in RecurringStatus : Answered(p, "verified", a)
    BY <1>1, <2>1 DEF CallVerify, Asks, RecurringStatus, RuleStatus
  <2>3. Onward(p, "verified")
    BY <2>2, AnsweredOnward
  <2> QED
    BY <2>1, <2>2, <2>3, CallShape
<1>2. CASE CommitVerify(p)
  <2>1. /\ ~Idle(p) /\ Of(p) \in Subs /\ sub[Of(p)] \in SubscriptionRow
        /\ task[p].answer \in RecurringStatus
    BY <1>2, BusyRow DEF CommitVerify, TypeOK, Task
  <2>2. /\ Rewrites(p, RecordVerified(sub[Of(p)], task[p].answer))
        /\ Finish(p) \/ Goto(p, "alert")
    BY <1>2 DEF CommitVerify
  <2> QED
    BY <2>1, <2>2, RowKept, RewriteShape
<1>3. CASE RaiseAlert(p)
  <2> DEFINE due == /\ sub[Of(p)].provider_recurring_status = task[p].answer
                    /\ ~sub[Of(p)].provider_recurring_alerted_at
  <2>1. ~Idle(p) /\ Of(p) \in Subs /\ sub[Of(p)] \in SubscriptionRow
    BY <1>3, BusyRow DEF RaiseAlert
  <2>2. /\ Rewrites(p, [sub[Of(p)] EXCEPT !.provider_recurring_alerted_at = @ \/ due])
        /\ Finish(p)
    BY <1>3 DEF RaiseAlert
  <2>3. due \in BOOLEAN /\ "pending" \in RecurringStatus
    BY DEF RecurringStatus
  <2> HIDE DEF due
  <2> QED
    BY <2>1, <2>2, <2>3, RowKept, RewriteShape
<1> QED
  BY <1>1, <1>2, <1>3 DEF Verification

\* The worker's expiration of a subscription that was due when it began.
LEMMA ExpirationShape ==
    ASSUME Shape, Expiration
    PROVE  ShapeMoves
<1> Worker \in Processes /\ TypeOK
  BY DEF Processes, Shape
<1> ExpirationSteps \subseteq Steps \ {"idle", "recovered"}
  BY DEF Steps, ExpirationSteps
<1> /\ {"suspended", "check_failed"} \cup RuleStatus \subseteq RecurringStatus
    /\ "pending" \in RecurringStatus
  BY DEF RecurringStatus, RuleStatus
<1>1. ASSUME NEW st \in ExpirationSteps, At(Worker, st)
      PROVE  /\ ~Idle(Worker) /\ Of(Worker) \in Subs
             /\ sub[Of(Worker)] \in SubscriptionRow
             /\ rule[Of(Worker)] \in RuleStatus
             /\ task[Worker].step \in ExpirationSteps
             /\ task[Worker].answer \in RecurringStatus
  BY <1>1, BusyRow DEF At, TypeOK, Task
<1>2. CASE CallExpireStatus
  <2>1. "status" \in ExpirationSteps /\ At(Worker, "status")
    BY <1>2 DEF CallExpireStatus, ExpirationSteps
  <2>2. /\ Asks
        /\ \E st \in {"failed", "suspend", "shutdown"}, a \in RecurringStatus :
              Answered(Worker, st, a)
    BY <1>1, <1>2, <2>1 DEF CallExpireStatus, Asks
  <2>3. {"failed", "suspend", "shutdown"} \subseteq ExpirationSteps
    BY DEF ExpirationSteps
  <2>4. \E st \in ExpirationSteps : Onward(Worker, st)
    BY <2>2, <2>3, AnsweredOnward
  <2> QED
    BY <1>1, <2>1, <2>2, <2>4, CallShape
<1>3. CASE CallExpireSuspend
  <2>1. "suspend" \in ExpirationSteps /\ At(Worker, "suspend")
    BY <1>3 DEF CallExpireSuspend, ExpirationSteps
  <2>2. /\ Suspends(Worker)
        /\ \/ Goto(Worker, "failed")
           \/ task' = [task EXCEPT ![Worker] =
                  [@ EXCEPT !.step = "shutdown", !.issued = TRUE, !.answer = "suspended"]]
    BY <1>3 DEF CallExpireSuspend, Suspends
  <2>3. {"failed", "shutdown"} \subseteq ExpirationSteps
    BY DEF ExpirationSteps
  <2>4. \E st \in ExpirationSteps : Onward(Worker, st)
    BY <2>2, <2>3, GotoOnward, IssuedOnward
  <2> QED
    BY <1>1, <2>1, <2>2, <2>4, CallShape
<1>4. CASE CommitShutdown
  <2>1. /\ {"shutdown", "revoke"} \subseteq ExpirationSteps /\ At(Worker, "shutdown")
        /\ Rewrites(Worker, RecordShutdown(sub[Of(Worker)], task[Worker].answer))
        /\ Goto(Worker, "revoke")
    BY <1>4 DEF CommitShutdown, ExpirationSteps
  <2> QED
    BY <1>1, <2>1, RowKept, RewriteShape
<1>5. CASE OvertakenShutdown
  <2>1. /\ {"shutdown", "resume"} \subseteq ExpirationSteps /\ At(Worker, "shutdown")
        /\ Keeps
        /\ Goto(Worker, "resume") \/ Finish(Worker)
    BY <1>5 DEF OvertakenShutdown, ExpirationSteps
  <2>2. Ends(Worker) \/ Onward(Worker, "resume")
    BY <2>1, FinishEnds, GotoOnward
  <2> QED
    BY <1>1, <2>1, <2>2, CallShape
<1>6. CASE CallExpireResume
  <2>1. /\ {"resume", "resumed", "failed"} \subseteq ExpirationSteps /\ At(Worker, "resume")
        /\ Resumes(Worker)
        /\ Goto(Worker, "resumed") \/ Answered(Worker, "failed", "suspended")
    BY <1>6 DEF CallExpireResume, ExpirationSteps, Resumes
  <2>2. \E st \in ExpirationSteps : Onward(Worker, st)
    BY <2>1, GotoOnward, AnsweredOnward
  <2> QED
    BY <1>1, <2>1, <2>2, CallShape
<1>7. CASE CommitResumed
  <2>1. /\ "resumed" \in ExpirationSteps /\ At(Worker, "resumed")
        /\ Rewrites(Worker, RecordResumed(sub[Of(Worker)])) /\ Finish(Worker)
    BY <1>7 DEF CommitResumed, ExpirationSteps
  <2> QED
    BY <1>1, <2>1, RowKept, RewriteShape
<1>8. CASE CommitShutdownFailure
  <2>1. /\ "failed" \in ExpirationSteps /\ At(Worker, "failed")
        /\ Rewrites(Worker, RecordShutdownFailure(sub[Of(Worker)], task[Worker].answer))
        /\ Finish(Worker)
    BY <1>8 DEF CommitShutdownFailure, ExpirationSteps
  <2> QED
    BY <1>1, <2>1, RowKept, RewriteShape
<1>9. CASE Revoke
  <2>1. "revoke" \in ExpirationSteps /\ At(Worker, "revoke") /\ Finish(Worker)
    BY <1>9 DEF Revoke, ExpirationSteps
  <2>2. PICK b \in BOOLEAN :
            Rewrites(Worker, IF StillDue THEN ExpireSubscription(sub[Of(Worker)], b)
                             ELSE sub[Of(Worker)])
    BY <1>9 DEF Revoke
  <2>3. CASE ~StillDue
    BY <1>1, <2>1, <2>2, <2>3, RewriteShape
  <2>4. CASE StillDue
    <3> DEFINE row == ExpireSubscription(sub[Of(Worker)], b)
    <3>1. /\ row \in SubscriptionRow /\ row.status = "expired"
          /\ row.current_period_end = sub[Of(Worker)].current_period_end
      BY <1>1, <2>1, RowExpired
    <3>2. /\ sub' = [sub EXCEPT ![Of(Worker)] = row]
          /\ UNCHANGED <<now, rule, pending, charges, cancelled, failures, crashes>>
      BY <2>2, <2>4 DEF Rewrites
    <3> HIDE DEF row
    <3>3. TablesOK' /\ now' = now
      BY <3>1, <3>2 DEF TablesOK, TypeOK
    <3>4. Ends(Worker)
      BY <2>1, FinishEnds
    <3>5. ASSUME NEW s \in Subs PROVE RowMoves(s)
      <4>1. CASE s = Of(Worker)
        BY <2>1, <2>4, <3>1, <3>2, <3>4, <4>1 DEF RowMoves, Expires, Ends, TypeOK
      <4>2. CASE s # Of(Worker)
        BY <3>2, <4>2 DEF RowMoves, KeepsEntitlement, TypeOK
      <4> QED
        BY <4>1, <4>2
    <3> QED
      BY <3>3, <3>4, <3>5, EndsShape DEF ShapeMoves
  <2> QED
    BY <2>3, <2>4
<1>10. CASE RevokeFails
  <2>1. /\ Finish(Worker) /\ failures' = failures + 1
        /\ UNCHANGED <<now, sub, rule, pending, charges, cancelled, crashes>>
    BY <1>10 DEF RevokeFails, Fails
  <2>2. TablesOK' /\ now' = now /\ sub' = sub
    BY <2>1 DEF TablesOK, TypeOK
  <2> QED
    BY <2>1, <2>2, FinishEnds, EndsShape, SameKeeps DEF ShapeMoves
<1> QED
  BY <1>2, <1>3, <1>4, <1>5, <1>6, <1>7, <1>8, <1>9, <1>10 DEF Expiration

\* What the worker begins, and its alert of a failed shutdown.
LEMMA WorkerBeginsShape ==
    ASSUME Shape, NEW s \in Subs,
           BeginAudit(s) \/ BeginExpire(s) \/ AlertShutdownFailure(s)
    PROVE  ShapeMoves
<1> Worker \in Processes /\ TypeOK
  BY DEF Processes, Shape
<1>1. CASE BeginAudit(s)
  <2>1. Start(Worker, s, "verify") /\ Keeps
    BY <1>1 DEF BeginAudit
  <2>2. "verify" \in Steps \ (ExpirationSteps \cup {"idle", "recovered"})
    BY DEF Steps, ExpirationSteps
  <2>3. TablesOK' /\ now' = now /\ sub' = sub
    BY <2>1 DEF Keeps, TablesOK, TypeOK
  <2> QED
    BY <2>1, <2>2, <2>3, StartBegins, BeginsShape, SameKeeps DEF ShapeMoves
<1>2. CASE BeginExpire(s)
  <2> DEFINE t == [IdleTask EXCEPT !.step = "status", !.sub = s,
                                   !.cutoff = now - Grace, !.began = now]
  <2>1. now - Grace \in Nat /\ (now - Grace) + Grace <= now /\ now \in Nat
    BY <1>2, RecurringAssumption DEF BeginExpire, TypeOK
  <2>2. /\ t \in Task
        /\ t.step = "status" /\ t.sub = s /\ t.cutoff = now - Grace /\ t.began = now
    BY <2>1 DEF IdleTask, Task, Steps, RecurringStatus
  <2>3. task' = [task EXCEPT ![Worker] = t] /\ Keeps
    BY <1>2 DEF BeginExpire
  <2> HIDE DEF t
  <2>4. TypeOK' /\ sub' = sub /\ now' = now
    BY <2>2, <2>3 DEF TypeOK, Keeps
  <2>5. TaskSound(Worker)'
    BY <2>1, <2>2, <2>3, <2>4 DEF TaskSound, TypeOK, At, Of
  <2>6. ASSUME NEW q \in Processes \ {Worker} PROVE TaskSound(q)'
    BY <2>3, <2>4, <2>6 DEF Shape, TypeOK, TaskSound, Idle, At, Of
  <2> QED
    BY <2>4, <2>5, <2>6, SameKeeps DEF ShapeMoves, Shape
<1>3. CASE AlertShutdownFailure(s)
  <2> DEFINE row == [sub[s] EXCEPT !.shutdown_alerted_at = TRUE]
  <2>1. sub[s] \in SubscriptionRow /\ "pending" \in RecurringStatus
    BY DEF TypeOK, RecurringStatus
  <2>2. /\ row \in SubscriptionRow /\ row.status = sub[s].status
        /\ row.current_period_end = sub[s].current_period_end
    BY <2>1, RowKept
  <2>3. /\ sub' = [sub EXCEPT ![s] = row]
        /\ UNCHANGED <<now, rule, pending, charges, task, cancelled, failures, crashes>>
    BY <1>3 DEF AlertShutdownFailure
  <2> HIDE DEF row
  <2>4. sub' \in [Subs -> SubscriptionRow] /\ \A x \in Subs : RowMoves(x)
    BY <2>2, <2>3, WriteKeeps
  <2>5. TypeOK' /\ \A q \in Processes : TaskSound(q)'
    BY <2>3, <2>4 DEF TypeOK, Shape, TaskSound, Idle, At, Of
  <2> QED
    BY <2>4, <2>5 DEF ShapeMoves, Shape
<1> QED
  BY <1>1, <1>2, <1>3

\* The member's cancellation.
LEMMA CancellationShape ==
    ASSUME Shape, NEW m \in Members,
           Cancellation(m) \/ \E s \in Subs : BeginCancel(m, s)
    PROVE  ShapeMoves
<1> m \in Processes /\ m # Worker /\ TypeOK
  BY RecurringAssumption DEF Processes, Shape
<1> {"stop", "cancel"} \subseteq Steps \ (ExpirationSteps \cup {"idle", "recovered"})
  BY DEF Steps, ExpirationSteps
<1>1. ASSUME NEW s \in Subs, BeginCancel(m, s)
      PROVE  ShapeMoves
  <2>1. Start(m, s, "stop") /\ Keeps
    BY <1>1 DEF BeginCancel
  <2>2. TablesOK' /\ now' = now /\ sub' = sub
    BY <2>1 DEF Keeps, TablesOK, TypeOK
  <2> QED
    BY <2>1, <2>2, StartBegins, BeginsShape, SameKeeps DEF ShapeMoves
<1>2. CASE CallCancelSuspend(m)
  <2>1. /\ ~Idle(m) /\ Suspends(m)
        /\ Goto(m, "cancel") \/ Finish(m)
    BY <1>2, BusyRow DEF CallCancelSuspend, Suspends
  <2>2. Ends(m) \/ Onward(m, "cancel")
    BY <2>1, GotoOnward, FinishEnds
  <2> QED
    BY <2>1, <2>2, CallShape
<1>3. CASE CommitCancel(m)
  <2>1. /\ Finish(m)
        /\ UNCHANGED <<now, rule, pending, charges, failures, crashes>>
    BY <1>3 DEF CommitCancel
  <2>2. cancelled' \in [Subs -> {"no", "clean", "raced", "lost"}]
    BY <1>3 DEF CommitCancel, CancelledAfter, TypeOK
  <2>3. CASE sub' = sub
    <3>1. TablesOK' /\ now' = now
      BY <2>1, <2>2, <2>3 DEF TablesOK, TypeOK
    <3> QED
      BY <2>1, <2>3, <3>1, FinishEnds, EndsShape, SameKeeps DEF ShapeMoves
  <2>4. ASSUME NEW s \in Subs, sub' = [sub EXCEPT ![s] = CancelAtPeriodEnd(@, "suspended")]
        PROVE  ShapeMoves
    <3> DEFINE row == CancelAtPeriodEnd(sub[s], "suspended")
    <3>1. sub[s] \in SubscriptionRow /\ "suspended" \in RecurringStatus
      BY DEF TypeOK, RecurringStatus
    <3>2. /\ row \in SubscriptionRow /\ row.status = sub[s].status
          /\ row.current_period_end = sub[s].current_period_end
      BY <3>1, RowKept
    <3>3. sub' = [sub EXCEPT ![s] = row]
      BY <2>4
    <3> HIDE DEF row
    <3>4. sub' \in [Subs -> SubscriptionRow] /\ \A x \in Subs : RowMoves(x)
      BY <3>2, <3>3, WriteKeeps
    <3>5. TablesOK' /\ now' = now
      BY <2>1, <2>2, <3>4 DEF TablesOK, TypeOK
    <3> QED
      BY <2>1, <3>4, <3>5, FinishEnds, EndsShape DEF ShapeMoves
  <2> QED
    BY <1>3, <2>3, <2>4 DEF CommitCancel, Current
<1> QED
  BY <1>1, <1>2, <1>3 DEF Cancellation

\* The operator's repair.
LEMMA RepairShape ==
    ASSUME Shape, NEW o \in Operators, Repair(o) \/ \E s \in Subs : BeginRepair(o, s)
    PROVE  ShapeMoves
<1> o \in Processes /\ o # Worker /\ TypeOK
  BY RecurringAssumption DEF Processes, Shape
<1> /\ RepairSteps \subseteq Steps \ {"idle", "recovered"}
    /\ RepairSteps \cap ExpirationSteps = {}
    /\ {"check", "recheck", "repair", "repaired", "undo"} = RepairSteps
  BY DEF Steps, ExpirationSteps, RepairSteps
<1>1. ASSUME NEW s \in Subs, BeginRepair(o, s)
      PROVE  ShapeMoves
  <2>1. Start(o, s, "check") /\ Keeps
    BY <1>1 DEF BeginRepair
  <2>2. TablesOK' /\ now' = now /\ sub' = sub
    BY <2>1 DEF Keeps, TablesOK, TypeOK
  <2> QED
    BY <2>1, <2>2, StartBegins, BeginsShape, SameKeeps DEF ShapeMoves
<1>2. ASSUME NEW st \in RepairSteps, At(o, st)
      PROVE  /\ ~Idle(o) /\ Of(o) \in Subs /\ sub[Of(o)] \in SubscriptionRow
             /\ rule[Of(o)] \in RecurringStatus /\ task[o].answer \in RecurringStatus
  BY <1>2, BusyRow DEF RuleStatus, RecurringStatus, TypeOK, Task
<1>3. CASE CallCheck(o)
  <2>1. ~Idle(o) /\ rule[Of(o)] \in RecurringStatus
    BY <1>2, <1>3 DEF CallCheck
  <2>2. /\ Asks
        /\ \/ Finish(o)
           \/ \E st \in {"recheck", "repaired"} : Answered(o, st, rule[Of(o)])
    BY <1>3 DEF CallCheck, Asks
  <2>3. Ends(o) \/ \E st \in RepairSteps : Onward(o, st)
    BY <2>1, <2>2, FinishEnds, AnsweredOnward
  <2> QED
    BY <2>1, <2>2, <2>3, CallShape
<1>4. CASE Recheck(o)
  <2>1. ~Idle(o) /\ Keeps /\ (Goto(o, "repair") \/ Finish(o))
    BY <1>2, <1>4 DEF Recheck
  <2>2. Ends(o) \/ Onward(o, "repair")
    BY <2>1, FinishEnds, GotoOnward
  <2> QED
    BY <2>1, <2>2, CallShape
<1>5. CASE CallRepair(o)
  <2>1. /\ ~Idle(o) /\ Suspends(o)
        /\ \/ Finish(o)
           \/ task' = [task EXCEPT ![o] =
                  [@ EXCEPT !.step = "repaired", !.issued = TRUE, !.answer = "suspended"]]
    BY <1>2, <1>5 DEF CallRepair, Suspends
  <2>2. Ends(o) \/ Onward(o, "repaired")
    BY <2>1, FinishEnds, IssuedOnward
  <2> QED
    BY <2>1, <2>2, CallShape
<1>6. CASE CommitRepair(o)
  <2>1. /\ ~Idle(o) /\ Of(o) \in Subs /\ sub[Of(o)] \in SubscriptionRow
        /\ task[o].answer \in RecurringStatus
    BY <1>2, <1>6 DEF CommitRepair
  <2>2. CASE /\ Rewrites(o, RecordShutdown(sub[Of(o)], task[o].answer))
             /\ Finish(o)
    BY <2>1, <2>2, RowKept, RewriteShape
  <2>3. CASE Keeps /\ (Goto(o, "undo") \/ Finish(o))
    <3>1. Ends(o) \/ Onward(o, "undo")
      BY <2>3, FinishEnds, GotoOnward
    <3> QED
      BY <2>1, <2>3, <3>1, CallShape
  <2> QED
    BY <1>6, <2>2, <2>3 DEF CommitRepair
<1>7. CASE CallUndo(o)
  <2>1. ~Idle(o) /\ Resumes(o) /\ Finish(o)
    BY <1>2, <1>7 DEF CallUndo, Resumes
  <2> QED
    BY <2>1, FinishEnds, CallShape
<1> QED
  BY <1>1, <1>3, <1>4, <1>5, <1>6, <1>7 DEF Repair

\* The provider, the clock, and processes that die.
LEMMA EnvironmentShape ==
    ASSUME Shape,
           \/ \E s \in Subs : ProviderCharges(s) \/ ProviderMovesRule(s)
           \/ \E p \in Processes : Crash(p)
           \/ Tick
           \/ UNCHANGED vars
    PROVE  ShapeMoves
<1> TypeOK
  BY DEF Shape
<1>1. ASSUME sub' = sub, task' = task, now' = now, TablesOK'
      PROVE  ShapeMoves
  <2>1. TypeOK' /\ \A q \in Processes : TaskSound(q)'
    BY <1>1 DEF TypeOK, TablesOK, Shape, TaskSound, Idle, At, Of
  <2> QED
    BY <1>1, <2>1, SameKeeps DEF ShapeMoves, Shape
<1>2. ASSUME NEW s \in Subs, ProviderCharges(s)
      PROVE  ShapeMoves
  BY <1>1, <1>2 DEF ProviderCharges, TablesOK, TypeOK
<1>3. ASSUME NEW s \in Subs, ProviderMovesRule(s)
      PROVE  ShapeMoves
  BY <1>1, <1>3 DEF ProviderMovesRule, TablesOK, TypeOK, RuleStatus
<1>4. ASSUME NEW p \in Processes, Crash(p)
      PROVE  ShapeMoves
  <2>1. TablesOK' /\ now' = now /\ sub' = sub /\ Finish(p)
    BY <1>4 DEF Crash, TablesOK, TypeOK
  <2> QED
    BY <2>1, FinishEnds, EndsShape, SameKeeps DEF ShapeMoves
<1>5. CASE Tick
  <2>1. /\ now' = now + 1
        /\ UNCHANGED <<sub, rule, pending, charges, task, cancelled, failures, crashes>>
        /\ \A p \in Processes : ~Idle(p) => task[p].began = now
    BY <1>5 DEF Tick
  <2>2. TypeOK' /\ now \in Nat
    BY <2>1 DEF TypeOK
  <2>3. ASSUME NEW p \in Processes PROVE TaskSound(p)'
    <3>1. p = Worker /\ task[p].step \in ExpirationSteps => task[p].cutoff + Grace <= now + 1
      BY <2>2, RecurringAssumption DEF Shape, TaskSound, TypeOK, Task
    <3> QED
      BY <2>1, <2>2, <3>1 DEF Shape, TaskSound, Idle, At, Of
  <2> QED
    BY <2>1, <2>2, <2>3, SameKeeps DEF ShapeMoves, Shape
<1>6. CASE UNCHANGED vars
  BY <1>1, <1>6 DEF vars, TablesOK, TypeOK
<1> QED
  BY <1>2, <1>3, <1>4, <1>5, <1>6

\* Every step keeps the shape, and moves a row in one of three ways.
LEMMA ShapeStep == Shape /\ [Next]_vars => ShapeMoves
<1> SUFFICES ASSUME Shape, [Next]_vars PROVE ShapeMoves
  OBVIOUS
<1>1. CASE \E h \in Handlers : Webhook(h)
  BY <1>1, WebhookShape
<1>2. CASE \E p \in Handlers \cup {Worker} : Verification(p)
  BY <1>2, VerificationShape DEF Processes
<1>3. CASE \E s \in Subs : BeginAudit(s) \/ BeginExpire(s) \/ AlertShutdownFailure(s)
  BY <1>3, WorkerBeginsShape
<1>4. CASE Expiration
  BY <1>4, ExpirationShape
<1>5. CASE \E m \in Members : Cancellation(m) \/ \E s \in Subs : BeginCancel(m, s)
  BY <1>5, CancellationShape
<1>6. CASE \E o \in Operators : Repair(o) \/ \E s \in Subs : BeginRepair(o, s)
  BY <1>6, RepairShape
<1>7. CASE \/ \E s \in Subs : ProviderCharges(s) \/ ProviderMovesRule(s)
           \/ \E p \in Processes : Crash(p)
           \/ Tick
           \/ UNCHANGED vars
  BY <1>7, EnvironmentShape
<1> QED
  BY <1>1, <1>2, <1>3, <1>4, <1>5, <1>6, <1>7 DEF Next

\* The state of Recurring has its shape from the beginning.
LEMMA ShapeInit == Init => Shape
<1> SUFFICES ASSUME Init PROVE Shape
  OBVIOUS
<1> USE RecurringAssumption
<1>1. PICK first \in [Subs -> FirstPeriods], old \in SUBSET Legacy :
          sub = [s \in Subs |->
                    IF s \in old
                    THEN ExpireSubscription(NewSubscription(0, 0, "active"), TRUE)
                    ELSE NewSubscription(0, first[s], "pending")]
  BY DEF Init
<1>2. ASSUME NEW m \in Nat, NEW r \in {"active", "pending"}
      PROVE  NewSubscription(0, m, r) \in SubscriptionRow
  BY DEF NewSubscription, SubscriptionRow, SubscriptionStatus, RecurringStatus
<1>3. ExpireSubscription(NewSubscription(0, 0, "active"), TRUE) \in SubscriptionRow
  BY <1>2, RowExpired
<1>4. sub \in [Subs -> SubscriptionRow]
  <2>1. ASSUME NEW s \in Subs PROVE first[s] \in Nat
    OBVIOUS
  <2> QED
    BY <1>1, <1>2, <1>3, <2>1
<1>5. IdleTask \in Task /\ IdleTask.step = "idle"
  BY DEF IdleTask, Task, Steps, RecurringStatus
<1>6. TypeOK
  BY <1>4, <1>5 DEF Init, TypeOK, RuleStatus
<1>7. ASSUME NEW p \in Processes PROVE TaskSound(p)
  BY <1>5 DEF Init, TaskSound, Idle, At, ExpirationSteps
<1> QED
  BY <1>6, <1>7 DEF Shape

\* The first part holds in every reachable state.
LEMMA ShapeCorrect == Spec => []Shape
  BY ShapeInit, ShapeStep, PTL DEF Spec, ShapeMoves

-----------------------------------------------------------------------------
(***************************************************************************)
(* Types, and the paid period                                              *)
(***************************************************************************)
\* Every reachable state has the shape of its tables, rules and tasks.
THEOREM TypeCorrect == Spec => []TypeOK
<1>1. Shape => TypeOK
  BY DEF Shape
<1> QED
  BY <1>1, ShapeCorrect, PTL

\* Whatever overtakes an expiration that has begun (a renewal, a repair, a failed
\* call, a lost process), the worker removes access only from a member whose paid
\* period and grace are over at that moment.
THEOREM AccessLastsThePaidPeriod == Spec => PaidMembersKeepAccess
<1> DEFINE Step == \A s \in Subs :
              sub[s].status \in Entitled /\ sub'[s].status = "expired" =>
                  sub[s].current_period_end + Grace <= now
<1>1. Shape /\ [Next]_vars => Step
  <2> SUFFICES ASSUME Shape, [Next]_vars, NEW s \in Subs,
                      sub[s].status \in Entitled, sub'[s].status = "expired"
               PROVE  sub[s].current_period_end + Grace <= now
    OBVIOUS
  <2>1. Expires(s)
    BY ShapeStep DEF ShapeMoves, RowMoves, KeepsEntitlement, Renews, Entitled
  <2>2. /\ task[Worker].cutoff + Grace <= now
        /\ sub[s].current_period_end <= task[Worker].cutoff
    BY <2>1 DEF Expires, Shape, TaskSound, At, ExpirationSteps, StillDue,
                IsDueForExpiration, Processes
  <2> QED
    BY <2>2, RecurringAssumption
       DEF Shape, TypeOK, Task, SubscriptionRow, Processes
<1>2. Shape /\ [Next]_vars => [Step]_vars
  BY <1>1
<1> HIDE DEF Step
<1>3. Spec => [][Step]_vars
  BY <1>2, ShapeCorrect, PTL DEF Spec
<1> QED
  BY <1>3 DEF Step, PaidMembersKeepAccess

-----------------------------------------------------------------------------
(***************************************************************************)
(* No orphaned rule                                                        *)
(***************************************************************************)
\* The invariant of the second part.
Rules == Shape /\ RuleInv /\ NoOrphanedRule

\* A rule becomes chargeable only by a RESUME of p for a subscription that is not
\* expired; unless p is the worker, it cannot be due either.
RuleMoves(p, s) ==
    rule'[s] \in Chargeable =>
        \/ rule[s] \in Chargeable
        \/ /\ sub[s].status # "expired" /\ sub' = sub
           /\ p # Worker => sub[s].current_period_end > now

\* Whoever marks an expired row as stopped leaves a rule that is.
MarkMoves(s) ==
    sub[s].status = "expired" /\ sub'[s].shutdown_at =>
        sub[s].shutdown_at \/ rule'[s] \notin Chargeable

\* The steps of a task about which RuleInv says something.
WatchedSteps == {"recover", "recovered"} \cup RepairSteps \cup ExpirationSteps

\* A task that is at no such step is sound.
LEMMA UnwatchedSound ==
    ASSUME NEW p \in Processes, task'[p].step \notin WatchedSteps
    PROVE  RuleSound(p)'
  BY DEF RuleSound, WatchedSteps, RepairSteps, ExpirationSteps, At

\* A process that does not move stays sound, whatever another one does.
LEMMA OthersKeepRules ==
    ASSUME Rules, Shape', NEW p \in Processes, NEW q \in Processes,
           task'[q] = task[q], now' = now,
           q = Worker => \/ p # Worker
                         \/ \A s \in Subs : rule'[s] \in Chargeable => rule[s] \in Chargeable,
           \A s \in Subs : RowMoves(s) /\ RuleMoves(p, s)
    PROVE  RuleSound(q)'
<1> USE RecurringAssumption
<1>1. CASE Idle(q)
  BY <1>1, UnwatchedSound DEF Idle, WatchedSteps, RepairSteps, ExpirationSteps
<1>2. CASE ~Idle(q)
  <2> DEFINE s == Of(q)
  <2>1. /\ s \in Subs /\ Of(q)' = s
        /\ task[q].began \in Nat /\ task[q].began \in {now, now - 1} /\ now \in Nat
        /\ task[q].cutoff \in Nat
        /\ q = Worker /\ task[q].step \in ExpirationSteps => task[q].cutoff + Grace <= now
    BY <1>2 DEF Rules, Shape, TypeOK, Task, TaskSound, Of
  <2>2. sub[s].current_period_end \in Nat /\ sub'[s].current_period_end \in Nat
    BY <2>1 DEF Rules, Shape, TypeOK, SubscriptionRow
  <2>3. RuleSound(q) /\ RowMoves(s) /\ RuleMoves(p, s)
    BY <2>1 DEF Rules, RuleInv
  <2> HIDE DEF s
  <2>4. CASE KeepsEntitlement(s)
    <3>1. Renewed(q) => Renewed(q)'
      BY <2>1, <2>4 DEF Renewed, KeepsEntitlement, s
    <3>2. sub[s].status = "expired" /\ rule'[s] \in Chargeable => rule[s] \in Chargeable
      BY <2>3 DEF RuleMoves
    <3>3. ASSUME q = Worker, task[q].step \in ExpirationSteps, StillDue'
          PROVE  /\ StillDue
                 /\ rule'[s] \in Chargeable => rule[s] \in Chargeable
      BY <2>1, <2>2, <2>3, <2>4, <3>3
         DEF StillDue, IsDueForExpiration, KeepsEntitlement, RuleMoves, s
    <3> QED
      BY <2>1, <2>3, <2>4, <3>1, <3>2, <3>3
         DEF RuleSound, KeepsEntitlement, At, ExpirationSteps, s
  <2>5. CASE Renews(s)
    <3>1. /\ sub'[s].status = "active"
          /\ sub'[s].current_period_end >= now + BillingMonths
      BY <2>5 DEF Renews
    <3>2. Renewed(q)'
      BY <2>1, <2>2, <3>1 DEF Renewed, s
    <3>3. q = Worker /\ task[q].step \in ExpirationSteps => ~StillDue'
      BY <2>1, <2>2, <3>1 DEF StillDue, IsDueForExpiration, s
    <3> QED
      BY <2>1, <3>1, <3>2, <3>3 DEF RuleSound, At, ExpirationSteps, s
  <2>6. CASE Expires(s)
    <3>1. q # Worker /\ s = Of(Worker) /\ rule' = rule /\ sub'[s].status = "expired"
      BY <2>1, <2>6 DEF Expires, At
    <3>2. /\ task[Worker].cutoff + Grace <= now /\ task[Worker].cutoff \in Nat
          /\ sub[s].current_period_end <= task[Worker].cutoff
          /\ rule[s] \notin Chargeable
      BY <2>6 DEF Expires, Rules, RuleInv, RuleSound, Shape, TypeOK, Task, TaskSound, At,
                  ExpirationSteps, StillDue, IsDueForExpiration, Processes
    <3>3. ~Renewed(q)
      BY <2>1, <2>2, <3>2 DEF Renewed, s
    <3> QED
      BY <2>1, <2>3, <3>1, <3>2, <3>3 DEF RuleSound, At, s
  <2> QED
    BY <2>3, <2>4, <2>5, <2>6 DEF RowMoves
<1> QED
  BY <1>1, <1>2

\* A step that moves rows, rules and marks as described orphans no rule.
LEMMA NobodyOrphaned ==
    ASSUME Rules, NEW p \in Processes,
           \A s \in Subs : RowMoves(s) /\ RuleMoves(p, s) /\ MarkMoves(s)
    PROVE  NoOrphanedRule'
<1> SUFFICES ASSUME NEW s \in Subs, sub'[s].status = "expired",
                    sub'[s].current_period_end > 0 \/ sub'[s].shutdown_at
             PROVE  rule'[s] \notin Chargeable
  BY DEF NoOrphanedRule
<1>1. CASE KeepsEntitlement(s)
  BY <1>1 DEF KeepsEntitlement, RuleMoves, MarkMoves, Rules, NoOrphanedRule
<1>2. CASE Renews(s)
  BY <1>2 DEF Renews
<1>3. CASE Expires(s)
  <2>1. RuleSound(Worker)
    BY DEF Rules, RuleInv, Processes
  <2> QED
    BY <1>3, <2>1 DEF Expires, RuleSound, At
<1> QED
  BY <1>1, <1>2, <1>3 DEF RowMoves

\* One process moves, and leaves its own task sound.
LEMMA RulesKept ==
    ASSUME Rules, Shape', NEW p \in Processes, now' = now,
           \A q \in Processes \ {p} : task'[q] = task[q],
           \A s \in Subs : RowMoves(s) /\ RuleMoves(p, s) /\ MarkMoves(s),
           RuleSound(p)'
    PROVE  Rules'
<1>1. ASSUME NEW q \in Processes PROVE RuleSound(q)'
  BY OthersKeepRules
<1> QED
  BY <1>1, NobodyOrphaned DEF Rules, RuleInv, Shape

\* A step that calls STATUS or SUSPEND, or nobody.
LEMMA CallRules ==
    ASSUME Rules, Shape', NEW p \in Processes,
           Suspends(p) \/ Asks \/ Keeps,
           \A q \in Processes \ {p} : task'[q] = task[q],
           RuleSound(p)'
    PROVE  Rules'
<1>1. TypeOK /\ Shape
  BY DEF Rules, Shape
<1>2. /\ now' = now /\ sub' = sub
      /\ \A s \in Subs : rule'[s] \in Chargeable => rule[s] \in Chargeable
  <2>1. CASE Keeps
    BY <2>1 DEF Keeps
  <2>2. CASE Suspends(p) \/ Asks
    BY <1>1, <2>2, CallEffect
  <2> QED
    BY <2>1, <2>2
<1>3. \A s \in Subs : RowMoves(s) /\ RuleMoves(p, s) /\ MarkMoves(s)
  BY <1>1, <1>2, SameKeeps DEF RuleMoves, MarkMoves
<1> QED
  BY <1>2, <1>3, RulesKept

\* A RESUME for a subscription that is not expired and, unless the worker makes it,
\* not due either.
LEMMA ResumeRules ==
    ASSUME Rules, Shape', NEW p \in Processes, Resumes(p),
           sub[Of(p)].status # "expired",
           p # Worker => sub[Of(p)].current_period_end > now,
           \A q \in Processes \ {p} : task'[q] = task[q],
           RuleSound(p)'
    PROVE  Rules'
<1>1. TypeOK /\ Shape
  BY DEF Rules, Shape
<1>2. /\ now' = now /\ sub' = sub
      /\ \A s \in Subs \ {Of(p)} : rule'[s] = rule[s]
  BY <1>1, CallEffect
<1>3. \A s \in Subs : RowMoves(s) /\ RuleMoves(p, s) /\ MarkMoves(s)
  BY <1>1, <1>2, SameKeeps DEF RuleMoves, MarkMoves
<1> QED
  BY <1>2, <1>3, RulesKept

\* A step that writes rows and calls nobody.
LEMMA WriteRules ==
    ASSUME Rules, Shape', NEW p \in Processes,
           now' = now, rule' = rule,
           \A s \in Subs : RowMoves(s) /\ MarkMoves(s),
           \A q \in Processes \ {p} : task'[q] = task[q],
           RuleSound(p)'
    PROVE  Rules'
  BY RulesKept DEF RuleMoves

\* The marks, when one row is written.
LEMMA WriteMarks ==
    ASSUME Rules, NEW x, NEW row, sub' = [sub EXCEPT ![x] = row], rule' = rule,
           row.shutdown_at => \/ sub[x].shutdown_at
                              \/ sub[x].status # "expired"
                              \/ rule[x] \notin Chargeable
    PROVE  \A s \in Subs : MarkMoves(s)
  BY DEF MarkMoves, Rules, Shape, TypeOK

\* A task that changes, and the tasks that do not.
LEMMA OnlyMine ==
    ASSUME Shape, NEW p \in Processes, NEW t, task' = [task EXCEPT ![p] = t]
    PROVE  \A q \in Processes \ {p} : task'[q] = task[q]
  BY DEF Shape, TypeOK

\* A webhook request: the rule it resumes belongs to a row it has just renewed.
LEMMA WebhookRules ==
    ASSUME Mismatched = FALSE, Rules, ShapeMoves, NEW h \in Handlers, Webhook(h)
    PROVE  Rules'
<1> h \in Processes /\ h # Worker /\ TypeOK /\ Shape /\ Shape'
  BY RecurringAssumption DEF Processes, Rules, Shape, ShapeMoves
<1> {"process", "recover", "recovered", "verify"} \subseteq Steps
  BY DEF Steps
<1> {"idle", "process", "verify"} \cap WatchedSteps = {}
  BY DEF WatchedSteps, RepairSteps, ExpirationSteps
<1>1. ASSUME NEW s \in Subs, ReadContext(h, s)
      PROVE  Rules'
  <2>1. /\ Keeps /\ Shape'
        /\ \A q \in Processes \ {h} : task'[q] = task[q]
        /\ task'[h].step = "process"
    BY <1>1 DEF ReadContext, TypeOK, IdleTask
  <2> QED
    BY <2>1, UnwatchedSound, CallRules
<1>2. CASE ProcessApproved(h)
  <2>1. ~Idle(h) /\ Of(h) \in Subs /\ sub[Of(h)] \in SubscriptionRow
    BY <1>2, BusyRow DEF ProcessApproved
  <2> DEFINE row == ExtendSubscription(sub[Of(h)], BillingMonths, now)
  <2>2. /\ row.status = "active" /\ ~row.shutdown_at
        /\ row.current_period_end >= now + BillingMonths
        /\ row.current_period_end \in Nat
    <3>1. now \in Nat /\ BillingMonths \in Nat
      BY RecurringAssumption DEF TypeOK
    <3>2. /\ row \in SubscriptionRow /\ row.status = "active" /\ ~row.shutdown_at
          /\ row.current_period_end >= now + BillingMonths
      BY <2>1, <3>1, RowRenewed
    <3> HIDE DEF row
    <3> QED
      BY <3>2 DEF SubscriptionRow
  <2>3. /\ sub' = [sub EXCEPT ![Of(h)] = row] /\ Goto(h, AfterApproval(h))
        /\ UNCHANGED <<now, rule>>
    BY <1>2 DEF ProcessApproved
  <2> HIDE DEF row
  <2>4. AfterApproval(h) \in {"recover", "verify"}
    BY DEF AfterApproval
  <2>5. Onward(h, AfterApproval(h))
    BY <2>3, <2>4, GotoOnward
  <2>6. \A s \in Subs : RowMoves(s) /\ MarkMoves(s)
    BY <2>2, <2>3, WriteMarks DEF ShapeMoves
  <2>7. sub'[Of(h)] = row /\ Of(h)' = Of(h)
    BY <2>1, <2>3, <2>5 DEF TypeOK, Onward, Of
  <2>8. task[h].began \in {now, now - 1} /\ now \in Nat
    BY <2>1 DEF Shape, TaskSound, TypeOK
  <2>9. Renewed(h)'
    BY <2>2, <2>5, <2>7, <2>8, RecurringAssumption DEF Renewed, Onward
  <2>10. RuleSound(h)'
    BY <2>4, <2>5, <2>9 DEF RuleSound, Onward, At, RepairSteps
  <2> QED
    BY <2>3, <2>5, <2>6, <2>10, WriteRules DEF Onward, OthersStay
<1>3. CASE ProcessMismatched(h)
  BY <1>3 DEF ProcessMismatched
<1>4. CASE AlreadyProcessed(h)
  <2>1. Ends(h) /\ Keeps
    BY <1>4, FinishEnds DEF AlreadyProcessed
  <2> QED
    BY <2>1, UnwatchedSound, CallRules DEF Ends, OthersStay
<1>5. CASE CallRecover(h)
  <2>1. /\ ~Idle(h) /\ Of(h) \in Subs /\ At(h, "recover")
    BY <1>5, BusyRow DEF CallRecover
  <2>2. /\ Suspends(h) \/ Resumes(h)
        /\ \E a \in {"suspended", "active", "check_failed"} : Answered(h, "recovered", a)
    BY <1>5 DEF CallRecover, Suspends, Resumes
  <2>3. Onward(h, "recovered")
    BY <2>2, AnsweredOnward DEF RecurringStatus
  <2>4. Renewed(h) /\ sub' = sub
    BY <2>1, <2>2, CallEffect DEF Rules, RuleInv, RuleSound, At
  <2>5. /\ task[h].began \in {now, now - 1} /\ now \in Nat
        /\ sub[Of(h)].current_period_end \in Nat
    BY <2>1 DEF Shape, TaskSound, TypeOK, SubscriptionRow
  <2>6. sub[Of(h)].status # "expired" /\ sub[Of(h)].current_period_end > now
    BY <2>4, <2>5 DEF Renewed
  <2>7. RuleSound(h)'
    BY <2>3, <2>4 DEF RuleSound, Onward, Renewed, At, Of, RepairSteps
  <2> QED
    BY <2>2, <2>3, <2>6, <2>7, CallRules, ResumeRules DEF Onward, OthersStay
<1>6. CASE CommitRecover(h)
  <2> DEFINE row == RecoveredRow(sub[Of(h)], task[h].answer)
  <2>1. /\ sub' = [sub EXCEPT ![Of(h)] = row] /\ Goto(h, "verify")
        /\ UNCHANGED <<now, rule>>
    BY <1>6 DEF CommitRecover, Rewrites
  <2> HIDE DEF row
  <2>2. sub[Of(h)].status # "expired"
    BY <1>6 DEF CommitRecover, Rules, RuleInv, RuleSound, Renewed, At
  <2>3. \A s \in Subs : RowMoves(s) /\ MarkMoves(s)
    BY <2>1, <2>2, WriteMarks DEF ShapeMoves
  <2>4. Onward(h, "verify")
    BY <2>1, GotoOnward
  <2> QED
    BY <2>1, <2>3, <2>4, UnwatchedSound, WriteRules DEF Onward, OthersStay
<1> QED
  BY <1>1, <1>2, <1>3, <1>4, <1>5, <1>6 DEF Webhook

\* The STATUS check and its alert mark no row as stopped.
LEMMA VerificationRules ==
    ASSUME Rules, ShapeMoves, NEW p \in Handlers \cup {Worker}, Verification(p)
    PROVE  Rules'
<1> p \in Processes /\ TypeOK /\ Shape /\ Shape'
  BY DEF Processes, Rules, Shape, ShapeMoves
<1> {"verified", "alert"} \subseteq Steps
  BY DEF Steps
<1> {"idle", "verified", "alert"} \cap WatchedSteps = {}
  BY DEF WatchedSteps, RepairSteps, ExpirationSteps
<1>1. CASE CallVerify(p)
  <2>1. rule[Of(p)] \in RuleStatus
    BY <1>1, BusyRow DEF CallVerify, Steps
  <2>2. Asks /\ \E a \in RecurringStatus : Answered(p, "verified", a)
    BY <1>1, <2>1 DEF CallVerify, Asks, RecurringStatus, RuleStatus
  <2>3. Onward(p, "verified")
    BY <2>2, AnsweredOnward
  <2> QED
    BY <2>2, <2>3, UnwatchedSound, CallRules DEF Onward, OthersStay
<1>2. ASSUME NEW row, Rewrites(p, row), row.shutdown_at = sub[Of(p)].shutdown_at,
             Finish(p) \/ Goto(p, "alert")
      PROVE  Rules'
  <2>1. sub' = [sub EXCEPT ![Of(p)] = row] /\ UNCHANGED <<now, rule>>
    BY <1>2 DEF Rewrites
  <2>2. \A s \in Subs : RowMoves(s) /\ MarkMoves(s)
    BY <1>2, <2>1, WriteMarks DEF ShapeMoves
  <2>3. Ends(p) \/ Onward(p, "alert")
    BY <1>2, FinishEnds, GotoOnward
  <2> QED
    BY <2>1, <2>2, <2>3, UnwatchedSound, WriteRules DEF Ends, Onward, OthersStay
<1>3. CASE CommitVerify(p)
  <2>1. sub[Of(p)] \in SubscriptionRow
    BY <1>3, BusyRow DEF CommitVerify, Steps
  <2>2. RecordVerified(sub[Of(p)], task[p].answer).shutdown_at = sub[Of(p)].shutdown_at
    BY <2>1 DEF RecordVerified, SubscriptionRow
  <2> QED
    BY <1>2, <1>3, <2>2 DEF CommitVerify
<1>4. CASE RaiseAlert(p)
  <2> DEFINE due == /\ sub[Of(p)].provider_recurring_status = task[p].answer
                    /\ ~sub[Of(p)].provider_recurring_alerted_at
             row == [sub[Of(p)] EXCEPT !.provider_recurring_alerted_at = @ \/ due]
  <2>1. sub[Of(p)] \in SubscriptionRow
    BY <1>4, BusyRow DEF RaiseAlert, Steps
  <2>2. row.shutdown_at = sub[Of(p)].shutdown_at
    BY <2>1 DEF SubscriptionRow
  <2>3. Rewrites(p, row) /\ Finish(p)
    BY <1>4 DEF RaiseAlert
  <2> HIDE DEF row, due
  <2> QED
    BY <1>2, <2>2, <2>3
<1> QED
  BY <1>1, <1>3, <1>4 DEF Verification

\* The expiration: what the worker records of the rule is so, and the row it
\* expires was still due.
LEMMA ExpirationRules ==
    ASSUME Rules, ShapeMoves, Expiration
    PROVE  Rules'
<1> Worker \in Processes /\ TypeOK /\ Shape /\ Shape'
  BY DEF Processes, Rules, Shape, ShapeMoves
<1> DEFINE w == Of(Worker)
<1>1. /\ ExpirationSteps \subseteq Steps
      /\ {"suspended", "check_failed"} \cup RuleStatus \subseteq RecurringStatus
      /\ TerminalStatus \cap Chargeable = {}
  BY DEF Steps, ExpirationSteps, RecurringStatus, RuleStatus, TerminalStatus, Chargeable
<1>2. ASSUME NEW st \in ExpirationSteps, At(Worker, st)
      PROVE  /\ w \in Subs /\ rule[w] \in RuleStatus
             /\ sub[w] \in SubscriptionRow /\ sub[w].status # "expired"
             /\ st \in {"shutdown", "revoke"} /\ StillDue => rule[w] \notin Chargeable
  <2>1. st \in Steps \ {"idle"}
    BY DEF Steps, ExpirationSteps
  <2> QED
    BY <1>2, <2>1, BusyRow DEF Rules, RuleInv, RuleSound, At
\* The worker's own task, when it goes on to a step of the expiration.
<1>3. ASSUME NEW st \in ExpirationSteps, Onward(Worker, st),
             sub'[w].status # "expired",
             st \in {"shutdown", "revoke"} /\ StillDue' => rule'[w] \notin Chargeable
      PROVE  RuleSound(Worker)'
  <2>1. Of(Worker)' = w /\ task'[Worker].step = st
    BY <1>3 DEF Onward, Of
  <2>2. st \notin {"recover", "recovered"} \cup RepairSteps
    BY DEF ExpirationSteps, RepairSteps
  <2> QED
    BY <1>3, <2>1, <2>2 DEF RuleSound, At, RepairSteps
<1>4. ASSUME Ends(Worker) PROVE RuleSound(Worker)'
  BY <1>4, UnwatchedSound DEF Ends, WatchedSteps, RepairSteps, ExpirationSteps
<1>5. CASE CallExpireStatus
  <2>1. "status" \in ExpirationSteps /\ At(Worker, "status")
    BY <1>5 DEF CallExpireStatus, ExpirationSteps
  <2>2. Asks /\ sub' = sub /\ rule' = rule
    <3>1. Asks
      BY <1>5 DEF CallExpireStatus, Asks
    <3> QED
      BY <3>1, CallEffect
  <2>3. PICK st \in {"failed", "suspend", "shutdown"}, a \in RecurringStatus :
            /\ Answered(Worker, st, a)
            /\ st = "shutdown" => rule[w] \in TerminalStatus
    BY <1>1, <1>2, <1>5, <2>1 DEF CallExpireStatus
  <2>4. st \in ExpirationSteps
    BY DEF ExpirationSteps
  <2>5. Onward(Worker, st)
    BY <1>1, <2>3, <2>4, AnsweredOnward
  <2>6. RuleSound(Worker)'
    BY <1>1, <1>2, <1>3, <2>1, <2>2, <2>3, <2>4, <2>5
  <2> QED
    BY <2>2, <2>5, <2>6, CallRules DEF Onward, OthersStay
<1>6. CASE CallExpireSuspend
  <2>1. "suspend" \in ExpirationSteps /\ At(Worker, "suspend")
    BY <1>6 DEF CallExpireSuspend, ExpirationSteps
  <2>2. /\ Suspends(Worker)
        /\ \/ Goto(Worker, "failed")
           \/ /\ SuspendSucceeds(Worker)
              /\ task' = [task EXCEPT ![Worker] =
                     [@ EXCEPT !.step = "shutdown", !.issued = TRUE,
                               !.answer = "suspended"]]
    BY <1>6 DEF CallExpireSuspend, Suspends
  <2>3. {"failed", "shutdown"} \subseteq ExpirationSteps
    BY DEF ExpirationSteps
  <2>4. \/ Onward(Worker, "failed")
        \/ Onward(Worker, "shutdown") /\ rule'[w] \notin Chargeable
    BY <1>1, <1>2, <2>1, <2>2, <2>3, GotoOnward, IssuedOnward, CallEffect
  <2>5. sub' = sub
    BY <2>2, CallEffect
  <2>6. RuleSound(Worker)'
    BY <1>2, <1>3, <2>1, <2>3, <2>4, <2>5
  <2> QED
    BY <2>2, <2>4, <2>6, CallRules DEF Onward, OthersStay
<1>7. CASE CommitShutdown
  <2> DEFINE row == RecordShutdown(sub[w], task[Worker].answer)
  <2>1. {"shutdown", "revoke"} \subseteq ExpirationSteps /\ At(Worker, "shutdown")
    BY <1>7 DEF CommitShutdown, ExpirationSteps
  <2>2. /\ sub' = [sub EXCEPT ![w] = row] /\ Goto(Worker, "revoke") /\ StillDue
        /\ UNCHANGED <<now, rule>>
    BY <1>7 DEF CommitShutdown, Rewrites
  <2>3. row.status = sub[w].status
    BY <1>2, <2>1, RowKept DEF TypeOK, Task
  <2>4. sub'[w].status # "expired" /\ rule'[w] \notin Chargeable
    BY <1>2, <2>1, <2>2, <2>3 DEF TypeOK
  <2> HIDE DEF row
  <2>5. Onward(Worker, "revoke")
    BY <1>1, <2>1, <2>2, GotoOnward
  <2>6. \A s \in Subs : RowMoves(s) /\ MarkMoves(s)
    BY <1>2, <2>1, <2>2, WriteMarks DEF ShapeMoves
  <2> QED
    BY <1>3, <2>1, <2>2, <2>4, <2>5, <2>6, WriteRules DEF Onward, OthersStay
<1>8. CASE OvertakenShutdown
  <2>1. /\ {"shutdown", "resume"} \subseteq ExpirationSteps /\ At(Worker, "shutdown")
        /\ Keeps /\ sub' = sub
        /\ Goto(Worker, "resume") \/ Finish(Worker)
    BY <1>8 DEF OvertakenShutdown, ExpirationSteps, Keeps
  <2>2. Ends(Worker) \/ Onward(Worker, "resume")
    BY <1>1, <2>1, FinishEnds, GotoOnward
  <2>3. RuleSound(Worker)'
    BY <1>2, <1>3, <1>4, <2>1, <2>2
  <2> QED
    BY <2>1, <2>2, <2>3, CallRules DEF Ends, Onward, OthersStay
<1>9. CASE CallExpireResume
  <2>1. /\ {"resume", "resumed", "failed"} \subseteq ExpirationSteps /\ At(Worker, "resume")
        /\ Resumes(Worker)
        /\ Goto(Worker, "resumed") \/ Answered(Worker, "failed", "suspended")
    BY <1>9 DEF CallExpireResume, ExpirationSteps, Resumes
  <2>2. Onward(Worker, "resumed") \/ Onward(Worker, "failed")
    BY <1>1, <2>1, GotoOnward, AnsweredOnward
  <2>3. sub' = sub
    BY <2>1, CallEffect
  <2>4. RuleSound(Worker)'
    BY <1>2, <1>3, <2>1, <2>2, <2>3
  <2>5. sub[w].status # "expired"
    BY <1>2, <2>1
  <2> QED
    BY <2>1, <2>2, <2>4, <2>5, ResumeRules DEF Onward, OthersStay
<1>10. CASE CommitResumed \/ CommitShutdownFailure
  <2>1. PICK row :
            /\ sub' = [sub EXCEPT ![w] = row] /\ Finish(Worker)
            /\ UNCHANGED <<now, rule>>
    BY <1>10 DEF CommitResumed, CommitShutdownFailure, Rewrites
  <2>2. sub[w].status # "expired"
    BY <1>2, <1>10 DEF CommitResumed, CommitShutdownFailure, ExpirationSteps
  <2>3. \A s \in Subs : RowMoves(s) /\ MarkMoves(s)
    BY <2>1, <2>2, WriteMarks DEF ShapeMoves
  <2>4. Ends(Worker)
    BY <2>1, FinishEnds
  <2> QED
    BY <1>4, <2>1, <2>3, <2>4, WriteRules DEF Ends, OthersStay
<1>11. CASE Revoke
  <2>1. PICK row :
            /\ sub' = [sub EXCEPT ![w] = row] /\ Finish(Worker)
            /\ UNCHANGED <<now, rule>>
    BY <1>11 DEF Revoke, Rewrites
  <2>2. sub[w].status # "expired"
    BY <1>2, <1>11 DEF Revoke, ExpirationSteps
  <2>3. \A s \in Subs : RowMoves(s) /\ MarkMoves(s)
    BY <2>1, <2>2, WriteMarks DEF ShapeMoves
  <2>4. Ends(Worker)
    BY <2>1, FinishEnds
  <2> QED
    BY <1>4, <2>1, <2>3, <2>4, WriteRules DEF Ends, OthersStay
<1>12. CASE RevokeFails
  <2>1. Ends(Worker) /\ UNCHANGED <<now, sub, rule>>
    BY <1>12, FinishEnds DEF RevokeFails
  <2>2. \A s \in Subs : RowMoves(s) /\ MarkMoves(s)
    BY <2>1 DEF ShapeMoves, MarkMoves
  <2> QED
    BY <1>4, <2>1, <2>2, WriteRules DEF Ends, OthersStay
<1> QED
  BY <1>5, <1>6, <1>7, <1>8, <1>9, <1>10, <1>11, <1>12 DEF Expiration

\* What the worker begins.
LEMMA WorkerBeginsRules ==
    ASSUME Rules, ShapeMoves, NEW s \in Subs,
           BeginAudit(s) \/ BeginExpire(s) \/ AlertShutdownFailure(s)
    PROVE  Rules'
<1> Worker \in Processes /\ TypeOK /\ Shape /\ Shape'
  BY DEF Processes, Rules, Shape, ShapeMoves
<1>1. CASE BeginAudit(s)
  <2>1. Keeps /\ Begins(Worker, s, "verify")
    BY <1>1, StartBegins DEF BeginAudit, Steps
  <2>2. "verify" \notin WatchedSteps
    BY DEF WatchedSteps, RepairSteps, ExpirationSteps
  <2> QED
    BY <2>1, <2>2, UnwatchedSound, CallRules DEF Begins, OthersStay
<1>2. CASE BeginExpire(s)
  <2>1. /\ Keeps /\ sub[s].status # "expired"
        /\ \A q \in Processes \ {Worker} : task'[q] = task[q]
        /\ task'[Worker].step = "status" /\ task'[Worker].sub = s
    BY <1>2 DEF BeginExpire, IsDueForExpiration, Entitled, TypeOK, IdleTask
  <2>2. RuleSound(Worker)'
    BY <2>1 DEF RuleSound, Keeps, At, Of, RepairSteps
  <2> QED
    BY <2>1, <2>2, CallRules
<1>3. CASE AlertShutdownFailure(s)
  <2> DEFINE row == [sub[s] EXCEPT !.shutdown_alerted_at = TRUE]
  <2>1. row.shutdown_at = sub[s].shutdown_at
    BY DEF TypeOK, SubscriptionRow
  <2>2. sub' = [sub EXCEPT ![s] = row] /\ UNCHANGED <<now, rule, task>>
    BY <1>3 DEF AlertShutdownFailure
  <2> HIDE DEF row
  <2>3. \A x \in Subs : RowMoves(x) /\ MarkMoves(x)
    BY <2>1, <2>2, WriteMarks DEF ShapeMoves
  <2>4. RuleSound(Worker)'
    BY <2>2, <2>3, OthersKeepRules DEF RuleMoves
  <2> QED
    BY <2>2, <2>3, <2>4, WriteRules
<1> QED
  BY <1>1, <1>2, <1>3

\* The member's cancellation marks an entitled row.
LEMMA CancellationRules ==
    ASSUME Rules, ShapeMoves, NEW m \in Members,
           Cancellation(m) \/ \E s \in Subs : BeginCancel(m, s)
    PROVE  Rules'
<1> m \in Processes /\ TypeOK /\ Shape /\ Shape'
  BY DEF Processes, Rules, Shape, ShapeMoves
<1> {"stop", "cancel"} \subseteq Steps
  BY DEF Steps
<1> {"idle", "stop", "cancel"} \cap WatchedSteps = {}
  BY DEF WatchedSteps, RepairSteps, ExpirationSteps
<1>1. ASSUME NEW s \in Subs, BeginCancel(m, s)
      PROVE  Rules'
  <2>1. Keeps /\ Begins(m, s, "stop")
    BY <1>1, StartBegins DEF BeginCancel
  <2> QED
    BY <2>1, UnwatchedSound, CallRules DEF Begins, OthersStay
<1>2. CASE CallCancelSuspend(m)
  <2>1. Suspends(m) /\ (Goto(m, "cancel") \/ Finish(m))
    BY <1>2 DEF CallCancelSuspend, Suspends
  <2>2. Ends(m) \/ Onward(m, "cancel")
    BY <2>1, GotoOnward, FinishEnds
  <2> QED
    BY <2>1, <2>2, UnwatchedSound, CallRules DEF Ends, Onward, OthersStay
<1>3. CASE CommitCancel(m)
  <2>1. Ends(m) /\ UNCHANGED <<now, rule>>
    BY <1>3, FinishEnds DEF CommitCancel
  <2>2. \A s \in Subs : MarkMoves(s)
    <3>1. CASE sub' = sub
      BY <3>1 DEF MarkMoves
    <3>2. ASSUME NEW s \in Current,
                 sub' = [sub EXCEPT ![s] = CancelAtPeriodEnd(@, "suspended")]
          PROVE  \A x \in Subs : MarkMoves(x)
      BY <3>2 DEF MarkMoves, Current, Entitled, TypeOK
    <3> QED
      BY <1>3, <3>1, <3>2 DEF CommitCancel
  <2> QED
    BY <2>1, <2>2, UnwatchedSound, WriteRules DEF Ends, OthersStay, ShapeMoves
<1> QED
  BY <1>1, <1>2, <1>3 DEF Cancellation

\* The repair: it records what it found or did, and resumes only what a renewal
\* has taken from it.
LEMMA RepairRules ==
    ASSUME Rules, ShapeMoves, NEW o \in Operators,
           Repair(o) \/ \E s \in Subs : BeginRepair(o, s)
    PROVE  Rules'
<1> o \in Processes /\ o # Worker /\ TypeOK /\ Shape /\ Shape'
  BY RecurringAssumption DEF Processes, Rules, Shape, ShapeMoves
<1> DEFINE x == Of(o)
<1>1. /\ RepairSteps \subseteq Steps \ {"idle"}
      /\ {"check", "recheck", "repair", "repaired", "undo"} = RepairSteps
      /\ TerminalStatus \cap Chargeable = {}
  BY DEF Steps, RepairSteps, TerminalStatus, Chargeable
<1>2. ASSUME NEW st \in RepairSteps, At(o, st)
      PROVE  /\ x \in Subs /\ sub[x] \in SubscriptionRow
             /\ rule[x] \in RecurringStatus
             /\ sub[x].status = "expired" \/ Renewed(o)
             /\ st = "repaired" /\ sub[x].status = "expired" => rule[x] \notin Chargeable
             /\ st = "undo" => Renewed(o)
  <2>1. st \in Steps \ {"idle"}
    BY <1>1
  <2> QED
    BY <1>2, <2>1, BusyRow DEF Rules, RuleInv, RuleSound, At, RuleStatus, RecurringStatus
<1>3. ASSUME NEW st \in RepairSteps, Onward(o, st), sub' = sub,
             sub[x].status = "expired" \/ Renewed(o),
             st = "undo" => Renewed(o),
             st = "repaired" /\ sub[x].status = "expired" => rule'[x] \notin Chargeable
      PROVE  RuleSound(o)'
  <2>1. /\ Of(o)' = x /\ task'[o].step = st /\ Renewed(o)' = Renewed(o)
        /\ st \notin {"recover", "recovered"}
    BY <1>3 DEF Onward, Of, Renewed, RepairSteps
  <2> QED
    BY <1>3, <2>1 DEF RuleSound, At
<1>4. ASSUME Ends(o) PROVE RuleSound(o)'
  BY <1>4, UnwatchedSound DEF Ends, WatchedSteps, RepairSteps, ExpirationSteps
<1>5. ASSUME NEW s \in Subs, BeginRepair(o, s)
      PROVE  Rules'
  <2>1. Keeps /\ Begins(o, s, "check") /\ sub[s].status = "expired"
    BY <1>1, <1>5, StartBegins DEF BeginRepair
  <2>2. RuleSound(o)'
    BY <2>1 DEF RuleSound, Begins, Keeps, At, Of
  <2> QED
    BY <2>1, <2>2, CallRules DEF Begins, OthersStay
<1>6. CASE CallCheck(o)
  <2>1. Asks /\ sub' = sub /\ rule' = rule /\ At(o, "check")
    <3>1. Asks /\ At(o, "check")
      BY <1>6 DEF CallCheck, Asks
    <3> QED
      BY <3>1, CallEffect
  <2>2. \/ Finish(o)
        \/ Answered(o, "recheck", rule[x])
        \/ Answered(o, "repaired", rule[x]) /\ rule[x] \in TerminalStatus
    BY <1>6 DEF CallCheck
  <2>3. \/ Ends(o) \/ Onward(o, "recheck")
        \/ Onward(o, "repaired") /\ rule[x] \in TerminalStatus
    BY <1>1, <1>2, <2>1, <2>2, FinishEnds, AnsweredOnward
  <2>4. RuleSound(o)'
    BY <1>1, <1>2, <1>3, <1>4, <2>1, <2>3
  <2> QED
    BY <2>1, <2>3, <2>4, CallRules DEF Ends, Onward, OthersStay
<1>7. CASE Recheck(o)
  <2>1. /\ Keeps /\ sub' = sub /\ At(o, "recheck")
        /\ Goto(o, "repair") \/ Finish(o)
    BY <1>7 DEF Recheck, Keeps
  <2>2. Ends(o) \/ Onward(o, "repair")
    BY <1>1, <2>1, FinishEnds, GotoOnward
  <2>3. RuleSound(o)'
    BY <1>1, <1>2, <1>3, <1>4, <2>1, <2>2
  <2> QED
    BY <2>1, <2>2, <2>3, CallRules DEF Ends, Onward, OthersStay
<1>8. CASE CallRepair(o)
  <2>1. /\ At(o, "repair") /\ Suspends(o)
        /\ \/ Finish(o)
           \/ /\ SuspendSucceeds(o)
              /\ task' = [task EXCEPT ![o] =
                     [@ EXCEPT !.step = "repaired", !.issued = TRUE,
                               !.answer = "suspended"]]
    BY <1>8 DEF CallRepair, Suspends
  <2>2. \/ Ends(o)
        \/ Onward(o, "repaired") /\ rule'[x] \notin Chargeable
    BY <1>1, <1>2, <2>1, FinishEnds, IssuedOnward, CallEffect
  <2>3. sub' = sub
    BY <2>1, CallEffect
  <2>4. RuleSound(o)'
    BY <1>1, <1>2, <1>3, <1>4, <2>1, <2>2, <2>3
  <2> QED
    BY <2>1, <2>2, <2>4, CallRules DEF Ends, Onward, OthersStay
<1>9. CASE CommitRepair(o)
  <2>1. At(o, "repaired")
    BY <1>9 DEF CommitRepair
  <2>2. CASE sub[x].status = "expired"
    <3>1. PICK row : /\ sub' = [sub EXCEPT ![x] = row] /\ Finish(o)
                     /\ UNCHANGED <<now, rule>>
      BY <1>9, <2>2 DEF CommitRepair, Rewrites
    <3>2. \A s \in Subs : RowMoves(s) /\ MarkMoves(s)
      BY <1>1, <1>2, <2>1, <2>2, <3>1, WriteMarks DEF ShapeMoves
    <3>3. Ends(o)
      BY <3>1, FinishEnds
    <3> QED
      BY <1>4, <3>1, <3>2, <3>3, WriteRules DEF Ends, OthersStay
  <2>3. CASE sub[x].status # "expired"
    <3>1. /\ Keeps /\ sub' = sub
          /\ Goto(o, "undo") \/ Finish(o)
      BY <1>9, <2>3 DEF CommitRepair, Keeps
    <3>2. Ends(o) \/ Onward(o, "undo")
      BY <1>1, <3>1, FinishEnds, GotoOnward
    <3>3. RuleSound(o)'
      BY <1>1, <1>2, <1>3, <1>4, <2>1, <2>3, <3>1, <3>2
    <3> QED
      BY <3>1, <3>2, <3>3, CallRules DEF Ends, Onward, OthersStay
  <2> QED
    BY <2>2, <2>3
<1>10. CASE CallUndo(o)
  <2>1. Resumes(o) /\ Ends(o) /\ At(o, "undo")
    BY <1>10, FinishEnds DEF CallUndo, Resumes
  <2>2. /\ sub[x].status # "expired"
        /\ sub[x].current_period_end > task[o].began + 1
    BY <1>1, <1>2, <2>1 DEF Renewed
  <2>3. sub[x].current_period_end > now
    <3>1. /\ task[o].began \in {now, now - 1} /\ now \in Nat
          /\ sub[x].current_period_end \in Nat
      BY <1>1, <1>2, <2>1 DEF Shape, TaskSound, TypeOK, Idle, At, SubscriptionRow
    <3> QED
      BY <2>2, <3>1
  <2> QED
    BY <1>4, <2>1, <2>2, <2>3, ResumeRules DEF Ends, OthersStay
<1> QED
  BY <1>5, <1>6, <1>7, <1>8, <1>9, <1>10 DEF Repair

\* The provider, the clock, and processes that die.
LEMMA EnvironmentRules ==
    ASSUME Rules, ShapeMoves,
           \/ \E s \in Subs : ProviderCharges(s) \/ ProviderMovesRule(s)
           \/ \E p \in Processes : Crash(p)
           \/ Tick
           \/ UNCHANGED vars
    PROVE  Rules'
<1> Worker \in Processes /\ TypeOK /\ Shape /\ Shape'
  BY DEF Processes, Rules, Shape, ShapeMoves
<1>1. ASSUME UNCHANGED <<now, sub, task>>,
             \A s \in Subs : rule'[s] \in Chargeable => rule[s] \in Chargeable
      PROVE  Rules'
  <2>1. \A s \in Subs : RowMoves(s) /\ RuleMoves(Worker, s) /\ MarkMoves(s)
    BY <1>1 DEF ShapeMoves, RuleMoves, MarkMoves
  <2>2. RuleSound(Worker)'
    BY <1>1, <2>1, OthersKeepRules
  <2> QED
    BY <1>1, <2>1, <2>2, RulesKept
<1>2. CASE \E s \in Subs : ProviderCharges(s) \/ ProviderMovesRule(s)
  <2>1. /\ UNCHANGED <<now, sub, task>>
        /\ \A s \in Subs : rule'[s] \in Chargeable => rule[s] \in Chargeable
    BY <1>2 DEF ProviderCharges, ProviderMovesRule, TypeOK, Chargeable
  <2> QED
    BY <1>1, <2>1
<1>3. ASSUME NEW p \in Processes, Crash(p)
      PROVE  Rules'
  <2>1. Ends(p) /\ UNCHANGED <<now, sub, rule>>
    BY <1>3, FinishEnds DEF Crash
  <2>2. RuleSound(p)'
    BY <2>1, UnwatchedSound DEF Ends, WatchedSteps, RepairSteps, ExpirationSteps
  <2>3. \A s \in Subs : RowMoves(s) /\ MarkMoves(s)
    BY <2>1 DEF ShapeMoves, MarkMoves
  <2> QED
    BY <2>1, <2>2, <2>3, WriteRules DEF Ends, OthersStay
<1>4. CASE Tick \/ UNCHANGED vars
  <2>1. UNCHANGED <<sub, rule, task>>
    BY <1>4 DEF Tick, vars
  <2>2. NoOrphanedRule'
    BY <2>1 DEF Rules, NoOrphanedRule
  <2>3. ASSUME NEW p \in Processes PROVE RuleSound(p)' /\ TaskSound(p)'
    BY <2>1 DEF Rules, RuleInv, RuleSound, Renewed, StillDue, At, Of, Shape
  <2> QED
    BY <2>2, <2>3 DEF Rules, RuleInv
<1> QED
  BY <1>2, <1>3, <1>4

\* Every step keeps the rules, unless an approval of a wrong amount is processed.
LEMMA RulesStep ==
    ASSUME Mismatched = FALSE
    PROVE  Rules /\ [Next]_vars => Rules'
<1> SUFFICES ASSUME Rules, [Next]_vars PROVE Rules'
  OBVIOUS
<1>1. ShapeMoves
  BY ShapeStep DEF Rules
<1>2. CASE \E h \in Handlers : Webhook(h)
  BY <1>1, <1>2, WebhookRules
<1>3. CASE \E p \in Handlers \cup {Worker} : Verification(p)
  BY <1>1, <1>3, VerificationRules
<1>4. CASE \E s \in Subs : BeginAudit(s) \/ BeginExpire(s) \/ AlertShutdownFailure(s)
  BY <1>1, <1>4, WorkerBeginsRules
<1>5. CASE Expiration
  BY <1>1, <1>5, ExpirationRules
<1>6. CASE \E m \in Members : Cancellation(m) \/ \E s \in Subs : BeginCancel(m, s)
  BY <1>1, <1>6, CancellationRules
<1>7. CASE \E o \in Operators : Repair(o) \/ \E s \in Subs : BeginRepair(o, s)
  BY <1>1, <1>7, RepairRules
<1>8. CASE \/ \E s \in Subs : ProviderCharges(s) \/ ProviderMovesRule(s)
           \/ \E p \in Processes : Crash(p)
           \/ Tick
           \/ UNCHANGED vars
  BY <1>1, <1>8, EnvironmentRules
<1> QED
  BY <1>2, <1>3, <1>4, <1>5, <1>6, <1>7, <1>8 DEF Next

\* Nobody is at work and nobody has been marked in the beginning.
LEMMA RulesInit == Init => Rules
<1> SUFFICES ASSUME Init PROVE Rules
  OBVIOUS
<1>1. Shape
  BY ShapeInit
<1>2. ASSUME NEW p \in Processes PROVE RuleSound(p)
  BY DEF Init, IdleTask, RuleSound, At, RepairSteps, ExpirationSteps
<1>3. ASSUME NEW s \in Subs, sub[s].status = "expired"
      PROVE  sub[s].current_period_end = 0 /\ ~sub[s].shutdown_at
  <2>1. \/ sub[s] = ExpireSubscription(NewSubscription(0, 0, "active"), TRUE)
        \/ \E m : sub[s] = NewSubscription(0, m, "pending")
    BY DEF Init
  <2>2. \A m : NewSubscription(0, m, "pending").status = "active"
    BY DEF NewSubscription
  <2>3. LET row == ExpireSubscription(NewSubscription(0, 0, "active"), TRUE)
        IN  row.current_period_end = 0 /\ ~row.shutdown_at
    BY DEF NewSubscription, ExpireSubscription
  <2> QED
    BY <1>3, <2>1, <2>2, <2>3
<1> QED
  BY <1>1, <1>2, <1>3 DEF Rules, RuleInv, Shape, NoOrphanedRule

\* As long as the provider charges what was agreed, whoever has lost access has a
\* rule that cannot charge: however many renewals, cancellations, repairs, failed
\* calls and lost processes overlap with the expiration.
THEOREM NobodyIsChargedAfterRemoval ==
    ASSUME Mismatched = FALSE
    PROVE  Spec => []NoOrphanedRule
<1>1. Rules => NoOrphanedRule
  BY DEF Rules
<1>2. Rules /\ [Next]_vars => Rules'
  BY RulesStep
<1> QED
  BY <1>1, <1>2, RulesInit, PTL DEF Spec

-----------------------------------------------------------------------------
(***************************************************************************)
(* What a step remembers, and what it marks                                *)
(***************************************************************************)
\* What the functions of a row write of the cancellation and of the rule.
LEMMA RowMarked ==
    ASSUME NEW s \in SubscriptionRow, NEW r \in RecurringStatus
    PROVE  /\ RecordShutdown(s, r).cancel_at_period_end = s.cancel_at_period_end
           /\ RecordShutdown(s, r).provider_recurring_status = r
           /\ RecordShutdownFailure(s, r).cancel_at_period_end = s.cancel_at_period_end
           /\ RecordShutdownFailure(s, r).provider_recurring_status = r
           /\ RecordResumed(s).cancel_at_period_end = s.cancel_at_period_end
           /\ CancelAtPeriodEnd(s, r).cancel_at_period_end
           /\ RecordVerified(s, r).cancel_at_period_end = s.cancel_at_period_end
           /\ RecordVerified(s, r).provider_recurring_status = r
<1>1. /\ RecordShutdown(s, r).cancel_at_period_end = s.cancel_at_period_end
      /\ RecordShutdown(s, r).provider_recurring_status = r
  BY DEF RecordShutdown, SubscriptionRow
<1>2. /\ RecordShutdownFailure(s, r).cancel_at_period_end = s.cancel_at_period_end
      /\ RecordShutdownFailure(s, r).provider_recurring_status = r
  BY DEF RecordShutdownFailure, SubscriptionRow
<1>3. RecordResumed(s).cancel_at_period_end = s.cancel_at_period_end
  BY DEF RecordResumed, SubscriptionRow
<1>4. CancelAtPeriodEnd(s, r).cancel_at_period_end
  BY DEF CancelAtPeriodEnd, RecordShutdown, SubscriptionRow
<1>5. /\ RecordVerified(s, r).cancel_at_period_end = s.cancel_at_period_end
      /\ RecordVerified(s, r).provider_recurring_status = r
  BY DEF RecordVerified, SubscriptionRow
<1> QED
  BY <1>1, <1>2, <1>3, <1>4, <1>5

\* An expiration leaves both alone; a renewal clears the cancellation.
LEMMA RowEntitled ==
    ASSUME NEW s \in SubscriptionRow
    PROVE  /\ \A b \in BOOLEAN :
                LET row == ExpireSubscription(s, b)
                IN  /\ row.cancel_at_period_end = s.cancel_at_period_end
                    /\ row.provider_recurring_status = s.provider_recurring_status
           /\ LET row == ExtendSubscription(s, BillingMonths, now)
              IN  /\ ~row.cancel_at_period_end
                  /\ row.provider_recurring_status = s.provider_recurring_status
<1>1. ASSUME NEW b \in BOOLEAN
      PROVE  LET row == ExpireSubscription(s, b)
             IN  /\ row.cancel_at_period_end = s.cancel_at_period_end
                 /\ row.provider_recurring_status = s.provider_recurring_status
  BY DEF ExpireSubscription, SubscriptionRow
<1>2. LET row == ExtendSubscription(s, BillingMonths, now)
      IN  /\ ~row.cancel_at_period_end
          /\ row.provider_recurring_status = s.provider_recurring_status
  BY DEF ExtendSubscription, SubscriptionRow
<1> QED
  BY <1>1, <1>2

\* The background task marks the row only for a rule that was suspended again.
LEMMA RecoveredMarked ==
    ASSUME NEW s \in SubscriptionRow, NEW a \in {"suspended", "active", "check_failed"}
    PROVE  LET row == RecoveredRow(s, a)
           IN  /\ row.cancel_at_period_end = (s.cancel_at_period_end \/ a = "suspended")
               /\ row.provider_recurring_status = a
<1>1. CASE a = "suspended"
  BY <1>1 DEF RecoveredRow, CancelAtPeriodEnd, RecordShutdown, SubscriptionRow
<1>2. CASE a = "active"
  BY <1>2 DEF RecoveredRow, RecordResumed, SubscriptionRow
<1>3. CASE a = "check_failed"
  BY <1>3 DEF RecoveredRow, SubscriptionRow
<1> QED
  BY <1>1, <1>2, <1>3

\* Whether s is marked as cancelled, and what its row says of the rule.
Marked(s) == sub[s].cancel_at_period_end
Said(s) == sub[s].provider_recurring_status

\* Nothing changes but the task of p, and the rule, the row and the approvals of x.
Local(p, x) ==
    /\ OthersStay(p)
    /\ \A s \in Subs \ {x} :
          sub'[s] = sub[s] /\ rule'[s] = rule[s] /\ pending'[s] = pending[s]
    /\ now' = now
    /\ cancelled' = cancelled /\ (Faultless' => Faultless)

\* The process goes on to a step with the same memory of what it read, a last
\* answer and the knowledge whether it issued a SUSPEND.
Goes(p, st, a, i) ==
    /\ OthersStay(p)
    /\ task'[p].step = st
    /\ task'[p].sub = task[p].sub /\ task'[p].began = task[p].began
    /\ task'[p].preserve = task[p].preserve /\ task'[p].resume = task[p].resume
    /\ task'[p].answer = a /\ task'[p].issued = i

\* The process has nothing to do and nothing in mind.
Rests(p) == OthersStay(p) /\ task'[p] = IdleTask

\* The task operators in these words.
LEMMA TaskMoves ==
    ASSUME TypeOK, NEW p \in Processes, NEW st \in Steps, NEW a \in RecurringStatus
    PROVE  /\ Finish(p) => Rests(p)
           /\ Goto(p, st) => Goes(p, st, task[p].answer, task[p].issued)
           /\ Answered(p, st, a) => Goes(p, st, a, task[p].issued)
           /\ task' = [task EXCEPT ![p] =
                [@ EXCEPT !.step = st, !.issued = TRUE, !.answer = "suspended"]] =>
                    Goes(p, st, "suspended", TRUE)
<1>1. Finish(p) => Rests(p)
  <2>1. IdleTask \in Task
    BY DEF IdleTask, Task, Steps, RecurringStatus
  <2> QED
    BY <2>1 DEF Finish, Rests, OthersStay, TypeOK
<1>2. ASSUME NEW i \in BOOLEAN, NEW c \in RecurringStatus,
             task' = [task EXCEPT ![p] =
                         [@ EXCEPT !.step = st, !.answer = c, !.issued = i]]
      PROVE  Goes(p, st, c, i)
  BY <1>2 DEF Goes, OthersStay, TypeOK, Task
<1>3. /\ task[p] \in Task /\ task[p].issued \in BOOLEAN
      /\ task[p].answer \in RecurringStatus /\ "suspended" \in RecurringStatus
  BY DEF TypeOK, Task, RecurringStatus
<1>4. ASSUME NEW t \in Task
      PROVE  /\ [t EXCEPT !.step = st]
                    = [t EXCEPT !.step = st, !.answer = t.answer, !.issued = t.issued]
             /\ [t EXCEPT !.step = st, !.answer = a]
                    = [t EXCEPT !.step = st, !.answer = a, !.issued = t.issued]
             /\ [t EXCEPT !.step = st, !.issued = TRUE, !.answer = "suspended"]
                    = [t EXCEPT !.step = st, !.answer = "suspended", !.issued = TRUE]
  BY DEF Task
<1>5. Goto(p, st) => Goes(p, st, task[p].answer, task[p].issued)
  BY <1>2, <1>3, <1>4 DEF Goto
<1>6. Answered(p, st, a) => Goes(p, st, a, task[p].issued)
  BY <1>2, <1>3, <1>4 DEF Answered
<1>7. task' = [task EXCEPT ![p] =
          [@ EXCEPT !.step = st, !.issued = TRUE, !.answer = "suspended"]] =>
              Goes(p, st, "suspended", TRUE)
  BY <1>2, <1>3, <1>4
<1> QED
  BY <1>1, <1>5, <1>6, <1>7

\* A fresh task of p for s, that remembers nothing but whether s is marked.
Fresh(p, s, st) ==
    /\ OthersStay(p)
    /\ task'[p].step = st /\ task'[p].sub = s /\ task'[p].began = now
    /\ ~task'[p].issued
    /\ task'[p].preserve = (st = "process" /\ Marked(s))

\* The beginnings in these words.
LEMMA FreshTasks ==
    ASSUME TypeOK, NEW p \in Processes, NEW s \in Subs, NEW st \in Steps, NEW c \in Nat
    PROVE  /\ Start(p, s, st) /\ st # "process" => Fresh(p, s, st)
           /\ task' = [task EXCEPT ![p] =
                 [IdleTask EXCEPT !.step = "status", !.sub = s, !.cutoff = c,
                                  !.began = now]] => Fresh(p, s, "status")
           /\ ReadContext(p, s) => Fresh(p, s, "process")
<1>1. ASSUME NEW t \in Task, t.step \in Steps, t.sub = s, t.began = now, ~t.issued,
             t.preserve = (t.step = "process" /\ Marked(s)),
             task' = [task EXCEPT ![p] = t]
      PROVE  Fresh(p, s, t.step)
  BY <1>1 DEF Fresh, OthersStay, TypeOK
<1>2. now \in Nat /\ Marked(s) \in BOOLEAN /\ sub[s].shutdown_at \in BOOLEAN
  BY DEF TypeOK, SubscriptionRow, Marked
<1>3. IdleTask \in Task /\ IdleTask.issued = FALSE /\ IdleTask.preserve = FALSE
  BY DEF IdleTask, Task, Steps, RecurringStatus
<1>4. {"status", "process"} \subseteq Steps
  BY DEF Steps
<1>5. ASSUME Start(p, s, st), st # "process" PROVE Fresh(p, s, st)
  <2> DEFINE t == [IdleTask EXCEPT !.step = st, !.sub = s, !.began = now]
  <2>1. /\ t \in Task /\ t.step = st /\ t.sub = s /\ t.began = now
        /\ ~t.issued /\ t.preserve = FALSE
    BY <1>2, <1>3 DEF Task
  <2>2. task' = [task EXCEPT ![p] = t]
    BY <1>5 DEF Start
  <2> HIDE DEF t
  <2> QED
    BY <1>1, <1>5, <2>1, <2>2
<1>6. ASSUME task' = [task EXCEPT ![p] =
                 [IdleTask EXCEPT !.step = "status", !.sub = s, !.cutoff = c,
                                  !.began = now]]
      PROVE  Fresh(p, s, "status")
  <2> DEFINE t == [IdleTask EXCEPT !.step = "status", !.sub = s, !.cutoff = c,
                                   !.began = now]
  <2>1. /\ t \in Task /\ t.step = "status" /\ t.sub = s /\ t.began = now
        /\ ~t.issued /\ t.preserve = FALSE
    BY <1>2, <1>3, <1>4 DEF Task
  <2>2. task' = [task EXCEPT ![p] = t]
    BY <1>6
  <2> HIDE DEF t
  <2> QED
    BY <1>1, <1>4, <2>1, <2>2
<1>7. ASSUME ReadContext(p, s) PROVE Fresh(p, s, "process")
  <2> DEFINE t == [IdleTask EXCEPT
                      !.step     = "process",
                      !.sub      = s,
                      !.resume   = sub[s].shutdown_at /\ ~sub[s].cancel_at_period_end,
                      !.preserve = sub[s].cancel_at_period_end,
                      !.began    = now]
  <2>1. /\ t \in Task /\ t.step = "process" /\ t.sub = s /\ t.began = now
        /\ ~t.issued /\ t.preserve = Marked(s)
    BY <1>2, <1>3, <1>4 DEF Task, Marked
  <2>2. task' = [task EXCEPT ![p] = t]
    BY <1>7 DEF ReadContext
  <2> HIDE DEF t
  <2> QED
    BY <1>1, <1>2, <1>4, <2>1, <2>2
<1> QED
  BY <1>5, <1>6, <1>7

\* What a call about x = Of(p) may do, and what a call that fails shows: the past is
\* not faultless any more, unless the rule could not be resumed.
LEMMA CallLocal ==
    ASSUME Shape, NEW p \in Processes, OthersStay(p), Of(p) \in Subs,
           Suspends(p) \/ Resumes(p) \/ Asks
    PROVE  /\ Local(p, Of(p)) /\ sub' = sub /\ pending' = pending
           /\ SuspendSucceeds(p) \/ SuspendFails(p) =>
                (rule'[Of(p)] \in Chargeable => rule[Of(p)] \in Chargeable)
           /\ ResumeSucceeds(p) => rule'[Of(p)] = "active"
           /\ ResumeFails(p) /\ Faultless' => rule'[Of(p)] # "suspended"
           /\ SuspendFails(p) \/ StatusFails => ~Faultless'
           /\ Asks => rule' = rule
<1> TypeOK
  BY DEF Shape
<1>1. /\ UNCHANGED <<now, sub, pending, cancelled, crashes>>
      /\ \A s \in Subs \ {Of(p)} : rule'[s] = rule[s]
      /\ Suspends(p) \/ Asks =>
            \A s \in Subs : rule'[s] \in Chargeable => rule[s] \in Chargeable
      /\ Asks => rule' = rule
  BY CallEffect
<1>2. failures' \in {failures, failures + 1} /\ failures \in Nat
  BY DEF Suspends, SuspendSucceeds, SuspendFails, Resumes, ResumeSucceeds, ResumeFails,
         Asks, StatusSucceeds, StatusFails, Fails, TypeOK
<1>3. Faultless' => Faultless
  BY <1>1, <1>2 DEF Faultless
<1>4. Local(p, Of(p))
  BY <1>1, <1>3 DEF Local
<1>5. SuspendFails(p) \/ StatusFails => ~Faultless'
  BY DEF SuspendFails, StatusFails, Fails, Faultless, TypeOK
<1>6. ResumeSucceeds(p) => rule'[Of(p)] = "active"
  BY DEF ResumeSucceeds, TypeOK
<1>7. ResumeFails(p) /\ Faultless' => rule'[Of(p)] # "suspended"
  BY DEF ResumeFails, MayResume, Fails, Faultless, TypeOK
<1> QED
  BY <1>1, <1>4, <1>5, <1>6, <1>7 DEF Suspends

\* What a write does.
LEMMA RewriteLocal ==
    ASSUME Shape, NEW p \in Processes, OthersStay(p), Of(p) \in Subs, NEW row,
           Rewrites(p, row)
    PROVE  /\ Local(p, Of(p)) /\ rule' = rule /\ pending' = pending
           /\ sub'[Of(p)] = row
  BY DEF Rewrites, Local, Shape, TypeOK, Faultless

\* What a step without a call or a write does.
LEMMA KeepsLocal ==
    ASSUME NEW p, OthersStay(p), Keeps
    PROVE  /\ Local(p, Of(p)) /\ rule' = rule /\ pending' = pending /\ sub' = sub
  BY DEF Keeps, Local, Faultless

-----------------------------------------------------------------------------
(***************************************************************************)
(* A clean cancellation holds                                              *)
(***************************************************************************)
\* The invariant of the third part.
Answers == Shape /\ \A p \in Processes : AnswerSound(p)
Cancellations == Answers /\ CleanInv

\* What p may do to a cleanly cancelled subscription x that it is at work on.
KeepsCancelled(p, x) ==
    /\ rule'[x] \notin Chargeable /\ pending'[x] <= 1
    /\ pending'[x] > 0 => Marked(x)'
    /\ Of(p)' = x => CleanTask(p)'
    /\ Faultless' => \/ Marked(x)'
                     \/ Of(p)' = x /\ Restoring(p)'
                     \/ ~Marked(x) /\ ~Restoring(p)

\* A process at work on x disturbs no cancellation but that of x.
LEMMA CancellationsKept ==
    ASSUME Cancellations, Shape', NEW p \in Processes, NEW x \in Subs,
           Local(p, x), AnswerSound(p)',
           \A s \in Subs \ {x} : Of(p)' # s /\ (Of(p) = s => ~Restoring(p)),
           cancelled[x] = "clean" /\ StaysCancelled(x) => KeepsCancelled(p, x)
    PROVE  Cancellations'
<1>1. ASSUME NEW q \in Processes \ {p}
      PROVE  /\ task'[q] = task[q] /\ Of(q)' = Of(q) /\ AnswerSound(q)'
             /\ CleanTask(q)' = CleanTask(q) /\ Restoring(q)' = Restoring(q)
  BY <1>1 DEF Local, OthersStay, Cancellations, Answers, AnswerSound, CleanTask,
              Restoring, At, Of
<1>2. ASSUME NEW s \in Subs \ {x}, cancelled'[s] = "clean"
      PROVE  StaysCancelled(s)'
  <2>1. /\ StaysCancelled(s) /\ (Faultless' => Faultless)
        /\ sub'[s] = sub[s] /\ rule'[s] = rule[s] /\ pending'[s] = pending[s]
    BY <1>2 DEF Local, Cancellations, CleanInv
  <2>2. ASSUME NEW q \in Processes, Of(q)' = s PROVE CleanTask(q)'
    BY <1>1, <1>2, <2>1, <2>2 DEF StaysCancelled
  <2>3. ASSUME NEW q \in Processes, Of(q) = s, Restoring(q)
        PROVE  Of(q)' = s /\ Restoring(q)'
    BY <1>1, <1>2, <2>3
  <2> QED
    BY <2>1, <2>2, <2>3 DEF StaysCancelled
<1>3. ASSUME cancelled'[x] = "clean" PROVE StaysCancelled(x)'
  <2>1. StaysCancelled(x) /\ KeepsCancelled(p, x) /\ (Faultless' => Faultless)
    BY <1>3 DEF Local, Cancellations, CleanInv
  <2>2. ASSUME NEW q \in Processes, Of(q)' = x PROVE CleanTask(q)'
    BY <1>1, <2>1, <2>2 DEF StaysCancelled, KeepsCancelled
  <2>3. ASSUME Faultless', ~Marked(x)'
        PROVE  \E q \in Processes : Of(q)' = x /\ Restoring(q)'
    <3>1. CASE Of(p)' = x /\ Restoring(p)'
      BY <3>1
    <3>2. CASE ~Marked(x) /\ ~Restoring(p)
      <4>1. PICK q \in Processes : Of(q) = x /\ Restoring(q)
        BY <2>1, <2>3, <3>2 DEF StaysCancelled, Marked
      <4> QED
        BY <1>1, <3>2, <4>1
    <3> QED
      BY <2>1, <2>3, <3>1, <3>2 DEF KeepsCancelled
  <2> QED
    BY <2>1, <2>2, <2>3 DEF StaysCancelled, KeepsCancelled, Marked
<1>4. \A q \in Processes : AnswerSound(q)'
  BY <1>1
<1> QED
  BY <1>2, <1>3, <1>4 DEF Cancellations, Answers, CleanInv

\* A process that rests disturbs nothing by it.
LEMMA RestSound ==
    ASSUME NEW p \in Processes, Rests(p)
    PROVE  /\ AnswerSound(p)' /\ OthersStay(p)
           /\ \A s \in Subs : Of(p)' # s
  BY RecurringAssumption DEF Rests, AnswerSound, IdleTask, At, Of

\* A process begins with s.
LEMMA BeginCancelled ==
    ASSUME Cancellations, Shape', NEW p \in Processes, NEW s \in Subs,
           NEW st \in {"process", "verify", "status", "stop", "check"},
           Idle(p), Fresh(p, s, st), Keeps, st = "process" => pending[s] > 0
    PROVE  Cancellations'
<1>1. OthersStay(p) /\ Of(p)' = s /\ task'[p].step = st /\ ~task'[p].issued
  BY DEF Fresh, Of
<1>2. /\ Local(p, s) /\ rule' = rule /\ pending' = pending /\ sub' = sub
  BY <1>1 DEF Keeps, Local, Faultless
<1>3. AnswerSound(p)' /\ ~Restoring(p)
  BY <1>1 DEF AnswerSound, Restoring, At, Idle
<1>4. ASSUME StaysCancelled(s) PROVE KeepsCancelled(p, s)
  <2>1. CleanTask(p)'
    BY <1>1, <1>4 DEF CleanTask, StaysCancelled, Fresh, Marked
  <2> QED
    BY <1>2, <1>3, <1>4, <2>1 DEF StaysCancelled, KeepsCancelled, Marked
<1> QED
  BY <1>1, <1>2, <1>3, <1>4, CancellationsKept

\* A webhook request: the late renewal clears the mark and remembers to set it.
LEMMA WebhookCancelled ==
    ASSUME Cancellations, Shape', NEW h \in Handlers, Webhook(h)
    PROVE  Cancellations'
<1> h \in Processes /\ TypeOK /\ Shape /\ Answers
  BY DEF Processes, Cancellations, Answers, Shape
<1> {"process", "recover", "recovered", "verify"} \subseteq Steps
  BY DEF Steps
<1> PICK x : x = Of(h)
  OBVIOUS
<1>1. ASSUME NEW s \in Subs, ReadContext(h, s)
      PROVE  Cancellations'
  <2>1. Idle(h) /\ Keeps /\ pending[s] > 0
    BY <1>1 DEF ReadContext
  <2>2. Fresh(h, s, "process")
    BY <1>1, FreshTasks
  <2> QED
    BY <2>1, <2>2, BeginCancelled
<1>2. ASSUME NEW st \in {"process", "recover", "recovered"}, At(h, st)
      PROVE  x \in Subs /\ sub[x] \in SubscriptionRow
  BY <1>2, BusyRow DEF Steps
<1>3. ASSUME At(h, "process"), pending[x] > 0, Goto(h, AfterApproval(h)),
             pending' = [pending EXCEPT ![x] = @ - 1],
             \/ sub' = sub
             \/ sub' = [sub EXCEPT ![x] = ExtendSubscription(@, BillingMonths, now)],
             UNCHANGED <<now, rule, cancelled, failures, crashes>>
      PROVE  Cancellations'
  <2>1. x \in Subs /\ sub[x] \in SubscriptionRow
    BY <1>2, <1>3
  <2>2. AfterApproval(h) \in {"recover", "verify"}
    BY DEF AfterApproval
  <2>3. Goes(h, AfterApproval(h), task[h].answer, task[h].issued)
    BY <1>3, <2>2, TaskMoves DEF TypeOK, Task
  <2>4. Local(h, x) /\ pending'[x] = pending[x] - 1 /\ pending[x] \in Nat
    BY <1>3, <2>1, <2>3 DEF Local, Goes, Faultless, TypeOK
  <2>5. AnswerSound(h)' /\ Of(h)' = x
    BY <2>2, <2>3 DEF AnswerSound, Goes, At, Of
  <2>6. ASSUME StaysCancelled(x) PROVE KeepsCancelled(h, x)
    <3>1. pending'[x] = 0 /\ rule'[x] \notin Chargeable /\ task[h].preserve
      BY <1>3, <2>1, <2>4, <2>6 DEF StaysCancelled, CleanTask, At
    <3>2. AfterApproval(h) = "recover"
      BY <3>1 DEF AfterApproval
    <3>3. Restoring(h)' /\ CleanTask(h)'
      BY <2>3, <3>1, <3>2 DEF Restoring, CleanTask, Goes, At
    <3> QED
      BY <2>5, <3>1, <3>3 DEF KeepsCancelled
  <2> QED
    BY <2>1, <2>4, <2>5, <2>6, CancellationsKept
<1>4. CASE ProcessApproved(h)
  BY <1>3, <1>4 DEF ProcessApproved
<1>5. CASE ProcessMismatched(h)
  BY <1>3, <1>5 DEF ProcessMismatched
<1>6. CASE AlreadyProcessed(h)
  <2>1. Rests(h) /\ Keeps /\ x \in Subs /\ At(h, "process")
    BY <1>2, <1>6, TaskMoves DEF AlreadyProcessed, RecurringStatus
  <2>2. ~Restoring(h)
    BY <2>1 DEF Restoring, At
  <2> QED
    BY <2>1, <2>2, RestSound, KeepsLocal, CancellationsKept
       DEF KeepsCancelled, StaysCancelled, Marked
<1>7. CASE CallRecover(h)
  <2>1. x \in Subs /\ At(h, "recover")
    BY <1>2, <1>7 DEF CallRecover
  <2>2. PICK a \in {"suspended", "active", "check_failed"} :
              /\ Answered(h, "recovered", a)
              /\ \/ task[h].preserve /\ a = "suspended" /\ SuspendSucceeds(h)
                 \/ task[h].preserve /\ a = "check_failed" /\ SuspendFails(h)
                 \/ ~task[h].preserve /\ a # "suspended" /\ Resumes(h)
    BY <1>7 DEF CallRecover, Resumes
  <2>3. Goes(h, "recovered", a, task[h].issued)
    BY <2>2, TaskMoves DEF RecurringStatus
  <2>4. OthersStay(h) /\ Of(h)' = x /\ AnswerSound(h)'
    BY <2>2, <2>3 DEF Goes, AnswerSound, At, Of
  <2>5. /\ Local(h, x) /\ sub' = sub /\ pending' = pending
        /\ task[h].preserve => (rule'[x] \in Chargeable => rule[x] \in Chargeable)
        /\ task[h].preserve /\ Faultless' => a = "suspended"
    BY <2>1, <2>2, <2>4, CallLocal DEF Suspends
  <2>6. ASSUME StaysCancelled(x) PROVE KeepsCancelled(h, x)
    <3>1. task[h].preserve
      BY <2>1, <2>6 DEF StaysCancelled, CleanTask, At
    <3>2. CleanTask(h)' /\ (Faultless' => Restoring(h)')
      BY <2>3, <2>5, <3>1 DEF CleanTask, Restoring, Goes, At
    <3> QED
      BY <2>4, <2>5, <2>6, <3>1, <3>2 DEF KeepsCancelled, StaysCancelled, Marked
  <2> QED
    BY <2>1, <2>4, <2>5, <2>6, CancellationsKept
<1>8. CASE CommitRecover(h)
  <2>1. /\ x \in Subs /\ sub[x] \in SubscriptionRow /\ At(h, "recovered")
        /\ task[h].answer \in {"suspended", "active", "check_failed"}
        /\ Goto(h, "verify") /\ Rewrites(h, RecoveredRow(sub[x], task[h].answer))
    BY <1>2, <1>8 DEF CommitRecover, Shape, TaskSound
  <2>2. Goes(h, "verify", task[h].answer, task[h].issued)
    BY <2>1, TaskMoves DEF TypeOK, Task
  <2>3. OthersStay(h) /\ Of(h)' = x /\ AnswerSound(h)' /\ CleanTask(h)'
    BY <2>2 DEF Goes, AnswerSound, CleanTask, At, Of
  <2>4. /\ Local(h, x) /\ rule' = rule /\ pending' = pending
        /\ sub'[x] = RecoveredRow(sub[x], task[h].answer)
    BY <2>1, <2>3, RewriteLocal
  <2>5. /\ task[h].answer = "suspended" => Marked(x)'
        /\ Marked(x) => Marked(x)'
    <3> DEFINE row == RecoveredRow(sub[x], task[h].answer)
    <3>1. row.cancel_at_period_end = (Marked(x) \/ task[h].answer = "suspended")
      BY <2>1, RecoveredMarked DEF Marked
    <3>2. Marked(x)' = row.cancel_at_period_end
      BY <2>4 DEF Marked
    <3> HIDE DEF row
    <3> QED
      BY <3>1, <3>2
  <2>6. ASSUME StaysCancelled(x) PROVE KeepsCancelled(h, x)
    <3>1. ~Marked(x)' => ~Marked(x) /\ ~Restoring(h)
      BY <2>1, <2>5 DEF Restoring, At
    <3> QED
      BY <2>3, <2>4, <2>5, <2>6, <3>1 DEF KeepsCancelled, StaysCancelled, Marked
  <2> QED
    BY <2>1, <2>3, <2>4, <2>6, CancellationsKept
<1> QED
  BY <1>1, <1>4, <1>5, <1>6, <1>7, <1>8 DEF Webhook

\* A process that neither applies a renewal nor restores a mark.
LEMMA SettledCancelled ==
    ASSUME Cancellations, Shape', NEW p \in Processes, NEW x \in Subs, x = Of(p),
           Local(p, x), pending' = pending, Marked(x)' = Marked(x),
           Faultless' => ~Restoring(p),
           AnswerSound(p)', \A s \in Subs \ {x} : Of(p)' # s,
           StaysCancelled(x) => /\ rule'[x] \in Chargeable => rule[x] \in Chargeable
                                /\ Of(p)' = x => CleanTask(p)'
    PROVE  Cancellations'
<1>1. ASSUME StaysCancelled(x) PROVE KeepsCancelled(p, x)
  BY <1>1 DEF KeepsCancelled, StaysCancelled, Marked
<1> QED
  BY <1>1, CancellationsKept

\* The STATUS check and its alert.
LEMMA VerificationCancelled ==
    ASSUME Cancellations, Shape', NEW p \in Processes, Verification(p)
    PROVE  Cancellations'
<1> TypeOK /\ Shape
  BY DEF Cancellations, Answers, Shape
<1> {"verify", "verified", "alert"} \subseteq Steps \ {"idle"}
  BY DEF Steps
<1> PICK x : x = Of(p)
  OBVIOUS
<1>1. ASSUME NEW st \in {"verify", "verified", "alert"}, At(p, st)
      PROVE  /\ x \in Subs /\ sub[x] \in SubscriptionRow /\ rule[x] \in RecurringStatus
             /\ task[p].answer \in RecurringStatus /\ ~Restoring(p)
  BY <1>1, BusyRow DEF Restoring, At, RuleStatus, RecurringStatus, TypeOK, Task
<1>2. ASSUME NEW st \in {"verified", "alert"}, NEW a, NEW i, Goes(p, st, a, i)
      PROVE  OthersStay(p) /\ Of(p)' = x /\ AnswerSound(p)' /\ CleanTask(p)'
  BY <1>2 DEF Goes, AnswerSound, CleanTask, At, Of
<1>3. CASE CallVerify(p)
  <2>1. At(p, "verify") /\ Asks
    BY <1>3 DEF CallVerify, Asks
  <2>2. \E a \in RecurringStatus : Goes(p, "verified", a, task[p].issued)
    BY <1>1, <1>3, TaskMoves DEF CallVerify, RecurringStatus
  <2> QED
    BY <1>1, <1>2, <2>1, <2>2, CallLocal, SettledCancelled DEF Marked
<1>4. ASSUME NEW row, Rewrites(p, row), Finish(p) \/ Goto(p, "alert"), x \in Subs,
             ~Restoring(p), row.cancel_at_period_end = Marked(x)
      PROVE  Cancellations'
  <2>1. Rests(p) \/ Goes(p, "alert", task[p].answer, task[p].issued)
    BY <1>4, TaskMoves DEF TypeOK, Task
  <2>2. OthersStay(p) /\ AnswerSound(p)' /\ (Of(p)' = x => CleanTask(p)')
        /\ \A s \in Subs \ {x} : Of(p)' # s
    BY <1>2, <1>4, <2>1, RestSound
  <2>3. Local(p, x) /\ rule' = rule /\ pending' = pending /\ sub'[x] = row
    BY <1>4, <2>2, RewriteLocal
  <2> QED
    BY <1>4, <2>2, <2>3, SettledCancelled DEF Marked
<1>5. CASE CommitVerify(p)
  <2>1. x \in Subs /\ ~Restoring(p) /\ (Finish(p) \/ Goto(p, "alert"))
        /\ Rewrites(p, RecordVerified(sub[x], task[p].answer))
    BY <1>1, <1>5 DEF CommitVerify
  <2>2. RecordVerified(sub[x], task[p].answer).cancel_at_period_end = Marked(x)
    BY <1>1, <1>5, RowMarked DEF CommitVerify, Marked
  <2> QED
    BY <1>4, <2>1, <2>2
<1>6. CASE RaiseAlert(p)
  <2> DEFINE due == /\ sub[x].provider_recurring_status = task[p].answer
                    /\ ~sub[x].provider_recurring_alerted_at
             row == [sub[x] EXCEPT !.provider_recurring_alerted_at = @ \/ due]
  <2>1. x \in Subs /\ ~Restoring(p) /\ Finish(p) /\ Rewrites(p, row)
    BY <1>1, <1>6 DEF RaiseAlert
  <2>2. row.cancel_at_period_end = Marked(x)
    BY <1>1, <1>6 DEF RaiseAlert, SubscriptionRow, Marked
  <2> HIDE DEF due, row
  <2> QED
    BY <1>4, <2>1, <2>2
<1> QED
  BY <1>3, <1>5, <1>6 DEF Verification

\* The worker begins, or alerts the administrators.
LEMMA WorkerBeginsCancelled ==
    ASSUME Cancellations, Shape', NEW s \in Subs,
           BeginAudit(s) \/ BeginExpire(s) \/ AlertShutdownFailure(s)
    PROVE  Cancellations'
<1> Worker \in Processes /\ TypeOK
  BY DEF Processes, Cancellations, Answers, Shape
<1>1. CASE BeginAudit(s)
  <2>1. Idle(Worker) /\ Keeps /\ Fresh(Worker, s, "verify")
    BY <1>1, FreshTasks DEF BeginAudit, Start, Steps
  <2> QED
    BY <2>1, BeginCancelled
<1>2. CASE BeginExpire(s)
  <2>1. now - Grace \in Nat
    BY <1>2, RecurringAssumption DEF BeginExpire, TypeOK
  <2>2. Idle(Worker) /\ Keeps /\ Fresh(Worker, s, "status")
    BY <1>2, <2>1, FreshTasks DEF BeginExpire, Steps
  <2> QED
    BY <2>2, BeginCancelled
<1>3. CASE AlertShutdownFailure(s)
  <2>1. /\ UNCHANGED <<rule, pending, task, cancelled, failures, crashes>>
        /\ \A t \in Subs : Marked(t)' = Marked(t)
    BY <1>3 DEF AlertShutdownFailure, Marked, TypeOK, SubscriptionRow
  <2>2. \A p \in Processes : /\ AnswerSound(p)' = AnswerSound(p)
                              /\ CleanTask(p)' = CleanTask(p)
                              /\ Restoring(p)' = Restoring(p) /\ Of(p)' = Of(p)
    BY <2>1 DEF AnswerSound, CleanTask, Restoring, At, Of, Faultless
  <2>3. \A t \in Subs : StaysCancelled(t) => StaysCancelled(t)'
    BY <2>1, <2>2 DEF StaysCancelled, Marked, Faultless
  <2> QED
    BY <2>1, <2>2, <2>3 DEF Cancellations, Answers, CleanInv
<1> QED
  BY <1>1, <1>2, <1>3

\* The expiration: the worker has no rule to stop, hence none to resume.
LEMMA ExpirationCancelled ==
    ASSUME Cancellations, Shape', Expiration
    PROVE  Cancellations'
<1> Worker \in Processes /\ TypeOK /\ Shape
  BY DEF Processes, Cancellations, Answers, Shape
<1> ExpirationSteps \subseteq Steps \ {"idle"}
  BY DEF Steps, ExpirationSteps
<1> /\ {"suspended", "check_failed"} \cup RuleStatus \subseteq RecurringStatus
    /\ TerminalStatus \cap Chargeable = {} /\ "suspended" \in TerminalStatus
  BY DEF RecurringStatus, RuleStatus, TerminalStatus, Chargeable
<1> PICK x : x = Of(Worker)
  OBVIOUS
<1>1. ASSUME NEW st \in ExpirationSteps, At(Worker, st)
      PROVE  /\ x \in Subs /\ sub[x] \in SubscriptionRow /\ rule[x] \in RecurringStatus
             /\ ~Restoring(Worker) /\ AnswerSound(Worker)
             /\ StaysCancelled(x) => CleanTask(Worker) /\ rule[x] \notin Chargeable
  BY <1>1, BusyRow DEF Restoring, At, ExpirationSteps, RuleStatus, RecurringStatus,
                       StaysCancelled, Cancellations, Answers
<1>2. task[Worker].answer \in RecurringStatus
  BY DEF TypeOK, Task
<1>3. ASSUME Rests(Worker) \/ \E st, a, i : Goes(Worker, st, a, i)
      PROVE  OthersStay(Worker) /\ \A s \in Subs \ {x} : Of(Worker)' # s
  BY <1>3, RestSound DEF Goes, Of
<1>4. ASSUME NEW st \in ExpirationSteps, At(Worker, st),
             Suspends(Worker) \/ Resumes(Worker) \/ Asks \/ Keeps,
             Rests(Worker) \/ \E u, a, i : Goes(Worker, u, a, i),
             AnswerSound(Worker)',
             StaysCancelled(x) => /\ ~Resumes(Worker) \/ Keeps
                                  /\ Of(Worker)' = x => CleanTask(Worker)'
      PROVE  Cancellations'
  <2>1. CASE Keeps
    BY <1>1, <1>3, <1>4, <2>1, KeepsLocal, SettledCancelled DEF Marked
  <2>2. CASE ~Keeps
    <3>1. /\ Local(Worker, x) /\ sub' = sub /\ pending' = pending
          /\ ~Resumes(Worker) => (rule'[x] \in Chargeable => rule[x] \in Chargeable)
      BY <1>1, <1>3, <1>4, <2>2, CallLocal DEF Suspends
    <3> QED
      BY <1>1, <1>3, <1>4, <2>2, <3>1, SettledCancelled DEF Marked
  <2> QED
    BY <2>1, <2>2
<1>5. ASSUME NEW st \in ExpirationSteps, At(Worker, st), NEW row, Rewrites(Worker, row),
             row.cancel_at_period_end = sub[x].cancel_at_period_end,
             Finish(Worker) \/ Goto(Worker, "revoke")
      PROVE  Cancellations'
  <2>1. \/ Rests(Worker)
        \/ Goes(Worker, "revoke", task[Worker].answer, task[Worker].issued)
    BY <1>2, <1>5, TaskMoves DEF ExpirationSteps, Steps
  <2>2. AnswerSound(Worker)' /\ (Of(Worker)' = x => CleanTask(Worker)')
    BY <1>1, <1>5, <2>1, RestSound DEF AnswerSound, CleanTask, Goes, At
  <2>3. /\ Local(Worker, x) /\ rule' = rule /\ pending' = pending /\ sub'[x] = row
    BY <1>1, <1>3, <1>5, <2>1, RewriteLocal
  <2> QED
    BY <1>1, <1>3, <1>5, <2>1, <2>2, <2>3, SettledCancelled DEF Marked
<1>6. CASE CallExpireStatus
  <2>1. At(Worker, "status") /\ Asks
    BY <1>6 DEF CallExpireStatus, Asks
  <2>2. \/ Goes(Worker, "failed", "check_failed", task[Worker].issued)
        \/ rule[x] \in Chargeable /\ Goes(Worker, "suspend", rule[x], task[Worker].issued)
        \/ /\ rule[x] \in TerminalStatus
           /\ Goes(Worker, "shutdown", rule[x], task[Worker].issued)
    BY <1>1, <1>6, TaskMoves DEF CallExpireStatus, ExpirationSteps
  <2>3. ~task[Worker].issued /\ AnswerSound(Worker)'
    BY <1>1, <2>1, <2>2 DEF AnswerSound, Goes, At, ExpirationSteps
  <2>4. StaysCancelled(x) => CleanTask(Worker)'
    BY <1>1, <2>1, <2>2, <2>3 DEF CleanTask, Goes, At, ExpirationSteps
  <2> QED
    BY <1>1, <1>3, <2>1, <2>2, <2>3, <2>4, CallLocal, SettledCancelled
       DEF Marked, ExpirationSteps
<1>7. CASE CallExpireSuspend
  <2>1. At(Worker, "suspend") /\ Suspends(Worker)
    BY <1>7 DEF CallExpireSuspend, Suspends
  <2>2. \/ Goes(Worker, "failed", task[Worker].answer, task[Worker].issued)
           /\ SuspendFails(Worker)
        \/ Goes(Worker, "shutdown", "suspended", TRUE)
    BY <1>2, <1>7, TaskMoves DEF CallExpireSuspend, ExpirationSteps
  <2>3. SuspendFails(Worker) => ~Faultless'
    BY <1>1, <1>3, <2>1, <2>2, CallLocal DEF ExpirationSteps
  <2>4. AnswerSound(Worker)'
    BY <2>2, <2>3 DEF AnswerSound, Goes, At
  <2>5. ~StaysCancelled(x)
    BY <1>1, <2>1 DEF CleanTask, At, ExpirationSteps
  <2> QED
    BY <1>4, <2>1, <2>2, <2>4, <2>5 DEF ExpirationSteps
<1>8. CASE CommitShutdown
  BY <1>1, <1>2, <1>5, <1>8, RowMarked DEF CommitShutdown, ExpirationSteps
<1>9. CASE OvertakenShutdown
  <2>1. At(Worker, "shutdown") /\ Keeps
    BY <1>9 DEF OvertakenShutdown
  <2>2. \/ Rests(Worker)
        \/ /\ task[Worker].issued
           /\ Goes(Worker, "resume", task[Worker].answer, task[Worker].issued)
    BY <1>2, <1>9, TaskMoves DEF OvertakenShutdown, ExpirationSteps
  <2>3. AnswerSound(Worker)'
    BY <2>2, RestSound DEF AnswerSound, Goes, At
  <2>4. StaysCancelled(x) /\ Of(Worker)' = x => CleanTask(Worker)'
    BY <1>1, <2>1, <2>2, RestSound DEF CleanTask, At, ExpirationSteps
  <2> QED
    BY <1>4, <2>1, <2>2, <2>3, <2>4 DEF ExpirationSteps
<1>10. CASE CallExpireResume
  <2>1. At(Worker, "resume") /\ Resumes(Worker)
    BY <1>10 DEF CallExpireResume, Resumes
  <2>2. \/ Goes(Worker, "resumed", task[Worker].answer, task[Worker].issued)
        \/ Goes(Worker, "failed", "suspended", task[Worker].issued)
    BY <1>2, <1>10, TaskMoves DEF CallExpireResume, ExpirationSteps
  <2>3. AnswerSound(Worker)'
    BY <2>2 DEF AnswerSound, Goes, At
  <2>4. ~StaysCancelled(x)
    BY <1>1, <2>1 DEF CleanTask, At, ExpirationSteps
  <2> QED
    BY <1>4, <2>1, <2>2, <2>3, <2>4 DEF ExpirationSteps
<1>11. CASE CommitResumed
  BY <1>1, <1>2, <1>5, <1>11, RowMarked DEF CommitResumed, ExpirationSteps
<1>12. CASE CommitShutdownFailure
  BY <1>1, <1>2, <1>5, <1>12, RowMarked DEF CommitShutdownFailure, ExpirationSteps
<1>13. CASE Revoke
  <2>1. At(Worker, "revoke") /\ Finish(Worker)
    BY <1>13 DEF Revoke
  <2>2. PICK removed \in BOOLEAN :
            Rewrites(Worker, IF StillDue THEN ExpireSubscription(sub[x], removed)
                             ELSE sub[x])
    BY <1>13 DEF Revoke
  <2>3. ExpireSubscription(sub[x], removed).cancel_at_period_end
            = sub[x].cancel_at_period_end
    BY <1>1, <2>1, RowEntitled DEF ExpirationSteps
  <2> QED
    BY <1>5, <2>1, <2>2, <2>3 DEF ExpirationSteps
<1>14. CASE RevokeFails
  <2>1. /\ At(Worker, "revoke") /\ ~Faultless' /\ Finish(Worker)
        /\ UNCHANGED <<now, sub, rule, pending, cancelled, crashes>>
    BY <1>14 DEF RevokeFails, Fails, Faultless, TypeOK
  <2>2. Rests(Worker)
    BY <1>2, <2>1, TaskMoves DEF ExpirationSteps
  <2>3. Local(Worker, x)
    BY <1>3, <2>1, <2>2 DEF Local
  <2> QED
    BY <1>1, <1>3, <2>1, <2>2, <2>3, RestSound, SettledCancelled DEF Marked, ExpirationSteps
<1> QED
  BY <1>6, <1>7, <1>8, <1>9, <1>10, <1>11, <1>12, <1>13, <1>14 DEF Expiration

\* The member's cancellation: it is clean only if nobody else is at work.
LEMMA CancellationCancelled ==
    ASSUME Cancellations, Shape', NEW m \in Members,
           Cancellation(m) \/ \E s \in Subs : BeginCancel(m, s)
    PROVE  Cancellations'
<1> m \in Processes /\ TypeOK /\ Shape
  BY DEF Processes, Cancellations, Answers, Shape
<1> {"stop", "cancel"} \subseteq Steps \ {"idle"}
  BY DEF Steps
<1> PICK x : x = Of(m)
  OBVIOUS
<1>1. ASSUME NEW s \in Subs, BeginCancel(m, s)
      PROVE  Cancellations'
  <2>1. Idle(m) /\ Keeps /\ Fresh(m, s, "stop")
    BY <1>1, FreshTasks DEF BeginCancel, Start
  <2> QED
    BY <2>1, BeginCancelled
<1>2. CASE CallCancelSuspend(m)
  <2>1. x \in Subs /\ Suspends(m) /\ ~Restoring(m)
    BY <1>2, BusyRow DEF CallCancelSuspend, Suspends, Restoring, At
  <2>2. Rests(m) \/ Goes(m, "cancel", task[m].answer, task[m].issued)
    BY <1>2, TaskMoves DEF CallCancelSuspend, TypeOK, Task
  <2>3. /\ OthersStay(m) /\ AnswerSound(m)' /\ (Of(m)' = x => CleanTask(m)')
        /\ \A s \in Subs \ {x} : Of(m)' # s
    BY <2>1, <2>2, RestSound DEF Goes, AnswerSound, CleanTask, At, Of
  <2>4. /\ Local(m, x) /\ sub' = sub /\ pending' = pending
        /\ rule'[x] \in Chargeable => rule[x] \in Chargeable
    BY <2>1, <2>3, CallLocal DEF Suspends
  <2> QED
    BY <2>1, <2>3, <2>4, SettledCancelled DEF Marked
<1>3. CASE CommitCancel(m)
  <2>1. /\ Rests(m) /\ At(m, "cancel") /\ ~Restoring(m)
        /\ UNCHANGED <<now, rule, pending, failures, crashes>>
    BY <1>3, TaskMoves DEF CommitCancel, Restoring, At, RecurringStatus
  <2>2. PICK marked \in Subs \cup {None} :
            /\ cancelled' = CancelledAfter(m, marked)
            /\ \A s \in Subs \ {marked} : sub'[s] = sub[s]
            /\ marked \in Subs => sub'[marked] = CancelAtPeriodEnd(sub[marked], "suspended")
    <3>1. CASE Current = {} /\ UNCHANGED sub /\ cancelled' = CancelledAfter(m, None)
      BY <3>1, RecurringAssumption
    <3>2. ASSUME NEW s \in Current, cancelled' = CancelledAfter(m, s),
                 sub' = [sub EXCEPT ![s] = CancelAtPeriodEnd(@, "suspended")]
          PROVE  \E marked \in Subs \cup {None} :
                    /\ cancelled' = CancelledAfter(m, marked)
                    /\ \A t \in Subs \ {marked} : sub'[t] = sub[t]
                    /\ marked \in Subs =>
                          sub'[marked] = CancelAtPeriodEnd(sub[marked], "suspended")
      <4>1. s \in Subs
        BY DEF Current
      <4>2. /\ \A t \in Subs \ {s} : sub'[t] = sub[t]
            /\ sub'[s] = CancelAtPeriodEnd(sub[s], "suspended")
        BY <3>2, <4>1 DEF TypeOK
      <4> QED
        BY <3>2, <4>1, <4>2
    <3> QED
      BY <1>3, <3>1, <3>2 DEF CommitCancel
  <2>3. /\ OthersStay(m) /\ (\A s \in Subs : Of(m)' # s)
        /\ Faultless' = Faultless /\ AnswerSound(m)'
    BY <2>1, RestSound DEF Faultless
  <2>4. ASSUME NEW q \in Processes \ {m}
        PROVE  /\ Of(q)' = Of(q) /\ AnswerSound(q)'
               /\ CleanTask(q)' = CleanTask(q) /\ Restoring(q)' = Restoring(q)
    BY <2>3, <2>4 DEF OthersStay, Cancellations, Answers, AnswerSound, CleanTask,
                      Restoring, At, Of
  <2>5. ASSUME NEW s \in Subs, cancelled'[s] = "clean" PROVE StaysCancelled(s)'
    <3>1. CASE s = marked
      <4>1. Undisturbed(m, s)
        BY <2>2, <2>5, <3>1 DEF CancelledAfter
      <4>2. sub'[s].cancel_at_period_end
        BY <2>2, <3>1, RowMarked DEF TypeOK, RecurringStatus
      <4>3. \A q \in Processes : Of(q)' # s
        BY <2>3, <2>4, <4>1 DEF Undisturbed
      <4> QED
        BY <2>1, <4>1, <4>2, <4>3 DEF StaysCancelled, Undisturbed
    <3>2. CASE s # marked
      <4>1. cancelled[s] = "clean" /\ sub'[s] = sub[s]
        BY <2>2, <2>5, <3>2 DEF CancelledAfter
      <4>2. StaysCancelled(s)
        BY <4>1 DEF Cancellations, CleanInv
      <4>3. \A q \in Processes : Of(q)' = s => CleanTask(q)'
        BY <2>3, <2>4, <4>2 DEF StaysCancelled
      <4>4. \A q \in Processes : Of(q) = s /\ Restoring(q) => Of(q)' = s /\ Restoring(q)'
        BY <2>1, <2>4
      <4> QED
        BY <2>1, <2>3, <4>1, <4>2, <4>3, <4>4 DEF StaysCancelled
    <3> QED
      BY <3>1, <3>2
  <2> QED
    BY <2>3, <2>4, <2>5 DEF Cancellations, Answers, CleanInv
<1> QED
  BY <1>1, <1>2, <1>3 DEF Cancellation

\* The repair: what it finds cannot charge, so it has nothing to undo.
LEMMA RepairCancelled ==
    ASSUME Cancellations, Shape', NEW o \in Operators,
           Repair(o) \/ \E s \in Subs : BeginRepair(o, s)
    PROVE  Cancellations'
<1> o \in Processes /\ TypeOK /\ Shape
  BY DEF Processes, Cancellations, Answers, Shape
<1> RepairSteps \subseteq Steps \ {"idle"}
  BY DEF Steps, RepairSteps
<1> TerminalStatus \cap Chargeable = {} /\ "suspended" \in TerminalStatus
  BY DEF TerminalStatus, Chargeable
<1> PICK x : x = Of(o)
  OBVIOUS
<1>1. ASSUME NEW st \in RepairSteps, At(o, st)
      PROVE  /\ x \in Subs /\ sub[x] \in SubscriptionRow /\ rule[x] \in RecurringStatus
             /\ ~Restoring(o) /\ AnswerSound(o)
             /\ StaysCancelled(x) => CleanTask(o) /\ rule[x] \notin Chargeable
  BY <1>1, BusyRow DEF Restoring, At, RepairSteps, RuleStatus, RecurringStatus,
                       StaysCancelled, Cancellations, Answers
<1>2. task[o].answer \in RecurringStatus
  BY DEF TypeOK, Task
<1>3. ASSUME NEW st \in RepairSteps, At(o, st),
             Suspends(o) \/ Resumes(o) \/ Asks \/ Keeps,
             Rests(o) \/ \E u, a, i : Goes(o, u, a, i),
             AnswerSound(o)',
             StaysCancelled(x) => /\ Asks \/ Keeps
                                  /\ Of(o)' = x => CleanTask(o)'
      PROVE  Cancellations'
  <2>1. OthersStay(o) /\ \A s \in Subs \ {x} : Of(o)' # s
    BY <1>3, RestSound DEF Goes, Of
  <2>2. CASE Keeps
    BY <1>1, <1>3, <2>1, <2>2, KeepsLocal, SettledCancelled DEF Marked
  <2>3. CASE ~Keeps
    <3>1. /\ Local(o, x) /\ sub' = sub /\ pending' = pending
          /\ Asks => rule' = rule
      BY <1>1, <1>3, <2>1, <2>3, CallLocal
    <3> QED
      BY <1>1, <1>3, <2>1, <2>3, <3>1, SettledCancelled DEF Marked
  <2> QED
    BY <2>2, <2>3
<1>4. ASSUME NEW s \in Subs, BeginRepair(o, s)
      PROVE  Cancellations'
  <2>1. Idle(o) /\ Keeps /\ Fresh(o, s, "check")
    BY <1>4, FreshTasks DEF BeginRepair, Start, Steps
  <2> QED
    BY <2>1, BeginCancelled
<1>5. CASE CallCheck(o)
  <2>1. At(o, "check") /\ Asks
    BY <1>5 DEF CallCheck, Asks
  <2>2. \/ Rests(o)
        \/ rule[x] \in Chargeable /\ Goes(o, "recheck", rule[x], task[o].issued)
        \/ rule[x] \in TerminalStatus /\ Goes(o, "repaired", rule[x], task[o].issued)
    BY <1>1, <1>5, TaskMoves DEF CallCheck, RepairSteps, Chargeable
  <2>3. ~task[o].issued /\ AnswerSound(o)'
    BY <1>1, <2>1, <2>2, RestSound DEF AnswerSound, Goes, At, RepairSteps
  <2>4. StaysCancelled(x) /\ Of(o)' = x => CleanTask(o)'
    BY <1>1, <2>1, <2>2, <2>3, RestSound DEF CleanTask, Goes, At, RepairSteps
  <2> QED
    BY <1>3, <2>1, <2>2, <2>3, <2>4 DEF RepairSteps
<1>6. ASSUME NEW st \in {"recheck", "repair", "undo"}, At(o, st)
      PROVE  ~StaysCancelled(x)
  BY <1>1, <1>6 DEF CleanTask, At, RepairSteps
<1>7. CASE Recheck(o)
  <2>1. At(o, "recheck") /\ Keeps
    BY <1>7 DEF Recheck
  <2>2. Rests(o) \/ Goes(o, "repair", task[o].answer, task[o].issued)
    BY <1>2, <1>7, TaskMoves DEF Recheck, RepairSteps
  <2>3. AnswerSound(o)'
    BY <2>2, RestSound DEF AnswerSound, Goes, At
  <2> QED
    BY <1>3, <1>6, <2>1, <2>2, <2>3 DEF RepairSteps
<1>8. CASE CallRepair(o)
  <2>1. At(o, "repair") /\ Suspends(o)
    BY <1>8 DEF CallRepair, Suspends
  <2>2. Rests(o) \/ Goes(o, "repaired", "suspended", TRUE)
    BY <1>2, <1>8, TaskMoves DEF CallRepair, RepairSteps
  <2>3. AnswerSound(o)'
    BY <2>2, RestSound DEF AnswerSound, Goes, At
  <2> QED
    BY <1>3, <1>6, <2>1, <2>2, <2>3 DEF RepairSteps
<1>9. CASE CommitRepair(o)
  <2>1. At(o, "repaired")
    BY <1>9 DEF CommitRepair
  <2>2. CASE sub[x].status = "expired"
    <3> DEFINE row == RecordShutdown(sub[x], task[o].answer)
    <3>1. Rewrites(o, row) /\ Rests(o)
      BY <1>2, <1>9, <2>2, TaskMoves DEF CommitRepair, RepairSteps
    <3>2. row.cancel_at_period_end = Marked(x)
      BY <1>1, <1>2, <2>1, RowMarked DEF Marked, RepairSteps
    <3> HIDE DEF row
    <3>3. /\ Local(o, x) /\ rule' = rule /\ pending' = pending /\ sub'[x] = row
      BY <1>1, <2>1, <3>1, RestSound, RewriteLocal DEF RepairSteps
    <3> QED
      BY <1>1, <2>1, <3>1, <3>2, <3>3, RestSound, SettledCancelled
         DEF Marked, RepairSteps
  <2>3. CASE sub[x].status # "expired"
    <3>1. /\ Keeps
          /\ \/ Rests(o)
             \/ task[o].issued /\ Goes(o, "undo", task[o].answer, task[o].issued)
      BY <1>2, <1>9, <2>3, TaskMoves DEF CommitRepair, RepairSteps
    <3>2. AnswerSound(o)'
      BY <3>1, RestSound DEF AnswerSound, Goes, At
    <3>3. StaysCancelled(x) /\ Of(o)' = x => CleanTask(o)'
      BY <1>1, <2>1, <3>1, RestSound DEF CleanTask, At, RepairSteps
    <3> QED
      BY <1>3, <2>1, <3>1, <3>2, <3>3 DEF RepairSteps
  <2> QED
    BY <2>2, <2>3
<1>10. CASE CallUndo(o)
  <2>1. At(o, "undo") /\ Resumes(o) /\ Rests(o)
    BY <1>2, <1>10, TaskMoves DEF CallUndo, Resumes, RepairSteps
  <2> QED
    BY <1>3, <1>6, <2>1, RestSound DEF RepairSteps
<1> QED
  BY <1>4, <1>5, <1>7, <1>8, <1>9, <1>10 DEF Repair

\* The provider cannot charge, and nobody comes back from the dead.
LEMMA EnvironmentCancelled ==
    ASSUME Cancellations, Shape',
           \/ \E s \in Subs : ProviderCharges(s) \/ ProviderMovesRule(s)
           \/ \E p \in Processes : Crash(p)
           \/ Tick
           \/ UNCHANGED vars
    PROVE  Cancellations'
<1> TypeOK /\ Shape
  BY DEF Cancellations, Answers, Shape
<1>1. ASSUME UNCHANGED <<sub, task, cancelled, failures, crashes>>,
             \A s \in Subs : rule[s] \notin Chargeable =>
                                rule'[s] = rule[s] /\ pending'[s] = pending[s]
      PROVE  Cancellations'
  <2>1. \A p \in Processes : /\ AnswerSound(p)' = AnswerSound(p)
                              /\ CleanTask(p)' = CleanTask(p)
                              /\ Restoring(p)' = Restoring(p) /\ Of(p)' = Of(p)
    BY <1>1 DEF AnswerSound, CleanTask, Restoring, At, Of, Faultless
  <2>2. \A s \in Subs : StaysCancelled(s) => StaysCancelled(s)'
    BY <1>1, <2>1 DEF StaysCancelled, Faultless
  <2> QED
    BY <1>1, <2>1, <2>2 DEF Cancellations, Answers, CleanInv
<1>2. CASE \E s \in Subs : ProviderCharges(s) \/ ProviderMovesRule(s)
  BY <1>1, <1>2 DEF ProviderCharges, ProviderMovesRule, TypeOK, Chargeable
<1>3. ASSUME NEW p \in Processes, Crash(p)
      PROVE  Cancellations'
  <2>1. /\ Finish(p) /\ ~Faultless'
        /\ UNCHANGED <<sub, rule, pending, cancelled>>
    BY <1>3 DEF Crash, Faultless, TypeOK
  <2> Rests(p)
    BY <2>1, TaskMoves DEF RecurringStatus, Steps
  <2>2. \A q \in Processes : \/ task'[q] = task[q]
                             \/ AnswerSound(q)' /\ \A s \in Subs : Of(q)' # s
    BY <2>1, RestSound DEF OthersStay
  <2>3. \A q \in Processes : AnswerSound(q)'
    BY <2>1, <2>2 DEF AnswerSound, Cancellations, Answers, At
  <2>4. \A s \in Subs, q \in Processes :
            Of(q)' = s => Of(q) = s /\ CleanTask(q)' = CleanTask(q)
    BY <2>2 DEF CleanTask, Of
  <2>5. \A s \in Subs : StaysCancelled(s) => StaysCancelled(s)'
    BY <2>1, <2>4 DEF StaysCancelled
  <2> QED
    BY <2>1, <2>3, <2>5 DEF Cancellations, Answers, CleanInv
<1>4. CASE Tick \/ UNCHANGED vars
  BY <1>1, <1>4 DEF Tick, vars
<1> QED
  BY <1>2, <1>3, <1>4

\* Every step keeps what was cancelled cleanly.
LEMMA CancellationsStep == Cancellations /\ [Next]_vars => Cancellations'
<1> SUFFICES ASSUME Cancellations, [Next]_vars PROVE Cancellations'
  OBVIOUS
<1>1. Shape'
  BY ShapeStep DEF Cancellations, Answers, ShapeMoves
<1>2. CASE \E h \in Handlers : Webhook(h)
  BY <1>1, <1>2, WebhookCancelled
<1>3. CASE \E p \in Handlers \cup {Worker} : Verification(p)
  BY <1>1, <1>3, VerificationCancelled DEF Processes
<1>4. CASE \E s \in Subs : BeginAudit(s) \/ BeginExpire(s) \/ AlertShutdownFailure(s)
  BY <1>1, <1>4, WorkerBeginsCancelled
<1>5. CASE Expiration
  BY <1>1, <1>5, ExpirationCancelled
<1>6. CASE \E m \in Members : Cancellation(m) \/ \E s \in Subs : BeginCancel(m, s)
  BY <1>1, <1>6, CancellationCancelled
<1>7. CASE \E o \in Operators : Repair(o) \/ \E s \in Subs : BeginRepair(o, s)
  BY <1>1, <1>7, RepairCancelled
<1>8. CASE \/ \E s \in Subs : ProviderCharges(s) \/ ProviderMovesRule(s)
           \/ \E p \in Processes : Crash(p)
           \/ Tick
           \/ UNCHANGED vars
  BY <1>1, <1>8, EnvironmentCancelled
<1> QED
  BY <1>2, <1>3, <1>4, <1>5, <1>6, <1>7, <1>8 DEF Next

\* Nobody has cancelled in the beginning.
LEMMA CancellationsInit == Init => Cancellations
<1> SUFFICES ASSUME Init PROVE Cancellations
  OBVIOUS
<1>1. \A p \in Processes : AnswerSound(p)
  BY DEF Init, IdleTask, AnswerSound, At
<1>2. CleanInv
  BY DEF Init, CleanInv
<1> QED
  BY <1>1, <1>2, ShapeInit DEF Cancellations, Answers

\* Whatever fails, is lost or arrives late, for every amount and every number of
\* processes: a cancellation that committed undisturbed keeps the rule stopped for
\* good, and stays on the row as long as nothing fails.
THEOREM CleanCancellationsHold == Spec => []CleanCancellationHolds
<1>1. Cancellations => CleanCancellationHolds
  BY DEF Cancellations, CleanInv, StaysCancelled, CleanCancellationHolds,
         CleanCancellationStops, CleanCancellationStays, Unattended
<1> QED
  BY <1>1, CancellationsInit, CancellationsStep, PTL DEF Spec

-----------------------------------------------------------------------------
(***************************************************************************)
(* The row is honest                                                       *)
(***************************************************************************)
\* The invariant of the fourth part.
Audits == \A p \in Processes : AuditSound(p)
Honesty == Rules /\ Cancellations /\ Audits /\ HonestInv

\* What p may do to a subscription x that nobody has cancelled: if the rule is
\* suspended afterwards and p is not to undo it, then either it was so before, and p
\* writes nothing that others did not, or p has told and nobody else is to tell.
KeepsHonest(p, x) ==
    /\ ~Marked(x)'
    /\ Of(p)' = x => ~task'[p].preserve
    /\ (/\ Faultless' /\ rule'[x] = "suspended"
        /\ Of(p)' = x => ~Stopping(p)') =>
          \/ /\ rule[x] = "suspended" /\ (Of(p) = x => ~Stopping(p))
             /\ Said(x) # "active" /\ (Of(p) = x => ~Claiming(p)) =>
                    Said(x)' # "active" /\ (Of(p)' = x => ~Claiming(p)')
          \/ /\ Said(x)' # "active" /\ (Of(p)' = x => ~Claiming(p)')
             /\ \A q \in Processes \ {p} : Of(q) = x => ~Claiming(q)

\* Another process keeps its part in this.
LEMMA OthersHonest ==
    ASSUME NEW q, task'[q] = task[q]
    PROVE  /\ Stopping(q)' = Stopping(q) /\ Claiming(q)' = Claiming(q)
           /\ Of(q)' = Of(q)
  BY DEF Stopping, Claiming, At, Of

\* A process at work on x makes no row dishonest but that of x.
LEMMA HonestKept ==
    ASSUME HonestInv, NEW p \in Processes, NEW x \in Subs, Local(p, x),
           \A s \in Subs \ {x} : /\ Of(p)' # s
                                 /\ Of(p) = s => ~Stopping(p),
           cancelled[x] = "no" /\ StaysHonest(x) => KeepsHonest(p, x)
    PROVE  HonestInv'
<1>1. ASSUME NEW q \in Processes \ {p}
      PROVE  /\ task'[q] = task[q] /\ Of(q)' = Of(q)
             /\ Stopping(q)' = Stopping(q) /\ Claiming(q)' = Claiming(q)
  BY <1>1, OthersHonest DEF Local, OthersStay
<1>2. ASSUME NEW s \in Subs \ {x}, cancelled'[s] = "no"
      PROVE  StaysHonest(s)'
  <2>1. /\ StaysHonest(s) /\ (Faultless' => Faultless)
        /\ sub'[s] = sub[s] /\ rule'[s] = rule[s]
    BY <1>2 DEF Local, HonestInv
  <2>2. ASSUME NEW q \in Processes, Of(q)' = s
        PROVE  Of(q) = s /\ task'[q] = task[q] /\ Claiming(q)' = Claiming(q)
    BY <1>1, <1>2, <2>2
  <2>3. ASSUME \A q \in Processes : Of(q)' = s => ~Stopping(q)'
        PROVE  \A q \in Processes : Of(q) = s => ~Stopping(q)
    BY <1>1, <1>2, <2>3
  <2> QED
    BY <2>1, <2>2, <2>3 DEF StaysHonest
<1>3. ASSUME cancelled'[x] = "no" PROVE StaysHonest(x)'
  <2>1. StaysHonest(x) /\ KeepsHonest(p, x) /\ (Faultless' => Faultless)
    BY <1>3 DEF Local, HonestInv
  <2>2. ASSUME NEW q \in Processes, Of(q)' = x PROVE ~task'[q].preserve
    BY <1>1, <2>1, <2>2 DEF StaysHonest, KeepsHonest
  <2>3. ASSUME Faultless', rule'[x] = "suspended",
               \A q \in Processes : Of(q)' = x => ~Stopping(q)'
        PROVE  Said(x)' # "active" /\ \A q \in Processes : Of(q)' = x => ~Claiming(q)'
    <3>1. \A q \in Processes \ {p} : Of(q) = x => ~Stopping(q)
      BY <1>1, <2>3
    <3>2. CASE rule[x] = "suspended" /\ (Of(p) = x => ~Stopping(p))
      <4>1. Said(x) # "active" /\ \A q \in Processes : Of(q) = x => ~Claiming(q)
        BY <2>1, <2>3, <3>1, <3>2 DEF StaysHonest, Said
      <4> QED
        BY <1>1, <2>1, <2>3, <4>1 DEF KeepsHonest
    <3>3. CASE ~(rule[x] = "suspended" /\ (Of(p) = x => ~Stopping(p)))
      <4>1. /\ Said(x)' # "active" /\ (Of(p)' = x => ~Claiming(p)')
            /\ \A q \in Processes \ {p} : Of(q) = x => ~Claiming(q)
        BY <2>1, <2>3, <3>3 DEF KeepsHonest
      <4> QED
        BY <1>1, <4>1
    <3> QED
      BY <3>2, <3>3
  <2> QED
    BY <2>1, <2>2, <2>3 DEF StaysHonest, KeepsHonest, Marked, Said
<1> QED
  BY <1>2, <1>3 DEF HonestInv

\* What was renewed for a task stays so until it ends.
LEMMA RenewedKept ==
    ASSUME Rules, Shape', NEW q \in Processes, ~Idle(q), q # Worker,
           task'[q].sub = task[q].sub, task'[q].began = task[q].began,
           \A s \in Subs : RowMoves(s), Renewed(q)
    PROVE  Renewed(q)'
<1> USE RecurringAssumption
<1> PICK s : s = Of(q)
  OBVIOUS
<1>1. /\ s \in Subs /\ Of(q)' = s
      /\ task[q].began \in Nat /\ task[q].began \in {now, now - 1} /\ now \in Nat
  BY DEF Rules, Shape, TypeOK, Task, TaskSound, Of
<1>2. sub[s].current_period_end \in Nat /\ sub'[s].current_period_end \in Nat
  BY <1>1 DEF Rules, Shape, TypeOK, SubscriptionRow
<1>3. CASE KeepsEntitlement(s)
  BY <1>1, <1>3 DEF KeepsEntitlement, Renewed
<1>4. CASE Renews(s)
  BY <1>1, <1>2, <1>4 DEF Renews, Renewed
<1>5. CASE Expires(s)
  <2>1. /\ task[Worker].cutoff + Grace <= now /\ task[Worker].cutoff \in Nat
        /\ sub[s].current_period_end <= task[Worker].cutoff
    BY <1>5 DEF Expires, Rules, Shape, TypeOK, Task, TaskSound, At,
                ExpirationSteps, StillDue, IsDueForExpiration, Processes
  <2> QED
    BY <1>1, <1>2, <2>1 DEF Renewed
<1> QED
  BY <1>1, <1>3, <1>4, <1>5 DEF RowMoves

\* A process that does not move stays audited.
LEMMA OthersAudited ==
    ASSUME Rules, ShapeMoves, Audits, NEW q \in Processes, task'[q] = task[q]
    PROVE  AuditSound(q)'
<1>1. CASE task[q].step \notin {"verify", "verified", "alert"}
  BY <1>1 DEF AuditSound
<1>2. CASE task[q].step \in {"verify", "verified", "alert"}
  <2>1. ~Idle(q) /\ Of(q) \in Subs /\ Of(q)' = Of(q)
    BY <1>2 DEF Idle, Rules, Shape, TaskSound, Of
  <2>2. CASE q # Worker
    BY <1>2, <2>1, <2>2, RenewedKept DEF Audits, AuditSound, ShapeMoves
  <2>3. CASE q = Worker
    BY <1>2, <2>1, <2>3 DEF Audits, AuditSound, ShapeMoves, RowMoves, KeepsEntitlement,
                            Renews, Expires, At
  <2> QED
    BY <2>2, <2>3
<1> QED
  BY <1>1, <1>2

\* One process moves, and leaves its own audit and row in order.
LEMMA HonestyKept ==
    ASSUME Honesty, Rules', Cancellations', ShapeMoves,
           NEW p \in Processes, NEW x \in Subs, Local(p, x), AuditSound(p)',
           \A s \in Subs \ {x} : Of(p)' # s /\ (Of(p) = s => ~Stopping(p)),
           cancelled[x] = "no" /\ StaysHonest(x) => KeepsHonest(p, x)
    PROVE  Honesty'
<1>1. ASSUME NEW q \in Processes PROVE AuditSound(q)'
  BY OthersAudited DEF Honesty, Local, OthersStay
<1>2. HonestInv'
  BY HonestKept DEF Honesty
<1> QED
  BY <1>1, <1>2 DEF Honesty, Audits

\* A process that rests has nothing to audit, to undo or to claim.
LEMMA RestHonest ==
    ASSUME NEW p \in Processes, Rests(p)
    PROVE  /\ AuditSound(p)' /\ OthersStay(p) /\ ~Stopping(p)' /\ ~Claiming(p)'
           /\ \A s \in Subs : Of(p)' # s
  BY RecurringAssumption DEF Rests, AuditSound, Stopping, Claiming, IdleTask, At, Of

\* A process begins with s.
LEMMA BeginHonest ==
    ASSUME Honesty, Rules', Cancellations', ShapeMoves,
           NEW p \in Processes, NEW s \in Subs,
           NEW st \in {"process", "verify", "status", "stop", "check"},
           Idle(p), Fresh(p, s, st), Keeps,
           st = "verify" => p = Worker /\ sub[s].status # "expired"
    PROVE  Honesty'
<1>1. OthersStay(p) /\ Of(p)' = s /\ task'[p].step = st
  BY DEF Fresh, Of
<1>2. /\ Local(p, s) /\ rule' = rule /\ sub' = sub
  BY <1>1 DEF Keeps, Local, Faultless
<1>3. AuditSound(p)' /\ ~Stopping(p) /\ ~Claiming(p) /\ ~Claiming(p)'
  BY <1>1, <1>2 DEF AuditSound, Stopping, Claiming, At, Idle
<1>4. ASSUME StaysHonest(s) PROVE KeepsHonest(p, s)
  BY <1>2, <1>3, <1>4 DEF StaysHonest, KeepsHonest, Fresh, Marked, Said
<1> QED
  BY <1>1, <1>2, <1>3, <1>4, HonestyKept

\* A process at work on x that writes neither a mark nor a claim, and stops no rule
\* but one it goes on to answer for.
LEMMA SettledHonest ==
    ASSUME Honesty, Rules', Cancellations', ShapeMoves,
           NEW p \in Processes, NEW x \in Subs, x = Of(p), Local(p, x),
           AuditSound(p)', \A s \in Subs \ {x} : Of(p)' # s,
           Marked(x)' = Marked(x),
           Of(p)' = x => task'[p].preserve = task[p].preserve,
           StaysHonest(x) /\ Faultless' /\ rule'[x] = "suspended" =>
               \/ Of(p)' = x /\ Stopping(p)'
               \/ /\ rule[x] = "suspended" /\ ~Stopping(p)
                  /\ Said(x) # "active" /\ ~Claiming(p) =>
                        Said(x)' # "active" /\ (Of(p)' = x => ~Claiming(p)')
    PROVE  Honesty'
<1>1. ASSUME StaysHonest(x) PROVE KeepsHonest(p, x)
  BY <1>1 DEF StaysHonest, KeepsHonest, Marked
<1> QED
  BY <1>1, HonestyKept

\* A webhook request resumes what the worker stopped, and then says so.
LEMMA WebhookHonest ==
    ASSUME Mismatched = FALSE, Honesty, Rules', Cancellations', ShapeMoves,
           NEW h \in Handlers, Webhook(h)
    PROVE  Honesty'
<1> h \in Processes /\ h # Worker /\ TypeOK /\ Shape /\ Rules
  BY RecurringAssumption DEF Processes, Honesty, Rules, Shape
<1> {"process", "recover", "recovered", "verify"} \subseteq Steps
  BY DEF Steps
<1> PICK x : x = Of(h)
  OBVIOUS
<1>1. ASSUME NEW s \in Subs, ReadContext(h, s)
      PROVE  Honesty'
  <2>1. Idle(h) /\ Keeps /\ Fresh(h, s, "process")
    BY <1>1, FreshTasks DEF ReadContext
  <2> QED
    BY <2>1, BeginHonest
<1>2. ASSUME NEW st \in {"process", "recover", "recovered"}, At(h, st)
      PROVE  /\ x \in Subs /\ sub[x] \in SubscriptionRow /\ ~Stopping(h) /\ ~Idle(h)
             /\ AnswerSound(h) /\ (st = "recovered" => Renewed(h))
  BY <1>2, BusyRow DEF Steps, Stopping, At, Honesty, Cancellations, Answers, Rules,
                       RuleInv, RuleSound
<1>3. CASE ProcessApproved(h)
  <2> DEFINE row == ExtendSubscription(sub[x], BillingMonths, now)
  <2>1. x \in Subs /\ At(h, "process") /\ sub[x] \in SubscriptionRow /\ ~Stopping(h)
    BY <1>2, <1>3 DEF ProcessApproved
  <2>2. AfterApproval(h) \in {"recover", "verify"}
    BY DEF AfterApproval
  <2>3. Goes(h, AfterApproval(h), task[h].answer, task[h].issued)
    BY <1>3, <2>2, TaskMoves DEF ProcessApproved, TypeOK, Task
  <2>4. sub' = [sub EXCEPT ![x] = row] /\ UNCHANGED <<now, rule, cancelled, failures, crashes>>
    BY <1>3 DEF ProcessApproved
  <2>5. Local(h, x)
    BY <1>3, <2>1, <2>3 DEF ProcessApproved, Local, Goes, Faultless, TypeOK
  <2>6. ~row.cancel_at_period_end /\ row.provider_recurring_status = Said(x)
    BY <2>1, RowEntitled DEF Said
  <2>7. /\ row.status = "active" /\ row.current_period_end \in Nat
        /\ row.current_period_end >= now + BillingMonths
    <3>1. now \in Nat /\ BillingMonths \in Nat
      BY RecurringAssumption DEF TypeOK
    <3>2. /\ row \in SubscriptionRow /\ row.status = "active"
          /\ row.current_period_end >= now + BillingMonths
      BY <2>1, <3>1, RowRenewed
    <3> HIDE DEF row
    <3> QED
      BY <3>2 DEF SubscriptionRow
  <2> HIDE DEF row
  <2>8. sub'[x] = row /\ Of(h)' = x
    BY <2>1, <2>3, <2>4 DEF TypeOK, Goes, Of
  <2>9. task'[h].began \in {now, now - 1} /\ now \in Nat
    BY <1>2, <2>1, <2>3 DEF Shape, TaskSound, TypeOK, Goes
  <2>10. AuditSound(h)'
    BY <2>7, <2>8, <2>9, RecurringAssumption DEF AuditSound, Renewed
  <2>11. ASSUME StaysHonest(x) PROVE KeepsHonest(h, x)
    <3>1. ~task[h].preserve /\ ~Marked(x)' /\ Said(x)' = Said(x) /\ rule' = rule
      BY <2>1, <2>4, <2>6, <2>8, <2>11 DEF StaysHonest, Marked, Said
    <3>2. ~Claiming(h)' /\ ~task'[h].preserve
      BY <2>2, <2>3, <3>1 DEF Claiming, Goes, At
    <3> QED
      BY <2>1, <3>1, <3>2 DEF KeepsHonest
  <2> QED
    BY <2>1, <2>5, <2>8, <2>10, <2>11, HonestyKept
<1>4. CASE ProcessMismatched(h)
  BY <1>4 DEF ProcessMismatched
<1>5. CASE AlreadyProcessed(h)
  <2>1. Rests(h) /\ Keeps /\ x \in Subs /\ ~Stopping(h)
    BY <1>2, <1>5, TaskMoves DEF AlreadyProcessed, RecurringStatus
  <2> QED
    BY <2>1, RestHonest, KeepsLocal, SettledHonest DEF Marked, Said
<1>6. CASE CallRecover(h)
  <2>1. x \in Subs /\ At(h, "recover") /\ ~Stopping(h)
    BY <1>2, <1>6 DEF CallRecover
  <2>2. PICK a \in {"suspended", "active", "check_failed"} :
              /\ Answered(h, "recovered", a)
              /\ \/ task[h].preserve /\ Suspends(h)
                 \/ ~task[h].preserve /\ (ResumeSucceeds(h) \/ ResumeFails(h))
    BY <1>6 DEF CallRecover, Suspends
  <2>3. Goes(h, "recovered", a, task[h].issued)
    BY <2>2, TaskMoves DEF RecurringStatus
  <2>4. OthersStay(h) /\ Of(h)' = x /\ AuditSound(h)'
    BY <2>3 DEF Goes, AuditSound, Of
  <2>5. /\ Local(h, x) /\ sub' = sub
        /\ ~task[h].preserve /\ Faultless' => rule'[x] # "suspended"
    BY <2>1, <2>2, <2>4, CallLocal DEF Resumes
  <2>6. StaysHonest(x) => ~task[h].preserve
    BY DEF StaysHonest
  <2> QED
    BY <2>1, <2>3, <2>4, <2>5, <2>6, SettledHonest DEF Marked, Goes
<1>7. CASE CommitRecover(h)
  <2> DEFINE row == RecoveredRow(sub[x], task[h].answer)
  <2>1. /\ x \in Subs /\ sub[x] \in SubscriptionRow /\ At(h, "recovered") /\ ~Idle(h)
        /\ task[h].answer \in {"suspended", "active", "check_failed"}
        /\ Goto(h, "verify") /\ Rewrites(h, row)
        /\ ~Stopping(h) /\ AnswerSound(h) /\ Renewed(h)
    BY <1>2, <1>7 DEF CommitRecover, Shape, TaskSound
  <2>2. Goes(h, "verify", task[h].answer, task[h].issued)
    BY <2>1, TaskMoves DEF TypeOK, Task
  <2>3. OthersStay(h) /\ Of(h)' = x /\ task'[h].preserve = task[h].preserve /\ ~Claiming(h)'
    BY <2>2 DEF Goes, Claiming, At, Of
  <2>4. AuditSound(h)'
    BY <2>1, <2>2, RenewedKept DEF ShapeMoves, AuditSound, Goes
  <2>5. /\ row.cancel_at_period_end = (Marked(x) \/ task[h].answer = "suspended")
        /\ row.provider_recurring_status = task[h].answer
    BY <2>1, RecoveredMarked DEF Marked
  <2>6. Local(h, x) /\ rule' = rule /\ sub'[x] = row
    BY <2>1, <2>3, RewriteLocal
  <2> HIDE DEF row
  <2>7. ASSUME StaysHonest(x) PROVE KeepsHonest(h, x)
    <3>1. ~task[h].preserve /\ ~Marked(x)
      BY <2>7 DEF StaysHonest, Marked
    <3>2. task[h].answer # "suspended"
      BY <2>1, <3>1 DEF AnswerSound
    <3>3. ~Marked(x)' /\ Said(x)' = task[h].answer
      BY <2>5, <2>6, <3>1, <3>2 DEF Marked, Said
    <3>4. ~Claiming(h) => task[h].answer # "active"
      BY <2>1 DEF Claiming, At
    <3> QED
      BY <2>1, <2>3, <2>6, <3>1, <3>3, <3>4 DEF KeepsHonest
  <2> QED
    BY <2>1, <2>3, <2>4, <2>6, <2>7, HonestyKept
<1> QED
  BY <1>1, <1>3, <1>4, <1>5, <1>6, <1>7 DEF Webhook

\* The STATUS check writes what it was answered.
LEMMA VerificationHonest ==
    ASSUME Honesty, Rules', Cancellations', ShapeMoves,
           NEW p \in Handlers \cup {Worker}, Verification(p)
    PROVE  Honesty'
<1> p \in Processes /\ TypeOK /\ Shape /\ Rules
  BY DEF Processes, Honesty, Rules, Shape
<1> {"verify", "verified", "alert"} \subseteq Steps \ {"idle"}
  BY DEF Steps
<1> PICK x : x = Of(p)
  OBVIOUS
<1>1. ASSUME NEW st \in {"verify", "verified", "alert"}, At(p, st)
      PROVE  /\ x \in Subs /\ sub[x] \in SubscriptionRow /\ rule[x] \in RecurringStatus
             /\ task[p].answer \in RecurringStatus /\ ~Stopping(p) /\ ~Idle(p)
             /\ p # Worker => Renewed(p)
             /\ p = Worker => sub[x].status # "expired"
  BY <1>1, BusyRow DEF Stopping, At, RuleStatus, RecurringStatus, TypeOK, Task,
                       Honesty, Audits, AuditSound
<1>2. ASSUME NEW st \in {"verify", "verified", "alert"}, At(p, st),
             NEW u \in {"verified", "alert"}, NEW a, NEW i, Goes(p, u, a, i),
             sub'[x].status = sub[x].status
      PROVE  /\ OthersStay(p) /\ Of(p)' = x /\ task'[p].preserve = task[p].preserve
             /\ AuditSound(p)' /\ (u = "alert" => ~Claiming(p)')
  <2>1. /\ OthersStay(p) /\ Of(p)' = x /\ task'[p].preserve = task[p].preserve
        /\ (u = "alert" => ~Claiming(p)')
    BY <1>2 DEF Goes, Claiming, At, Of
  <2>2. p # Worker => Renewed(p)'
    BY <1>1, <1>2, RenewedKept DEF ShapeMoves, Goes
  <2> QED
    BY <1>1, <1>2, <2>1, <2>2 DEF AuditSound
<1>3. CASE CallVerify(p)
  <2>1. At(p, "verify") /\ Asks /\ x \in Subs /\ ~Stopping(p)
    BY <1>1, <1>3 DEF CallVerify, Asks
  <2>2. PICK a \in RecurringStatus :
              /\ Answered(p, "verified", a)
              /\ \/ a = rule[x]
                 \/ a = "check_failed" /\ StatusFails
    <3>1. /\ rule[x] \in RecurringStatus /\ "check_failed" \in RecurringStatus
      BY <1>1, <2>1 DEF RecurringStatus
    <3>2. \/ Answered(p, "verified", rule[x])
          \/ StatusFails /\ Answered(p, "verified", "check_failed")
      BY <1>3 DEF CallVerify
    <3> QED
      BY <3>1, <3>2 DEF Answered
  <2>3. Goes(p, "verified", a, task[p].issued)
    BY <2>2, TaskMoves
  <2>4. /\ Local(p, x) /\ sub' = sub /\ rule' = rule
        /\ StatusFails => ~Faultless'
    BY <2>1, <2>3, CallLocal DEF Goes
  <2>5. Faultless' /\ rule'[x] = "suspended" => ~Claiming(p)'
    BY <2>2, <2>3, <2>4 DEF Claiming, Goes, At
  <2> QED
    BY <1>2, <2>1, <2>3, <2>4, <2>5, SettledHonest DEF Marked, Said
<1>4. ASSUME NEW st \in {"verified", "alert"}, At(p, st), NEW row, Rewrites(p, row),
             Finish(p) \/ Goto(p, "alert"),
             row.cancel_at_period_end = Marked(x), row.status = sub[x].status,
             Said(x) # "active" /\ ~Claiming(p) => row.provider_recurring_status # "active"
      PROVE  Honesty'
  <2>1. Rests(p) \/ Goes(p, "alert", task[p].answer, task[p].issued)
    BY <1>4, TaskMoves DEF TypeOK, Task
  <2>2. OthersStay(p) /\ x \in Subs /\ ~Stopping(p)
    BY <1>1, <1>4, <2>1, RestHonest DEF Goes
  <2>3. Local(p, x) /\ rule' = rule /\ sub'[x] = row
    BY <1>4, <2>2, RewriteLocal
  <2>4. /\ AuditSound(p)' /\ (Of(p)' = x => task'[p].preserve = task[p].preserve)
        /\ (Of(p)' = x => ~Claiming(p)') /\ \A s \in Subs \ {x} : Of(p)' # s
    BY <1>2, <1>4, <2>1, <2>2, <2>3, RestHonest
  <2> QED
    BY <1>4, <2>2, <2>3, <2>4, SettledHonest DEF Marked, Said
<1>5. CASE CommitVerify(p)
  <2> DEFINE row == RecordVerified(sub[x], task[p].answer)
  <2>1. /\ At(p, "verified") /\ Rewrites(p, row)
        /\ Finish(p) \/ Goto(p, "alert")
    BY <1>5 DEF CommitVerify
  <2>2. /\ row.cancel_at_period_end = Marked(x)
        /\ row.provider_recurring_status = task[p].answer
    BY <1>1, <2>1, RowMarked DEF Marked
  <2>3. row.status = sub[x].status
    BY <1>1, <2>1, RowKept
  <2>4. ~Claiming(p) => task[p].answer # "active"
    BY <2>1 DEF Claiming, At
  <2> HIDE DEF row
  <2> QED
    BY <1>4, <2>1, <2>2, <2>3, <2>4
<1>6. CASE RaiseAlert(p)
  <2> DEFINE due == /\ sub[x].provider_recurring_status = task[p].answer
                    /\ ~sub[x].provider_recurring_alerted_at
             row == [sub[x] EXCEPT !.provider_recurring_alerted_at = @ \/ due]
  <2>1. At(p, "alert") /\ Finish(p) /\ Rewrites(p, row)
    BY <1>6 DEF RaiseAlert
  <2>2. /\ row.cancel_at_period_end = Marked(x) /\ row.status = sub[x].status
        /\ row.provider_recurring_status = Said(x)
    BY <1>1, <2>1 DEF SubscriptionRow, Marked, Said
  <2> HIDE DEF due, row
  <2> QED
    BY <1>4, <2>1, <2>2
<1> QED
  BY <1>3, <1>5, <1>6 DEF Verification

\* The worker begins with a row that has not expired, or alerts of it.
LEMMA WorkerBeginsHonest ==
    ASSUME Honesty, Rules', Cancellations', ShapeMoves, NEW s \in Subs,
           BeginAudit(s) \/ BeginExpire(s) \/ AlertShutdownFailure(s)
    PROVE  Honesty'
<1> Worker \in Processes /\ TypeOK /\ Rules
  BY DEF Processes, Honesty, Rules, Shape
<1>1. CASE BeginAudit(s)
  <2>1. Idle(Worker) /\ Keeps /\ Fresh(Worker, s, "verify") /\ sub[s].status # "expired"
    BY <1>1, FreshTasks DEF BeginAudit, Start, Steps, Entitled
  <2> QED
    BY <2>1, BeginHonest
<1>2. CASE BeginExpire(s)
  <2>1. now - Grace \in Nat
    BY <1>2, RecurringAssumption DEF BeginExpire, TypeOK
  <2>2. Idle(Worker) /\ Keeps /\ Fresh(Worker, s, "status")
    BY <1>2, <2>1, FreshTasks DEF BeginExpire, Steps
  <2> QED
    BY <2>2, BeginHonest
<1>3. CASE AlertShutdownFailure(s)
  <2>1. /\ UNCHANGED <<rule, pending, task, cancelled, failures, crashes>>
        /\ \A t \in Subs : Marked(t)' = Marked(t) /\ Said(t)' = Said(t)
    BY <1>3 DEF AlertShutdownFailure, Marked, Said, TypeOK, SubscriptionRow
  <2>2. \A q \in Processes : AuditSound(q)'
    BY <2>1, OthersAudited DEF Honesty
  <2>3. \A t \in Subs : StaysHonest(t) => StaysHonest(t)'
    BY <2>1, OthersHonest DEF StaysHonest, Marked, Said, Faultless
  <2> QED
    BY <2>1, <2>2, <2>3 DEF Honesty, Audits, HonestInv
<1> QED
  BY <1>1, <1>2, <1>3

\* Nobody else speaks of a subscription that is due or has expired.
LEMMA OnlySpeaker ==
    ASSUME Honesty, NEW p \in Processes, NEW q \in Processes \ {p}, Of(q) = Of(p),
           \/ p = Worker /\ At(Worker, "shutdown") /\ StillDue
           \/ sub[Of(p)].status = "expired"
    PROVE  ~Claiming(q)
<1> SUFFICES ASSUME Claiming(q) PROVE FALSE
  OBVIOUS
<1>1. CASE q = Worker
  <2>1. sub[Of(q)].status # "expired"
    BY <1>1 DEF Claiming, Honesty, Rules, RuleInv, RuleSound, Renewed, Audits, AuditSound,
                At, ExpirationSteps
  <2> QED
    BY <1>1, <2>1
<1>2. CASE q # Worker
  <2>1. Renewed(q)
    BY <1>2 DEF Claiming, Honesty, Rules, RuleInv, RuleSound, Audits, AuditSound, At
  <2>2. CASE sub[Of(p)].status = "expired"
    BY <2>1, <2>2 DEF Renewed
  <2>3. CASE p = Worker /\ At(Worker, "shutdown") /\ StillDue
    <3>1. /\ task[Worker].cutoff + Grace <= now /\ task[Worker].cutoff \in Nat
          /\ sub[Of(q)].current_period_end <= task[Worker].cutoff
      BY <2>3 DEF Honesty, Rules, Shape, TypeOK, Task, TaskSound, At, ExpirationSteps,
                  StillDue, IsDueForExpiration
    <3>2. ~Idle(q)
      BY DEF Claiming, Idle, At
    <3>3. /\ Of(q) \in Subs /\ task[q].began \in {now, now - 1} /\ now \in Nat
          /\ sub[Of(q)].current_period_end \in Nat
      BY <3>2 DEF Honesty, Rules, Shape, TypeOK, TaskSound, SubscriptionRow
    <3> QED
      BY <2>1, <3>1, <3>3, RecurringAssumption DEF Renewed
  <2> QED
    BY <2>2, <2>3
<1> QED
  BY <1>1, <1>2

\* The expiration: the worker that has stopped a rule says so, or undoes it.
LEMMA ExpirationHonest ==
    ASSUME Honesty, Rules', Cancellations', ShapeMoves, Expiration
    PROVE  Honesty'
<1> Worker \in Processes /\ TypeOK /\ Shape
  BY DEF Processes, Honesty, Rules, Shape
<1> ExpirationSteps \subseteq Steps \ {"idle"}
  BY DEF Steps, ExpirationSteps
<1> /\ {"suspended", "check_failed"} \cup RuleStatus \subseteq RecurringStatus
    /\ "active" \notin TerminalStatus
  BY DEF RecurringStatus, RuleStatus, TerminalStatus
<1> PICK x : x = Of(Worker)
  OBVIOUS
<1>1. ASSUME NEW st \in ExpirationSteps, At(Worker, st)
      PROVE  /\ x \in Subs /\ sub[x] \in SubscriptionRow /\ rule[x] \in RecurringStatus
             /\ AnswerSound(Worker)
  BY <1>1, BusyRow DEF RuleStatus, RecurringStatus, Honesty, Cancellations, Answers
<1>2. task[Worker].answer \in RecurringStatus
  BY DEF TypeOK, Task
<1>3. ASSUME NEW u \in ExpirationSteps, NEW a, NEW i, Goes(Worker, u, a, i)
      PROVE  /\ OthersStay(Worker) /\ Of(Worker)' = x
             /\ task'[Worker].preserve = task[Worker].preserve
             /\ AuditSound(Worker)'
             /\ u # "resumed" => ~Claiming(Worker)'
             /\ u = "resume" \/ (u = "shutdown" /\ i) => Stopping(Worker)'
    BY <1>3 DEF Goes, AuditSound, Claiming, Stopping, At, Of, ExpirationSteps
<1>4. ASSUME NEW st \in ExpirationSteps, At(Worker, st), NEW row, Rewrites(Worker, row),
             ~Stopping(Worker), row.cancel_at_period_end = Marked(x),
             \/ Finish(Worker)
             \/ Goto(Worker, "revoke"),
             Faultless /\ Said(x) # "active" /\ ~Claiming(Worker) =>
                row.provider_recurring_status # "active"
      PROVE  Honesty'
  <2>1. \/ Rests(Worker)
        \/ Goes(Worker, "revoke", task[Worker].answer, task[Worker].issued)
    BY <1>2, <1>4, TaskMoves DEF ExpirationSteps, Steps
  <2>2. /\ OthersStay(Worker) /\ (\A s \in Subs \ {x} : Of(Worker)' # s)
        /\ AuditSound(Worker)' /\ ~Claiming(Worker)'
        /\ Of(Worker)' = x => task'[Worker].preserve = task[Worker].preserve
    BY <1>1, <1>3, <1>4, <2>1, RestHonest DEF ExpirationSteps
  <2>3. Local(Worker, x) /\ rule' = rule /\ sub'[x] = row
    BY <1>1, <1>4, <2>2, RewriteLocal
  <2>4. Faultless' => Faultless
    BY <2>3 DEF Local
  <2> QED
    BY <1>1, <1>4, <2>2, <2>3, <2>4, SettledHonest DEF Marked, Said
<1>5. CASE CallExpireStatus
  <2>1. At(Worker, "status") /\ Asks
    BY <1>5 DEF CallExpireStatus, Asks
  <2>2. PICK u \in {"failed", "suspend", "shutdown"}, a \in RecurringStatus :
            Goes(Worker, u, a, task[Worker].issued)
    BY <1>1, <1>5, TaskMoves DEF CallExpireStatus, ExpirationSteps
  <2>3. ~task[Worker].issued /\ ~Stopping(Worker) /\ x \in Subs
    BY <1>1, <2>1 DEF AnswerSound, Stopping, At, ExpirationSteps
  <2>4. /\ OthersStay(Worker) /\ Of(Worker)' = x
        /\ task'[Worker].preserve = task[Worker].preserve
        /\ AuditSound(Worker)' /\ ~Claiming(Worker)'
    BY <1>3, <2>2 DEF ExpirationSteps
  <2>5. Local(Worker, x) /\ sub' = sub /\ rule' = rule
    BY <2>1, <2>3, <2>4, CallLocal
  <2> QED
    BY <2>3, <2>4, <2>5, SettledHonest DEF Marked, Said
<1>6. CASE CallExpireSuspend
  <2>1. At(Worker, "suspend") /\ Suspends(Worker) /\ x \in Subs
    BY <1>1, <1>6 DEF CallExpireSuspend, Suspends, ExpirationSteps
  <2>2. \/ /\ Goes(Worker, "failed", task[Worker].answer, task[Worker].issued)
           /\ SuspendFails(Worker)
        \/ Goes(Worker, "shutdown", "suspended", TRUE)
    BY <1>2, <1>6, TaskMoves DEF CallExpireSuspend, ExpirationSteps
  <2>3. /\ OthersStay(Worker) /\ Of(Worker)' = x
        /\ task'[Worker].preserve = task[Worker].preserve /\ AuditSound(Worker)'
        /\ SuspendFails(Worker) \/ Stopping(Worker)'
    BY <1>3, <2>2 DEF ExpirationSteps
  <2>4. Local(Worker, x) /\ sub' = sub /\ (SuspendFails(Worker) => ~Faultless')
    BY <2>1, <2>3, CallLocal
  <2> QED
    BY <2>1, <2>3, <2>4, SettledHonest DEF Marked
<1>7. CASE CommitShutdown
  <2> DEFINE row == RecordShutdown(sub[x], task[Worker].answer)
  <2>1. /\ At(Worker, "shutdown") /\ StillDue /\ Rewrites(Worker, row)
        /\ Goto(Worker, "revoke")
    BY <1>7 DEF CommitShutdown
  <2>2. /\ row.cancel_at_period_end = Marked(x)
        /\ row.provider_recurring_status = task[Worker].answer
        /\ task[Worker].answer \in TerminalStatus
    <3>1. sub[x] \in SubscriptionRow /\ task[Worker].answer \in TerminalStatus
      BY <1>1, <2>1 DEF AnswerSound, At, ExpirationSteps
    <3> QED
      BY <1>2, <3>1, RowMarked DEF Marked
  <2> HIDE DEF row
  <2>3. Goes(Worker, "revoke", task[Worker].answer, task[Worker].issued)
    BY <1>2, <2>1, TaskMoves DEF ExpirationSteps
  <2>4. /\ OthersStay(Worker) /\ Of(Worker)' = x /\ AuditSound(Worker)'
        /\ ~Claiming(Worker)' /\ task'[Worker].preserve = task[Worker].preserve
    BY <1>3, <2>3 DEF ExpirationSteps
  <2>5. /\ Local(Worker, x) /\ rule' = rule /\ sub'[x] = row /\ x \in Subs
    BY <1>1, <2>1, <2>4, RewriteLocal DEF ExpirationSteps
  <2>6. \A q \in Processes \ {Worker} : Of(q) = x => ~Claiming(q)
    BY <2>1, OnlySpeaker
  <2>7. ASSUME StaysHonest(x) PROVE KeepsHonest(Worker, x)
    BY <2>2, <2>4, <2>5, <2>6, <2>7 DEF KeepsHonest, StaysHonest, Marked, Said
  <2> QED
    BY <2>4, <2>5, <2>7, HonestyKept
<1>8. CASE OvertakenShutdown
  <2>1. At(Worker, "shutdown") /\ Keeps /\ x \in Subs
    BY <1>1, <1>8 DEF OvertakenShutdown, ExpirationSteps
  <2>2. \/ /\ Rests(Worker) /\ (task[Worker].issued => Marked(x))
        \/ Goes(Worker, "resume", task[Worker].answer, task[Worker].issued)
    BY <1>2, <1>8, TaskMoves DEF OvertakenShutdown, ExpirationSteps, Marked
  <2>3. /\ OthersStay(Worker) /\ (\A s \in Subs \ {x} : Of(Worker)' # s)
        /\ AuditSound(Worker)' /\ ~Claiming(Worker)'
        /\ Of(Worker)' = x => task'[Worker].preserve = task[Worker].preserve
        /\ \/ task[Worker].issued => Marked(x)
           \/ Of(Worker)' = x /\ Stopping(Worker)'
    BY <1>3, <2>1, <2>2, RestHonest DEF ExpirationSteps
  <2>4. Local(Worker, x) /\ rule' = rule /\ sub' = sub
    BY <2>3, <2>1, KeepsLocal
  <2>5. StaysHonest(x) => ~Marked(x)
    BY DEF StaysHonest, Marked
  <2>6. ~task[Worker].issued => ~Stopping(Worker)
    BY <2>1 DEF Stopping, At
  <2> QED
    BY <2>1, <2>3, <2>4, <2>5, <2>6, SettledHonest DEF Marked, Said
<1>9. CASE CallExpireResume
  <2>1. At(Worker, "resume") /\ Resumes(Worker) /\ x \in Subs
    BY <1>1, <1>9 DEF CallExpireResume, Resumes, ExpirationSteps
  <2>2. \/ Goes(Worker, "resumed", task[Worker].answer, task[Worker].issued)
        \/ Goes(Worker, "failed", "suspended", task[Worker].issued)
    BY <1>2, <1>9, TaskMoves DEF CallExpireResume, ExpirationSteps
  <2>3. /\ OthersStay(Worker) /\ Of(Worker)' = x
        /\ task'[Worker].preserve = task[Worker].preserve /\ AuditSound(Worker)'
    BY <1>3, <2>2 DEF ExpirationSteps
  <2>4. Local(Worker, x) /\ sub' = sub /\ (Faultless' => rule'[x] # "suspended")
    BY <2>1, <2>3, CallLocal DEF Resumes
  <2> QED
    BY <2>1, <2>3, <2>4, SettledHonest DEF Marked
<1>10. CASE CommitResumed
  <2>1. /\ At(Worker, "resumed") /\ Rewrites(Worker, RecordResumed(sub[x]))
        /\ Finish(Worker) /\ ~Stopping(Worker) /\ Claiming(Worker)
    BY <1>10 DEF CommitResumed, Stopping, Claiming, At
  <2>2. RecordResumed(sub[x]).cancel_at_period_end = Marked(x)
    BY <1>1, <2>1, RowMarked DEF Marked, ExpirationSteps
  <2> QED
    BY <1>4, <2>1, <2>2 DEF ExpirationSteps
<1>11. CASE CommitShutdownFailure
  <2> DEFINE row == RecordShutdownFailure(sub[x], task[Worker].answer)
  <2>1. /\ At(Worker, "failed") /\ Rewrites(Worker, row) /\ Finish(Worker)
        /\ ~Stopping(Worker)
    BY <1>11 DEF CommitShutdownFailure, Stopping, At
  <2>2. /\ row.cancel_at_period_end = Marked(x)
        /\ row.provider_recurring_status = task[Worker].answer
    <3>1. sub[x] \in SubscriptionRow
      BY <1>1, <2>1 DEF ExpirationSteps
    <3> QED
      BY <1>2, <3>1, RowMarked DEF Marked
  <2>3. Faultless => task[Worker].answer # "active"
    BY <1>1, <2>1 DEF AnswerSound, ExpirationSteps
  <2> HIDE DEF row
  <2> QED
    BY <1>4, <2>1, <2>2, <2>3 DEF ExpirationSteps
<1>12. CASE Revoke
  <2>1. At(Worker, "revoke") /\ Finish(Worker) /\ ~Stopping(Worker)
    BY <1>12 DEF Revoke, Stopping, At
  <2>2. PICK removed \in BOOLEAN :
            Rewrites(Worker, IF StillDue THEN ExpireSubscription(sub[x], removed)
                             ELSE sub[x])
    BY <1>12 DEF Revoke
  <2>3. LET row == ExpireSubscription(sub[x], removed)
        IN  /\ row.cancel_at_period_end = Marked(x)
            /\ row.provider_recurring_status = Said(x)
    BY <1>1, <2>1, RowEntitled DEF ExpirationSteps, Marked, Said
  <2> QED
    BY <1>4, <2>1, <2>2, <2>3 DEF ExpirationSteps, Marked, Said
<1>13. CASE RevokeFails
  <2>1. /\ At(Worker, "revoke") /\ ~Faultless' /\ Finish(Worker)
        /\ UNCHANGED <<now, sub, rule, pending, cancelled, crashes>>
    BY <1>13 DEF RevokeFails, Fails, Faultless, TypeOK
  <2>2. Rests(Worker)
    BY <1>2, <2>1, TaskMoves DEF ExpirationSteps
  <2>3. Local(Worker, x) /\ x \in Subs
    BY <1>1, <2>1, <2>2 DEF Local, Rests, ExpirationSteps
  <2> QED
    BY <2>1, <2>2, <2>3, RestHonest, SettledHonest DEF Marked
<1> QED
  BY <1>5, <1>6, <1>7, <1>8, <1>9, <1>10, <1>11, <1>12, <1>13 DEF Expiration

\* The member's cancellation: until it is committed the member has still to tell.
LEMMA CancellationHonest ==
    ASSUME Honesty, Rules', Cancellations', ShapeMoves, NEW m \in Members,
           Cancellation(m) \/ \E s \in Subs : BeginCancel(m, s)
    PROVE  Honesty'
<1> m \in Processes /\ TypeOK /\ Shape /\ Rules
  BY DEF Processes, Honesty, Rules, Shape
<1> {"stop", "cancel"} \subseteq Steps \ {"idle"}
  BY DEF Steps
<1> PICK x : x = Of(m)
  OBVIOUS
<1>1. ASSUME NEW s \in Subs, BeginCancel(m, s)
      PROVE  Honesty'
  <2>1. Idle(m) /\ Keeps /\ Fresh(m, s, "stop")
    BY <1>1, FreshTasks DEF BeginCancel, Start
  <2> QED
    BY <2>1, BeginHonest
<1>2. CASE CallCancelSuspend(m)
  <2>1. x \in Subs /\ Suspends(m) /\ ~Stopping(m)
    BY <1>2, BusyRow DEF CallCancelSuspend, Suspends, Stopping, At
  <2>2. \/ Rests(m) /\ SuspendFails(m)
        \/ Goes(m, "cancel", task[m].answer, task[m].issued)
    BY <1>2, TaskMoves DEF CallCancelSuspend, TypeOK, Task
  <2>3. /\ OthersStay(m) /\ AuditSound(m)' /\ (\A s \in Subs \ {x} : Of(m)' # s)
        /\ SuspendFails(m) \/ (Of(m)' = x /\ Stopping(m)')
        /\ Of(m)' = x => task'[m].preserve = task[m].preserve
    BY <2>1, <2>2, RestHonest DEF Goes, AuditSound, Stopping, Of
  <2>4. Local(m, x) /\ sub' = sub /\ (SuspendFails(m) => ~Faultless')
    BY <2>1, <2>3, CallLocal
  <2> QED
    BY <2>1, <2>3, <2>4, SettledHonest DEF Marked
<1>3. CASE CommitCancel(m)
  <2>1. /\ Rests(m) /\ UNCHANGED <<now, rule, pending, failures, crashes>>
    BY <1>3, TaskMoves DEF CommitCancel, RecurringStatus
  <2>2. ASSUME NEW s \in Subs, cancelled'[s] = "no"
        PROVE  cancelled[s] = "no" /\ sub'[s] = sub[s] /\ Of(m) # s
    <3>1. CASE Current = {} /\ UNCHANGED sub /\ cancelled' = CancelledAfter(m, None)
      BY <2>2, <3>1, RecurringAssumption DEF CancelledAfter
    <3>2. ASSUME NEW t \in Current, cancelled' = CancelledAfter(m, t),
                 sub' = [sub EXCEPT ![t] = CancelAtPeriodEnd(@, "suspended")]
          PROVE  cancelled[s] = "no" /\ sub'[s] = sub[s] /\ Of(m) # s
      BY <2>2, <3>2 DEF CancelledAfter, TypeOK
    <3> QED
      BY <1>3, <3>1, <3>2 DEF CommitCancel
  <2>3. ASSUME NEW q \in Processes
        PROVE  \/ q # m /\ task'[q] = task[q]
               \/ q = m /\ (\A s \in Subs : Of(q)' # s) /\ AuditSound(q)'
    BY <2>1, <2>3, RestHonest DEF OthersStay
  <2>4. \A q \in Processes : AuditSound(q)'
    BY <2>3, OthersAudited DEF Honesty
  <2>5. ASSUME NEW s \in Subs, cancelled'[s] = "no" PROVE StaysHonest(s)'
    <3>1. cancelled[s] = "no" /\ sub'[s] = sub[s] /\ Of(m) # s /\ StaysHonest(s)
      BY <2>2, <2>5 DEF Honesty, HonestInv
    <3>2. \A q \in Processes :
              /\ Of(q)' = s => Of(q) = s /\ task'[q] = task[q]
              /\ Of(q) = s => Of(q)' = s /\ task'[q] = task[q]
      BY <2>3, <3>1 DEF Of
    <3>3. \A q \in Processes :
              /\ Of(q)' = s => Of(q) = s /\ Claiming(q)' = Claiming(q)
                                        /\ task'[q] = task[q]
              /\ Of(q) = s => Of(q)' = s /\ Stopping(q)' = Stopping(q)
      BY <3>2, OthersHonest
    <3> QED
      BY <2>1, <3>1, <3>3 DEF StaysHonest, Faultless
  <2> QED
    BY <2>4, <2>5 DEF Honesty, Audits, HonestInv
<1> QED
  BY <1>1, <1>2, <1>3 DEF Cancellation

\* The repair: the operator that has stopped a rule says so, or undoes it.
LEMMA RepairHonest ==
    ASSUME Honesty, Rules', Cancellations', ShapeMoves, NEW o \in Operators,
           Repair(o) \/ \E s \in Subs : BeginRepair(o, s)
    PROVE  Honesty'
<1> o \in Processes /\ o # Worker /\ TypeOK /\ Shape
  BY RecurringAssumption DEF Processes, Honesty, Rules, Shape
<1> RepairSteps \subseteq Steps \ {"idle"}
  BY DEF Steps, RepairSteps
<1> "suspended" \in RecurringStatus /\ "active" \notin TerminalStatus
  BY DEF RecurringStatus, TerminalStatus
<1> PICK x : x = Of(o)
  OBVIOUS
<1>1. ASSUME NEW st \in RepairSteps, At(o, st)
      PROVE  /\ x \in Subs /\ sub[x] \in SubscriptionRow /\ rule[x] \in RecurringStatus
             /\ AnswerSound(o)
  BY <1>1, BusyRow DEF RuleStatus, RecurringStatus, Honesty, Cancellations, Answers
<1>2. task[o].answer \in RecurringStatus
  BY DEF TypeOK, Task
<1>3. ASSUME NEW u \in RepairSteps, NEW a, NEW i, Goes(o, u, a, i)
      PROVE  /\ OthersStay(o) /\ Of(o)' = x /\ task'[o].preserve = task[o].preserve
             /\ AuditSound(o)' /\ ~Claiming(o)'
             /\ u = "undo" \/ (u = "repaired" /\ i) => Stopping(o)'
  BY <1>3 DEF Goes, AuditSound, Claiming, Stopping, At, Of, RepairSteps
<1>4. ASSUME NEW s \in Subs, BeginRepair(o, s)
      PROVE  Honesty'
  <2>1. Idle(o) /\ Keeps /\ Fresh(o, s, "check")
    BY <1>4, FreshTasks DEF BeginRepair, Start, Steps
  <2> QED
    BY <2>1, BeginHonest
<1>5. ASSUME x \in Subs,
             Rests(o) \/ \E u \in RepairSteps : \E a, i : Goes(o, u, a, i)
      PROVE  /\ OthersStay(o) /\ (\A s \in Subs \ {x} : Of(o)' # s)
             /\ AuditSound(o)' /\ ~Claiming(o)'
             /\ Of(o)' = x => task'[o].preserve = task[o].preserve
  <2>1. CASE Rests(o)
    BY <1>5, <2>1, RestHonest
  <2>2. CASE \E u \in RepairSteps : \E a, i : Goes(o, u, a, i)
    <3> PICK u \in RepairSteps : \E a, i : Goes(o, u, a, i)
      BY <2>2
    <3> QED
      BY <1>3
  <2> QED
    BY <1>5, <2>1, <2>2
<1>6. CASE CallCheck(o)
  <2>1. At(o, "check") /\ Asks
    BY <1>6 DEF CallCheck, Asks
  <2>2. Rests(o) \/ \E u \in RepairSteps : \E a, i : Goes(o, u, a, i)
    BY <1>1, <1>6, TaskMoves DEF CallCheck, RepairSteps
  <2>3. x \in Subs /\ ~Stopping(o)
    BY <1>1, <2>1 DEF Stopping, At, RepairSteps
  <2>4. Local(o, x) /\ sub' = sub /\ rule' = rule
    BY <1>5, <2>1, <2>2, <2>3, CallLocal
  <2> QED
    BY <1>5, <2>2, <2>3, <2>4, SettledHonest DEF Marked, Said
<1>7. CASE Recheck(o)
  <2>1. At(o, "recheck") /\ Keeps /\ x \in Subs /\ ~Stopping(o)
    BY <1>1, <1>7 DEF Recheck, Stopping, At, RepairSteps
  <2>2. Rests(o) \/ \E u \in RepairSteps : \E a, i : Goes(o, u, a, i)
    BY <1>2, <1>7, TaskMoves DEF Recheck, RepairSteps
  <2> QED
    BY <1>5, <2>1, <2>2, KeepsLocal, SettledHonest DEF Marked, Said
<1>8. CASE CallRepair(o)
  <2>1. At(o, "repair") /\ Suspends(o) /\ x \in Subs
    BY <1>1, <1>8 DEF CallRepair, Suspends, RepairSteps
  <2>2. \/ Rests(o) /\ SuspendFails(o)
        \/ Goes(o, "repaired", "suspended", TRUE)
    BY <1>2, <1>8, TaskMoves DEF CallRepair, RepairSteps
  <2>3. Rests(o) \/ \E u \in RepairSteps : \E a, i : Goes(o, u, a, i)
    BY <2>2 DEF RepairSteps
  <2>4. SuspendFails(o) \/ (Of(o)' = x /\ Stopping(o)')
    BY <1>3, <2>2 DEF RepairSteps
  <2>5. Local(o, x) /\ sub' = sub /\ (SuspendFails(o) => ~Faultless')
    BY <1>5, <2>1, <2>3, CallLocal
  <2> QED
    BY <1>5, <2>1, <2>3, <2>4, <2>5, SettledHonest DEF Marked
<1>9. CASE CommitRepair(o)
  <2>1. /\ At(o, "repaired") /\ x \in Subs /\ sub[x] \in SubscriptionRow
        /\ task[o].answer \in TerminalStatus
    BY <1>1, <1>9 DEF CommitRepair, AnswerSound, At, RepairSteps
  <2>2. CASE sub[x].status = "expired"
    <3> DEFINE row == RecordShutdown(sub[x], task[o].answer)
    <3>1. Rewrites(o, row) /\ Rests(o)
      BY <1>2, <1>9, <2>2, TaskMoves DEF CommitRepair, RepairSteps
    <3>2. /\ row.cancel_at_period_end = Marked(x)
          /\ row.provider_recurring_status = task[o].answer
      BY <1>2, <2>1, RowMarked DEF Marked
    <3> HIDE DEF row
    <3>3. Local(o, x) /\ rule' = rule /\ sub'[x] = row
      BY <1>5, <2>1, <3>1, RewriteLocal
    <3>4. \A q \in Processes \ {o} : Of(q) = x => ~Claiming(q)
      BY <2>2, OnlySpeaker
    <3>5. ASSUME StaysHonest(x) PROVE KeepsHonest(o, x)
      BY <2>1, <3>1, <3>2, <3>3, <3>4, <3>5, RestHonest
         DEF KeepsHonest, StaysHonest, Marked, Said
    <3>6. /\ AuditSound(o)'
          /\ \A s \in Subs \ {x} : Of(o)' # s /\ (Of(o) = s => ~Stopping(o))
      BY <1>5, <2>1, <3>1
    <3>7. Honesty /\ Rules' /\ Cancellations' /\ ShapeMoves
      OBVIOUS
    <3> QED
      BY <2>1, <3>3, <3>5, <3>6, <3>7, HonestyKept
  <2>3. CASE sub[x].status # "expired"
    <3>1. /\ Keeps
          /\ \/ Rests(o) /\ ~task[o].issued
             \/ Goes(o, "undo", task[o].answer, task[o].issued)
      BY <1>2, <1>9, <2>3, TaskMoves DEF CommitRepair, RepairSteps
    <3>2. Rests(o) \/ \E u \in RepairSteps : \E a, i : Goes(o, u, a, i)
      BY <3>1 DEF RepairSteps
    <3>3. ~Stopping(o) \/ (Of(o)' = x /\ Stopping(o)')
      BY <1>3, <2>1, <3>1 DEF Stopping, At, RepairSteps
    <3>4. Local(o, x) /\ sub' = sub /\ rule' = rule
      BY <1>5, <2>1, <3>1, <3>2, KeepsLocal
    <3> QED
      BY <1>5, <2>1, <3>2, <3>3, <3>4, SettledHonest DEF Marked, Said
  <2> QED
    BY <2>2, <2>3
<1>10. CASE CallUndo(o)
  <2>1. At(o, "undo") /\ Resumes(o) /\ Rests(o) /\ x \in Subs
    BY <1>1, <1>2, <1>10, TaskMoves DEF CallUndo, Resumes, RepairSteps
  <2>2. Local(o, x) /\ sub' = sub /\ (Faultless' => rule'[x] # "suspended")
    BY <1>5, <2>1, CallLocal DEF Resumes
  <2> QED
    BY <1>5, <2>1, <2>2, SettledHonest DEF Marked
<1> QED
  BY <1>4, <1>6, <1>7, <1>8, <1>9, <1>10 DEF Repair

\* The provider suspends no rule of its own, and whoever dies leaves a fault.
LEMMA EnvironmentHonest ==
    ASSUME Honesty, Rules', Cancellations', ShapeMoves,
           \/ \E s \in Subs : ProviderCharges(s) \/ ProviderMovesRule(s)
           \/ \E p \in Processes : Crash(p)
           \/ Tick
           \/ UNCHANGED vars
    PROVE  Honesty'
<1> TypeOK /\ Rules
  BY DEF Honesty, Rules, Shape
<1>1. ASSUME UNCHANGED <<sub, task, cancelled, failures, crashes>>,
             \A s \in Subs : rule'[s] = "suspended" => rule[s] = "suspended"
      PROVE  Honesty'
  <2>1. \A q \in Processes : AuditSound(q)'
    BY <1>1, OthersAudited DEF Honesty
  <2>2. \A s \in Subs : StaysHonest(s) => StaysHonest(s)'
    BY <1>1, OthersHonest DEF StaysHonest, Faultless
  <2> QED
    BY <1>1, <2>1, <2>2 DEF Honesty, Audits, HonestInv
<1>2. CASE \E s \in Subs : ProviderCharges(s) \/ ProviderMovesRule(s)
  BY <1>1, <1>2 DEF ProviderCharges, ProviderMovesRule, TypeOK
<1>3. ASSUME NEW p \in Processes, Crash(p)
      PROVE  Honesty'
  <2>1. /\ Finish(p) /\ ~Faultless'
        /\ UNCHANGED <<sub, rule, pending, cancelled>>
    BY <1>3 DEF Crash, Faultless, TypeOK
  <2>2. Rests(p)
    BY <2>1, TaskMoves DEF RecurringStatus, Steps
  <2>3. ASSUME NEW q \in Processes
        PROVE  \/ task'[q] = task[q]
               \/ (\A s \in Subs : Of(q)' # s) /\ AuditSound(q)'
    BY <2>2, RestHonest DEF OthersStay
  <2>4. \A q \in Processes : AuditSound(q)'
    BY <2>3, OthersAudited DEF Honesty
  <2>5. \A s \in Subs : StaysHonest(s) => StaysHonest(s)'
    BY <2>1, <2>3 DEF StaysHonest, Of
  <2> QED
    BY <2>1, <2>4, <2>5 DEF Honesty, Audits, HonestInv
<1>4. CASE Tick \/ UNCHANGED vars
  BY <1>1, <1>4 DEF Tick, vars
<1> QED
  BY <1>2, <1>3, <1>4

\* Every step keeps the rows honest, unless an approval of a wrong amount is processed.
LEMMA HonestyStep ==
    ASSUME Mismatched = FALSE
    PROVE  Honesty /\ [Next]_vars => Honesty'
<1> SUFFICES ASSUME Honesty, [Next]_vars PROVE Honesty'
  OBVIOUS
<1>1. ShapeMoves /\ Rules' /\ Cancellations'
  BY ShapeStep, RulesStep, CancellationsStep DEF Honesty, Rules
<1>2. CASE \E h \in Handlers : Webhook(h)
  BY <1>1, <1>2, WebhookHonest
<1>3. CASE \E p \in Handlers \cup {Worker} : Verification(p)
  BY <1>1, <1>3, VerificationHonest
<1>4. CASE \E s \in Subs : BeginAudit(s) \/ BeginExpire(s) \/ AlertShutdownFailure(s)
  BY <1>1, <1>4, WorkerBeginsHonest
<1>5. CASE Expiration
  BY <1>1, <1>5, ExpirationHonest
<1>6. CASE \E m \in Members : Cancellation(m) \/ \E s \in Subs : BeginCancel(m, s)
  BY <1>1, <1>6, CancellationHonest
<1>7. CASE \E o \in Operators : Repair(o) \/ \E s \in Subs : BeginRepair(o, s)
  BY <1>1, <1>7, RepairHonest
<1>8. CASE \/ \E s \in Subs : ProviderCharges(s) \/ ProviderMovesRule(s)
           \/ \E p \in Processes : Crash(p)
           \/ Tick
           \/ UNCHANGED vars
  BY <1>1, <1>8, EnvironmentHonest
<1> QED
  BY <1>2, <1>3, <1>4, <1>5, <1>6, <1>7, <1>8 DEF Next

\* No rule is suspended, and no row marked, in the beginning.
LEMMA HonestyInit == Init => Honesty
<1> SUFFICES ASSUME Init PROVE Honesty
  OBVIOUS
<1>1. Rules /\ Cancellations
  BY RulesInit, CancellationsInit
<1>2. Audits
  BY DEF Init, IdleTask, Audits, AuditSound
<1>3. ASSUME NEW s \in Subs PROVE StaysHonest(s)
  <2>1. \A m, r : ~NewSubscription(0, m, r).cancel_at_period_end
    BY DEF NewSubscription
  <2>2. LET row == ExpireSubscription(NewSubscription(0, 0, "active"), TRUE)
        IN  ~row.cancel_at_period_end
    BY DEF NewSubscription, ExpireSubscription
  <2>3. \/ sub[s] = ExpireSubscription(NewSubscription(0, 0, "active"), TRUE)
        \/ \E m : sub[s] = NewSubscription(0, m, "pending")
    BY DEF Init
  <2>4. rule[s] # "suspended"
    BY RecurringAssumption DEF Init
  <2>5. \A p \in Processes : ~task[p].preserve
    BY DEF Init, IdleTask
  <2> QED
    BY <2>1, <2>2, <2>3, <2>4, <2>5 DEF StaysHonest
<1> QED
  BY <1>1, <1>2, <1>3 DEF Honesty, HonestInv

\* As long as the provider charges what was agreed, no call fails and nobody cancels,
\* the row never says "active" of a rule that the application has suspended, whatever
\* overlaps with the expiration and the repair; of a rule that the provider has removed
\* on its own it may.
THEOREM AutoRenewIsAlwaysHonest ==
    ASSUME Mismatched = FALSE
    PROVE  Spec => []AutoRenewIsHonest
<1>1. Honesty => AutoRenewIsHonest
  BY DEF Honesty, HonestInv, StaysHonest, AutoRenewIsHonest, Unattended
<1>2. Honesty /\ [Next]_vars => Honesty'
  BY HonestyStep
<1> QED
  BY <1>1, <1>2, HonestyInit, PTL DEF Spec

\* Under the same assumption everybody who is about to issue or to record a command
\* has reason to, whatever has overtaken him; so the invariant that TLC checks holds.
THEOREM TasksAreSound ==
    ASSUME Mismatched = FALSE
    PROVE  Spec => []Inv
<1>1. Honesty => Inv
  BY DEF Honesty, Rules, Shape, Cancellations, Answers, Audits, Inv
<1>2. Honesty /\ [Next]_vars => Honesty'
  BY HonestyStep
<1> QED
  BY <1>1, <1>2, HonestyInit, PTL DEF Spec

=============================================================================
