-------------------------------- MODULE Worker --------------------------------
(***************************************************************************)
(* The worker's loop, the requests of the API and the bot, and what they   *)
(* tell members and administrators: Notifications, AccessNotices and       *)
(* Broadcasts, composed with the job that expires subscriptions.           *)
(*                                                                         *)
(* The worker does one job after the other; requests overlap with it and   *)
(* with each other.  The bounds on events, failures and crashes are shared,*)
(* so that runs mix the parts without multiplying them.                    *)
(***************************************************************************)
EXTENDS Notifications, AccessNotices, Broadcasts

CONSTANTS
    Owner,   \* whose subscription it is
    MaxTime  \* bound on the clock

ASSUME WorkerAssumption == Owner \in [Subs -> Users] /\ MaxTime \in Nat

vars == <<bounds, notificationVars, noticeVars, broadcastVars>>

Init ==
    /\ WorkerLoopInit
    /\ NotificationsInit
    /\ NoticesInit
    /\ BroadcastsInit

TypeOK ==
    /\ WorkerLoopTypes
    /\ NotificationsTypes
    /\ NoticesTypes
    /\ BroadcastsTypes

Free(p) == Idle(p) /\ AtErrand(p, "idle")

-----------------------------------------------------------------------------
(***************************************************************************)
(* Expiration (expire_due).  Recurring has its provider calls and Access   *)
(* its Telegram calls in full.                                             *)
(***************************************************************************)
Expiring(step) ==
    /\ AtErrand(Worker, "idle")
    /\ task[Worker].job = "expire" /\ At(Worker, step)

StillExpired(s) == IsDueForExpiration(sub[s], task[Worker].cutoff)

Turned(step, s, todo) ==
    [task EXCEPT ![Worker] = [@ EXCEPT !.step = step, !.subject = s, !.todo = todo]]

\* The batch is done, or a row of it is.
Expired(s) == LET todo == task[Worker].todo \ {s}
              IN  IF todo = {} THEN [task EXCEPT ![Worker] = IdleTask]
                  ELSE Turned("due", None, todo)

\* The batch is read once; its cutoff serves for every look at a row.
BeginExpire ==
    /\ Idle(Worker)
    /\ LET cutoff == clock - Grace
           found  == {s \in Subs : IsDueForExpiration(sub[s], cutoff)}
       IN  /\ found # {}
           /\ task' = [task EXCEPT ![Worker] =
                 [@ EXCEPT !.job = "expire", !.step = "due", !.todo = found,
                           !.cutoff = cutoff]]
    /\ Smooth
    /\ UNCHANGED <<clock, sub, payment, heard, noticeVars>>

\* The row is read before the provider is called.
BeginStop(s) ==
    /\ Expiring("due") /\ s \in task[Worker].todo
    /\ task' = IF StillExpired(s)
               THEN Turned("stop", s, task[Worker].todo)
               ELSE Expired(s)
    /\ Smooth
    /\ UNCHANGED <<clock, sub, payment, heard, noticeVars>>

\* The rule cannot charge any more.  The row is read again before it is recorded.
RuleStopped(s) ==
    /\ Expiring("stop") /\ s = task[Worker].subject
    /\ IF StillExpired(s)
       THEN Rewrites(s, RecordShutdown(sub[s], "suspended"), {"shutdown"},
                     Turned("revoke", s, task[Worker].todo))
       ELSE /\ task' = Expired(s)
            /\ UNCHANGED <<sub, heard>>
    /\ Smooth
    /\ UNCHANGED <<clock, payment, noticeVars>>

\* It could not be stopped.  This is recorded whatever the row is by now.
RuleNotStopped(s) ==
    /\ Expiring("stop") /\ s = task[Worker].subject
    /\ Fails
    /\ Rewrites(s, RecordShutdownFailure(sub[s], "check_failed"), {},
                Expired(s))
    /\ UNCHANGED <<clock, payment, noticeVars>>

\* The member is removed, or is the owner of a chat and stays in it.
Revoke(s, fully) ==
    /\ Expiring("revoke") /\ s = task[Worker].subject
    /\ LET tasks == Expired(s)
       IN  IF StillExpired(s)
           THEN /\ Rewrites(s, ExpireSubscription(sub[s], fully), {}, tasks)
                /\ IF fully
                   THEN /\ notice' = [notice EXCEPT ![s] = MarkedResolved(@)]
                        /\ trouble' = [trouble EXCEPT ![s] = FALSE]
                   ELSE UNCHANGED <<notice, trouble>>
           ELSE task' = tasks /\ UNCHANGED <<sub, heard, notice, trouble>>
    /\ Smooth
    /\ UNCHANGED <<clock, payment, errand, informed, mislaid>>

\* Telegram refuses: administrators are alerted and the batch goes on.
RevokeFails(s) ==
    /\ Expiring("revoke") /\ s = task[Worker].subject
    /\ StillExpired(s)
    /\ Fails
    /\ task' = Expired(s)
    /\ trouble' = [trouble EXCEPT ![s] = TRUE]
    /\ Goes(Worker, "alert", {s})
    /\ UNCHANGED <<clock, sub, payment, heard, notice, informed, mislaid>>

ExpireSteps ==
    \E s \in Subs :
        \/ BeginStop(s) \/ RuleStopped(s) \/ RuleNotStopped(s)
        \/ \E fully \in BOOLEAN : Revoke(s, fully)
        \/ RevokeFails(s)

-----------------------------------------------------------------------------
(***************************************************************************)
(* The system                                                              *)
(***************************************************************************)
Entitlement(u) ==
    \E s \in Subs : /\ Owner[s] = u
                    /\ sub[s].status \in Entitled
                    /\ sub[s].current_period_end > clock

\* What customers and administrators start.
Asks(h) ==
    /\ Free(h)
    /\ \/ /\ \E s \in Subs : Renewed(h, s) \/ \E p \in Payments : Refused(h, s, p)
          /\ UNCHANGED <<noticeVars, broadcastVars>>
       \/ /\ \E u \in Users : GrantSucceeds(h, u) \/ GrantFails(h, u)
          /\ UNCHANGED <<notificationVars, broadcastVars>>

AdministratorQueues ==
    /\ Queue(Users) \/ Queue({u \in Users : Entitlement(u)})
    /\ UNCHANGED <<notificationVars, noticeVars>>

Tick ==
    /\ clock < MaxTime /\ clock' = clock + 1
    /\ UNCHANGED <<sub, payment, task, heard, bounds, noticeVars, broadcastVars>>

RequestWorks(h) ==
    \/ TaskSteps(h) /\ UNCHANGED <<noticeVars, broadcastVars>>
    \/ ErrandSteps(h) /\ UNCHANGED <<notificationVars, broadcastVars>>

\* The jobs an idle worker may turn to.
WorkerIsFree == Free(Worker) /\ batch = NoBatch

AuditJob == WorkerIsFree /\ BeginAudit /\ UNCHANGED <<noticeVars, broadcastVars>>
NoticeJob(job) ==
    WorkerIsFree /\ ListDue(job) /\ UNCHANGED <<noticeVars, broadcastVars>>
ExpireJob == WorkerIsFree /\ BeginExpire /\ UNCHANGED broadcastVars
ResolutionJob ==
    WorkerIsFree /\ RetryResolutions /\ UNCHANGED <<notificationVars, broadcastVars>>
BroadcastJob ==
    /\ WorkerIsFree
    /\ \E b \in DOMAIN broadcasts : ClaimBroadcast(b) \/ Complete(b)
    /\ UNCHANGED <<notificationVars, noticeVars>>

OtherJob ==
    ExpireJob \/ BroadcastJob \/ \E job \in Jobs \ {"rule"} : NoticeJob(job)

WorkerWorks ==
    \/ TaskSteps(Worker) /\ UNCHANGED <<noticeVars, broadcastVars>>
    \/ ExpireSteps /\ UNCHANGED broadcastVars
    \/ ErrandSteps(Worker) /\ UNCHANGED <<notificationVars, broadcastVars>>
    \/ BatchSteps /\ UNCHANGED <<notificationVars, noticeVars>>

\* A process is lost, or a job of the worker ends with an exception.
Lose(p) ==
    /\ ~Free(p) \/ (p = Worker /\ batch # NoBatch)
    /\ Crashes
    /\ TaskLost(p)
    /\ ErrandLost(p)
    /\ IF p = Worker THEN BatchLost ELSE UNCHANGED broadcastVars

Next ==
    \/ \E h \in Requests : Asks(h) \/ RequestWorks(h)
    \/ AdministratorQueues
    \/ Tick
    \/ AuditJob \/ ResolutionJob \/ OtherJob
    \/ WorkerWorks
    \/ \E p \in Processes :
          \/ Lose(p)
          \/ AlertSwallowed(p) /\ UNCHANGED <<notificationVars, broadcastVars>>

Spec == Init /\ [][Next]_vars

\* The worker goes round for ever and reaches every job; a request works until it
\* is answered.  A rule is audited again when the recheck interval has passed.
\* The audit and the resolutions may have something to do in every round, the other
\* jobs run out of it: fairness to them together is enough.
FairSpec ==
    /\ Spec
    /\ WF_vars(WorkerWorks)
    /\ SF_vars(AuditJob) /\ SF_vars(ResolutionJob) /\ SF_vars(OtherJob)
    /\ \A h \in Requests : WF_vars(RequestWorks(h))

-----------------------------------------------------------------------------
(***************************************************************************)
(* Properties                                                              *)
(***************************************************************************)
\* A member hears of an incident once, and so do the administrators, however many
\* requests and rounds of the worker find it due.  Only a delivery that failed,
\* of this incident or an earlier one, may add another message: its release
\* removes whatever mark is in the row (subscription_notifications.py:650).
ToldOnce == \A n \in Notices : heard[n].told <= 1 + heard[n].released

\* A mark in the row is true: the message of this incident has arrived, is about
\* to be sent by who claimed it, or was lost with its process.
InHand(n) ==
    \E p \in Processes : /\ task[p].step \in {"send", "release"}
                         /\ Hand(p) = n /\ n[2] \in task[p].current

MarksAreTrue ==
    \A n \in Notices :
        Marked(n[1], n[2]) /\ ~heard[n].lost => heard[n].told > 0 \/ InHand(n)

\* Told once and never marked without being told.
NoticesAreTold == ToldOnce /\ MarksAreTrue

\* Whatever is due for a notice is told in the end, unless it ends before or the
\* process that had claimed it was lost (nobody looks at a claimed mark again).
Reportable(job) ==
    IF job = "rule"
    THEN {s \in Unverified : RequiresAlert(sub[s].provider_recurring_status)}
    ELSE Due(job)

Owed(n) == n[2] \in Reportable(n[1]) /\ heard[n].told = 0 /\ ~heard[n].lost

EveryoneIsTold == \A n \in Notices : []<>~Owed(n)

\* An administrator who was alerted of a failure hears when it is over: the worker
\* retries failed deliveries (access.py:292), also after a restart.
Waits(a, sc) == a \in informed[sc] /\ ~trouble[sc] /\ ~mislaid[sc]

ResolutionsReachTheTold == \A sc \in Scope, a \in Admins : []<>~Waits(a, sc)

\* "Successful retries queue a resolution": who is told that the problem is
\* solved is told the truth.
ResolutionsAreTrue ==
    [][\A sc \in Scope : informed[sc] \ informed'[sc] # {} => ~trouble[sc]]_vars

\* A recipient recorded as served has the message, and nobody gets more copies
\* than attempts were recorded, but for two cases: the worker was lost with a copy in
\* hand, or Telegram asked for a pause over the buttons of a copy that had arrived
\* (broadcasts.py:104-120, telegram_content.py:43-54).
InFlight(b, u) == batch.id = b /\ batch.user = {u}

CopiesAreAccounted ==
    \A b \in DOMAIN broadcasts, u \in Users :
        /\ broadcasts[b].delivery[u] = "sent" => copies[b][u] > 0
        /\ copies[b][u] <= broadcasts[b].attempts[u] + pauses[b][u] + crashes
                           + (IF InFlight(b, u) THEN 1 ELSE 0)

\* Nobody is tried more often than the limit says, and whoever is still to be served
\* has an attempt left, whatever was paused, lost and read again between the attempts
\* (broadcasts.py:168-173).
AttemptsAreLimited ==
    \A b \in DOMAIN broadcasts, u \in Users :
        /\ broadcasts[b].attempts[u] <= MaxAttempts
        /\ broadcasts[b].delivery[u] = "pending" => broadcasts[b].attempts[u] < MaxAttempts

\* The counters of a finished broadcast say what happened to its recipients, and
\* none is left over, unless a batch of it was lost: then the last look finds
\* nobody pending and completes it without counting (broadcasts.py:100).
FinishedMeansCounted ==
    \A b \in DOMAIN broadcasts :
        broadcasts[b].status = "completed" =>
            /\ Recipients(b, "pending") = {}
            /\ b \notin uncounted =>
                  /\ broadcasts[b].sent_count = Cardinality(Recipients(b, "sent"))
                  /\ broadcasts[b].failed_count = Cardinality(Recipients(b, "failed"))

\* Together: what a broadcast records of itself is what its recipients got.
BroadcastsAddUp == CopiesAreAccounted /\ AttemptsAreLimited /\ FinishedMeansCounted

\* Whoever is recorded as served or given up gets no further copy, in whichever later
\* batch: after a pause, a lost worker, or a batch that was read before the record
\* (broadcasts.py:84-95).
ServedAreLeftAlone ==
    [][\A b \in DOMAIN broadcasts, u \in Users :
          broadcasts[b].delivery[u] # "pending" => copies'[b][u] = copies[b][u]]_vars

\* A broadcast is finished in the end, whatever becomes of single deliveries.
BroadcastsFinish == \A b \in Numbers : []<>(b \notin Unfinished)

=============================================================================
