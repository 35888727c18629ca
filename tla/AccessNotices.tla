---------------------------- MODULE AccessNotices ----------------------------
(***************************************************************************)
(* What administrators are told when access cannot be granted or revoked,  *)
(* and when it could be after all (services/access.py, the access_notice   *)
(* rows of app_settings).                                                  *)
(*                                                                         *)
(* A notice is kept per scope: per member for the grants, per subscription *)
(* for the revocations.  It holds the administrators who have got the      *)
(* alert, and whether the operation has succeeded since.  An alert, the    *)
(* mark and the delivery of one resolution are a transaction each, with    *)
(* the notice locked while the messages are sent; if it is rolled back the *)
(* messages have been sent all the same.                                   *)
(*                                                                         *)
(* The list of administrators is fixed, and the alerts are enabled         *)
(* (ACCESS_ERROR_ADMIN_ALERTS_ENABLED).                                    *)
(***************************************************************************)
EXTENDS WorkerLoop, FiniteSets

CONSTANTS
    Admins     \* who list_admins returns

VARIABLES
    notice,   \* the notices
    errand,   \* what every process is doing about them
    trouble,  \* history: the operation has failed since it last succeeded
    informed, \* history: whom Telegram confirmed an alert and no resolution since
    mislaid   \* history: an alert or a success was lost with its process

noticeVars == <<notice, errand, trouble, informed, mislaid>>

Scope == Users \cup Subs

\* "open" is FALSE for a row that does not exist.
Notice == [open : BOOLEAN, notified : SUBSET Admins, resolved : BOOLEAN]
NoNotice == [open |-> FALSE, notified |-> {}, resolved |-> FALSE]

\* A process is about to alert of a failure, to mark a success, to list the
\* resolutions, or is delivering them.  Only a revocation has its mark set already.
Errand == [step : {"idle", "alert", "resolve", "list", "deliver"},
           scopes : SUBSET Scope]
NoErrand == [step |-> "idle", scopes |-> {}]

AtErrand(p, step) == errand[p].step = step
Goes(p, step, scopes) ==
    errand' = [errand EXCEPT ![p] = [step |-> step, scopes |-> scopes]]

NoticesInit ==
    /\ notice   = [sc \in Scope |-> NoNotice]
    /\ errand   = [p \in Processes |-> NoErrand]
    /\ trouble  = [sc \in Scope |-> FALSE]
    /\ informed = [sc \in Scope |-> {}]
    /\ mislaid  = [sc \in Scope |-> FALSE]

NoticesTypes ==
    /\ notice \in [Scope -> Notice]
    /\ errand \in [Processes -> Errand]
    /\ trouble \in [Scope -> BOOLEAN]
    /\ informed \in [Scope -> SUBSET Admins]
    /\ mislaid \in [Scope -> BOOLEAN]

-----------------------------------------------------------------------------
\* create_invites succeeds or fails; who asks was entitled to them.
GrantSucceeds(p, u) ==
    /\ AtErrand(p, "idle")
    /\ Event
    /\ trouble' = [trouble EXCEPT ![u] = FALSE]
    /\ Goes(p, "resolve", {u})
    /\ UNCHANGED <<notice, informed, mislaid>>

GrantFails(p, u) ==
    /\ AtErrand(p, "idle")
    /\ Event
    /\ trouble' = [trouble EXCEPT ![u] = TRUE]
    /\ Goes(p, "alert", {u})
    /\ UNCHANGED <<notice, informed, mislaid>>

\* Who has not been told yet is told, and remembered if Telegram accepted it.
Alert(p, sc) ==
    /\ AtErrand(p, "alert") /\ sc \in errand[p].scopes
    /\ \E got \in SUBSET (Admins \ notice[sc].notified) :
          /\ IF got = Admins \ notice[sc].notified THEN Smooth ELSE Fails
          /\ notice' = [notice EXCEPT ![sc].open = TRUE, ![sc].notified = @ \cup got]
          /\ informed' = [informed EXCEPT ![sc] = @ \cup got]
    /\ Goes(p, "idle", {})
    /\ UNCHANGED <<trouble, mislaid>>

\* Faulty variant: the success is not marked.
MarkedNever(n) == n

\* The row of a notice once its operation has succeeded.
MarkedResolved(n) == [n EXCEPT !.resolved = n.open]

Resolve(p, sc) ==
    /\ AtErrand(p, "resolve") /\ sc \in errand[p].scopes
    /\ notice' = [notice EXCEPT ![sc] = MarkedResolved(@)]
    /\ Goes(p, "list", {})
    /\ Smooth
    /\ UNCHANGED <<trouble, informed, mislaid>>

Delivers(p, scopes) == Goes(p, IF scopes = {} THEN "idle" ELSE "deliver", scopes)

\* deliver_access_resolutions: after a grant, and by the worker.
OpenNotices == {sc \in Scope : notice[sc].open}

ListResolutions(p) ==
    /\ AtErrand(p, "list")
    /\ Delivers(p, OpenNotices)
    /\ Smooth
    /\ UNCHANGED <<notice, trouble, informed, mislaid>>

RetryResolutions ==
    /\ AtErrand(Worker, "idle")
    /\ OpenNotices # {}
    /\ Delivers(Worker, OpenNotices)
    /\ Smooth
    /\ UNCHANGED <<notice, trouble, informed, mislaid>>

\* Those who have not got it remain; without any the row is deleted.
Delivered(n, got) ==
    IF n.notified \subseteq got THEN NoNotice
    ELSE [n EXCEPT !.notified = @ \ got]

Deliver(p, sc) ==
    /\ AtErrand(p, "deliver") /\ sc \in errand[p].scopes
    /\ notice[sc].open /\ notice[sc].resolved
    /\ \E got \in SUBSET notice[sc].notified :
          /\ IF got = notice[sc].notified THEN Smooth ELSE Fails
          /\ notice' = [notice EXCEPT ![sc] = Delivered(@, got)]
          /\ informed' = [informed EXCEPT ![sc] = @ \ got]
    /\ Delivers(p, errand[p].scopes \ {sc})
    /\ UNCHANGED <<trouble, mislaid>>

NothingToDeliver(p, sc) ==
    /\ AtErrand(p, "deliver") /\ sc \in errand[p].scopes
    /\ ~(notice[sc].open /\ notice[sc].resolved)
    /\ Delivers(p, errand[p].scopes \ {sc})
    /\ Smooth
    /\ UNCHANGED <<notice, trouble, informed, mislaid>>

\* A transaction is rolled back after some of its messages, or the process is
\* lost before the success is marked.
ErrandLost(p) ==
    /\ CASE AtErrand(p, "alert") ->
              \E sc \in errand[p].scopes, got \in SUBSET Admins :
                 /\ got \cap notice[sc].notified = {}
                 /\ informed' = [informed EXCEPT ![sc] = @ \cup got]
                 /\ mislaid' = [mislaid EXCEPT ![sc] = TRUE]
         [] AtErrand(p, "resolve") ->
              /\ mislaid' = [sc \in Scope |-> mislaid[sc] \/ sc \in errand[p].scopes]
              /\ UNCHANGED informed
         [] AtErrand(p, "deliver") ->
              /\ \/ UNCHANGED informed
                 \/ \E sc \in errand[p].scopes, got \in SUBSET Admins :
                       /\ notice[sc].resolved /\ got \subseteq notice[sc].notified
                       /\ informed' = [informed EXCEPT ![sc] = @ \ got]
              /\ UNCHANGED mislaid
         [] OTHER -> UNCHANGED <<informed, mislaid>>
    /\ Goes(p, "idle", {})
    /\ UNCHANGED <<notice, trouble>>

\* An exception while an alert is sent is only logged.
AlertSwallowed(p) ==
    /\ AtErrand(p, "alert")
    /\ Crashes
    /\ ErrandLost(p)

ErrandSteps(p) ==
    \/ \E sc \in Scope :
          Alert(p, sc) \/ Resolve(p, sc) \/ Deliver(p, sc) \/ NothingToDeliver(p, sc)
    \/ ListResolutions(p)

=============================================================================
