------------------------------- MODULE Access -------------------------------
(***************************************************************************)
(* Access to the channels and groups of a plan (services/access.py and     *)
(* bot/system_router.py): personal invitations, the review of join         *)
(* requests, the removal of members whose subscription is overdue, and the *)
(* record of who banned whom.                                              *)
(*                                                                         *)
(* Three kinds of process run at once: create_invites for a user (the lock *)
(* on the user's row leaves one per user), the handler of a join request,  *)
(* and the worker's expire_due.  Every Telegram call and every transaction *)
(* is an action.  create_invites and the revocation keep one transaction   *)
(* open over all their Telegram calls: what they write to the membership   *)
(* rows waits in their task, and a failure forgets it while Telegram keeps *)
(* what was done.                                                          *)
(*                                                                         *)
(* A seat is a user's place in a resource.  Of the access events of a seat *)
(* only the latest matters (_owns_ban), so log holds that one, and         *)
(* undelivered the later moderation updates, oldest first, that Telegram   *)
(* has not delivered.  An update older than the latest event changes       *)
(* nothing and is not kept.  The clocks of Telegram and the bot agree.     *)
(***************************************************************************)
EXTENDS SubscriptionState, FiniteSets, Sequences

CONSTANTS
    Users,       \* Telegram accounts
    Subs,        \* subscriptions
    Owner,       \* the account of each subscription
    Covers,      \* the resources of each subscription's plan
    Order,       \* all resources, by sort_order
    ChatOwners,  \* seats of users who own the chat
    Worker,      \* the worker process
    None,        \* NULL
    AdminsWait,  \* TRUE: administrators leave alone a seat a process works on
    Grace,       \* grace period, in ticks
    InviteTTL,   \* lifetime of an invitation, in ticks
    MaxTime,     \* bound on the clock
    MaxPayments, \* bound on the payments
    MaxLinks,    \* bound on the invitations
    MaxMishaps   \* bound on failures, leaked invitations and manual bans together

Resources == {Order[i] : i \in 1..Len(Order)}
Seats == Users \X Resources

ASSUME AccessAssumption ==
    /\ Order \in Seq(Resources)
    /\ \A i, j \in DOMAIN Order : Order[i] = Order[j] => i = j
    /\ IsFiniteSet(Subs)
    /\ Owner \in [Subs -> Users] /\ Covers \in [Subs -> SUBSET Resources]
    /\ ChatOwners \subseteq Seats
    /\ AdminsWait \in BOOLEAN
    /\ Worker \notin Users /\ None \notin Subs \cup Users
    /\ Grace \in Nat /\ InviteTTL \in Nat \ {0}
    /\ MaxTime \in Nat /\ MaxPayments \in Nat /\ MaxLinks \in Nat
    /\ MaxMishaps \in Nat

VARIABLES
    now,         \* the clock
    sub,         \* subscription rows
    membership,  \* membership rows
    chat,        \* Telegram: who is in the chat
    by,          \* Telegram: who has banned the user since the last unban
    link,        \* Telegram: the invitations
    request,     \* Telegram: the seats with a pending join request
    log,         \* the latest access event of a seat
    undelivered, \* later moderation updates on their way
    task,        \* what create_invites and the worker are in the middle of
    review,      \* what the handler of a seat's join request is in the middle of
    paid,        \* history: subscriptions paid since the worker's last check
    overtaken,   \* history: seats banned again before an unban was recorded
    payments,    \* payments so far
    manual,      \* bans by administrators so far
    failures,    \* failures so far
    leaks        \* join requests with another user's invitation so far

database == <<sub, membership>>
telegram == <<chat, by, link, request>>
events   == <<log, undelivered>>
history  == <<paid, overtaken>>
bounds   == <<now, payments, manual, failures, leaks>>
vars == <<bounds, database, telegram, events, task, review, history>>

Processes == Users \cup {Worker}
BanEvent   == [bot |-> "bot_ban",   manual |-> "manual_ban"]
UnbanEvent == [bot |-> "bot_unban", manual |-> "manual_unban"]
BanEvents  == {"bot_ban", "bot_unban", "manual_ban", "manual_unban"}

\* MembershipStatus with "none" for no row; link 0 and until 0 are NULL.
Membership == [status : {"none", "invited", "active", "revoked"},
               link   : 0..MaxLinks,
               until  : Nat]

NoMembership == [status |-> "none", link |-> 0, until |-> 0]

\* A membership row as the transaction loaded it and as it will store it.
Write == [seat : Seats, loaded : Membership, stored : Membership]

Task == [step     : {"idle", "check", "unban", "verify", "record",
                     "link", "commit",
                     "next", "covered", "ban", "banned", "removed"},
         sub      : Subs \cup {None},
         batch    : Seq(Subs),
         cutoff   : Int,
         todo     : Seq(Resources),
         writes   : SUBSET Write,
         complete : BOOLEAN]

IdleTask == [step |-> "idle", sub |-> None, batch |-> <<>>, cutoff |-> 0,
             todo |-> <<>>, writes |-> {}, complete |-> TRUE]

Review == [step   : {"idle", "review", "approve", "approved", "join",
                     "decline", "declined", "clear"},
           link   : 0..MaxLinks,
           holder : Users \cup {None}]

IdleReview == [step |-> "idle", link |-> 0, holder |-> None]

MayGoWrong == manual + failures + leaks < MaxMishaps

At(p, step) == task[p].step = step
Goto(p, step) == task' = [task EXCEPT ![p].step = step]

\* The seat a process works on.
Target(p) == <<IF p = Worker THEN Owner[task[p].sub] ELSE p, Head(task[p].todo)>>

\* The subscriptions of a user that entitle to a seat at a cutoff.
CoveredAfter(m, cutoff) ==
    {s \in Subs : /\ Owner[s] = m[1] /\ m[2] \in Covers[s]
                  /\ sub[s].status \in Entitled
                  /\ sub[s].current_period_end > cutoff}

\* A query's rows: all of S, none before one that sorts earlier.
Listings(S, before) ==
    {q \in [1..Cardinality(S) -> S] :
        /\ \A x \in S : \E i \in DOMAIN q : q[i] = x
        /\ \A i, j \in DOMAIN q : i < j => <<q[j], q[i]>> \notin before}

\* By sort_order, by current_period_end, or as the database returns them.
Sorted == {rt \in Resources \X Resources :
             \E i, j \in DOMAIN Order : i < j /\ rt = <<Order[i], Order[j]>>}
EndsBefore == {st \in Subs \X Subs :
                 sub[st[1]].current_period_end < sub[st[2]].current_period_end}
Unsorted == {}

\* Columns the transaction has changed are stored, the others stay.
Merge(row, w) ==
    [f \in {"status", "link", "until"} |->
        IF w.stored[f] = w.loaded[f] THEN row[f] ELSE w.stored[f]]

Commit(writes) ==
    membership' = [m \in Seats |->
        IF \E w \in writes : w.seat = m
        THEN Merge(membership[m], CHOOSE w \in writes : w.seat = m)
        ELSE membership[m]]

\* One subscription is active; the others have not been paid for.
Init ==
    /\ now = 0
    /\ \E first \in Subs :
          sub = [s \in Subs |-> IF s = first THEN NewSubscription(0, 1, "active")
                                             ELSE NoSubscription]
    /\ membership  = [m \in Seats |-> NoMembership]
    /\ chat        = [m \in Seats |-> IF m \in ChatOwners THEN "owner" ELSE "left"]
    /\ by          = [m \in Seats |-> {}]
    /\ link        = <<>>
    /\ request     = {}
    /\ log         = [m \in Seats |-> "none"]
    /\ undelivered = [m \in Seats |-> <<>>]
    /\ task        = [p \in Processes |-> IdleTask]
    /\ review      = [m \in Seats |-> IdleReview]
    /\ paid        = {}
    /\ overtaken   = {}
    /\ payments    = 0
    /\ manual      = 0
    /\ failures    = 0
    /\ leaks       = 0

-----------------------------------------------------------------------------
(***************************************************************************)
(* Telegram.  Banning removes the user from the chat and dismisses a       *)
(* pending join request; a change of the ban is announced to the bot.      *)
(***************************************************************************)
Announce(m, event) ==
    undelivered' = [undelivered EXCEPT ![m] = Append(@, event)]

Ban(m, who) ==
    /\ chat'    = [chat EXCEPT ![m] = "left"]
    /\ by'      = [by EXCEPT ![m] = @ \cup {who}]
    /\ request' = request \ {m}
    /\ IF by[m] = {} THEN Announce(m, BanEvent[who]) ELSE UNCHANGED undelivered
    /\ UNCHANGED <<link, log>>

Unban(m, who) ==
    /\ by' = [by EXCEPT ![m] = {}]
    /\ IF by[m] # {} THEN Announce(m, UnbanEvent[who]) ELSE UNCHANGED undelivered
    /\ UNCHANGED <<chat, link, request, log>>

Usable(l) == link[l].alive /\ link[l].until > now

\* Revoking an invitation; an unknown or revoked one is a suppressed error.
RevokeLink(l) == IF l = 0 THEN link ELSE [link EXCEPT ![l].alive = FALSE]

\* Faulty variant: the bot's own moves are taken for an administrator's.
DeliverUpdateManual(m) ==
    /\ \E k \in 1..Len(undelivered[m]) :
          /\ log' = [log EXCEPT ![m] =
                        IF undelivered[m][k] \in {"bot_ban", "manual_ban"}
                        THEN "manual_ban" ELSE "manual_unban"]
          /\ undelivered' =
                [undelivered EXCEPT ![m] = SubSeq(@, k + 1, Len(@))]
    /\ UNCHANGED <<bounds, database, telegram, task, review, history>>

\* A moderation update reaches track_member_moderation, in any order.
DeliverUpdate(m) ==
    /\ \E k \in 1..Len(undelivered[m]) :
          /\ log' = [log EXCEPT ![m] = undelivered[m][k]]
          /\ undelivered' =
                [undelivered EXCEPT ![m] = SubSeq(@, k + 1, Len(@))]
    /\ UNCHANGED <<bounds, database, telegram, task, review, history>>

\* record_access_event at the bot's own time: later than all that happened.
RecordEvent(m, event) ==
    /\ log'         = [log EXCEPT ![m] = event]
    /\ undelivered' = [undelivered EXCEPT ![m] = <<>>]

\* Faulty variant: any recorded ban will do.
OwnsRecordedBan(m) == log[m] \in {"bot_ban", "manual_ban"}

OwnsBan(m) == log[m] = "bot_ban"

WorksOn(p, m) == task[p].todo # <<>> /\ Target(p) = m

MayModerate(m) == AdminsWait => \A p \in Processes : ~WorksOn(p, m)

ManualBan(m) ==
    /\ MayGoWrong /\ MayModerate(m)
    /\ chat[m] # "owner" /\ "manual" \notin by[m]
    /\ Ban(m, "manual")
    /\ manual' = manual + 1
    /\ UNCHANGED <<now, payments, failures, leaks, database, task, review, history>>

ManualUnban(m) ==
    /\ MayModerate(m) /\ by[m] # {}
    /\ Unban(m, "manual")
    /\ UNCHANGED <<bounds, database, task, review, history>>

-----------------------------------------------------------------------------
(***************************************************************************)
(* Time and payments.  A payment waits while the revocation locks the row. *)
(***************************************************************************)
Tick ==
    /\ now < MaxTime
    /\ now' = now + 1
    /\ UNCHANGED <<payments, manual, failures, leaks, database, telegram, events,
                   task, review, history>>

Locked(s) ==
    /\ task[Worker].sub = s
    /\ task[Worker].step \notin {"idle", "next"}

Pay(s) ==
    /\ payments < MaxPayments /\ ~Locked(s)
    /\ sub' = [sub EXCEPT ![s] =
          IF @.status = "none" THEN NewSubscription(now, 1, "active")
                               ELSE ExtendSubscription(@, 1, now)]
    /\ payments' = payments + 1
    /\ paid' = IF task[Worker].todo = <<>> THEN paid ELSE paid \cup {s}
    /\ UNCHANGED <<now, manual, failures, leaks, membership, telegram, events, task,
                   review, overtaken>>

-----------------------------------------------------------------------------
(***************************************************************************)
(* Lifting a ban of the bot: for create_invites and for the worker.        *)
(***************************************************************************)
LiftBan(p) ==
    /\ At(p, "unban")
    /\ Unban(Target(p), "bot")
    /\ Goto(p, "verify")
    /\ UNCHANGED <<bounds, database, review, history>>

VerifyUnban(p) ==
    /\ At(p, "verify") /\ by[Target(p)] = {}
    /\ Goto(p, "record")
    /\ UNCHANGED <<bounds, database, telegram, events, review, history>>

RecordUnban(p) ==
    /\ At(p, "record")
    /\ RecordEvent(Target(p), "bot_unban")
    /\ Goto(p, IF p = Worker THEN "removed" ELSE "link")
    /\ overtaken' = IF by[Target(p)] = {} THEN overtaken ELSE overtaken \cup {Target(p)}
    /\ UNCHANGED <<bounds, database, telegram, review, paid>>

\* An exception rolls the transaction back; the worker goes on with its batch.
Abort(p) ==
    task' = [task EXCEPT ![p] =
        IF p = Worker THEN [IdleTask EXCEPT !.step   = "next",
                                            !.batch  = task[p].batch,
                                            !.cutoff = task[p].cutoff]
                      ELSE IdleTask]

\* Telegram reports the user as banned after the unban.
UnbanFailed(p) ==
    /\ At(p, "verify") /\ by[Target(p)] # {}
    /\ Abort(p)
    /\ UNCHANGED <<bounds, database, telegram, events, review, history>>

\* A call raises, before or after it took effect, or the process is lost.
Fail(p) ==
    /\ MayGoWrong
    /\ task[p].step \notin {"idle", "next"}
    /\ Abort(p)
    /\ failures' = failures + 1
    /\ UNCHANGED <<now, payments, manual, leaks, database, telegram, events, review,
                   history>>

-----------------------------------------------------------------------------
(***************************************************************************)
(* create_invites                                                          *)
(***************************************************************************)
BeginInvites(u) ==
    /\ At(u, "idle")
    /\ LET covered == {r \in Resources : CoveredAfter(<<u, r>>, now - Grace) # {}}
       IN  /\ covered # {}
           /\ \E todo \in Listings(covered, Sorted) :
                 task' = [task EXCEPT ![u] = [IdleTask EXCEPT !.step = "check",
                                                              !.todo = todo]]
    /\ UNCHANGED <<bounds, database, telegram, events, review, history>>

\* _ensure_not_banned: only a ban the bot knows to be its own is lifted.
EnsureNotBanned(u) ==
    /\ At(u, "check")
    /\ \/ by[Target(u)] = {} /\ Goto(u, "link")
       \/ by[Target(u)] # {} /\ OwnsBan(Target(u)) /\ Goto(u, "unban")
       \/ by[Target(u)] # {} /\ ~OwnsBan(Target(u)) /\ Abort(u)
    /\ UNCHANGED <<bounds, database, telegram, events, review, history>>

\* The invitation the user has is good for another use.
Reusable(row) == row.status = "invited" /\ row.link # 0 /\ row.until > now

Advance(u, writes) ==
    task' = [task EXCEPT
        ![u].step   = IF Len(task[u].todo) > 1 THEN "check" ELSE "commit",
        ![u].todo   = Tail(@),
        ![u].writes = writes]

ReuseInvite(u) ==
    /\ At(u, "link")
    /\ Reusable(membership[Target(u)])
    /\ Advance(u, task[u].writes)
    /\ UNCHANGED <<bounds, database, telegram, events, review, history>>

\* An older invitation is revoked before the new one is created.
CreateInvite(u) ==
    /\ At(u, "link") /\ Len(link) < MaxLinks
    /\ LET m   == Target(u)
           row == membership[m]
           new == [status |-> "invited", link |-> Len(link) + 1,
                   until  |-> now + InviteTTL]
       IN  /\ ~Reusable(row)
           /\ link' = Append(RevokeLink(row.link),
                             [seat |-> m, until |-> new.until, alive |-> TRUE])
           /\ Advance(u, task[u].writes \cup
                             {[seat |-> m, loaded |-> row, stored |-> new]})
    /\ UNCHANGED <<bounds, database, chat, by, request, events, review, history>>

CommitInvites(u) ==
    /\ At(u, "commit")
    /\ Commit(task[u].writes)
    /\ task' = [task EXCEPT ![u] = IdleTask]
    /\ UNCHANGED <<bounds, sub, telegram, events, review, history>>

-----------------------------------------------------------------------------
(***************************************************************************)
(* expire_due and revoke_subscription_access                               *)
(***************************************************************************)
Overdue(cutoff) == {s \in Subs : IsDueForExpiration(sub[s], cutoff)}

BeginExpire ==
    LET cutoff == now - Grace
    IN  /\ At(Worker, "idle") /\ Overdue(cutoff) # {}
        /\ \E batch \in Listings(Overdue(cutoff), EndsBefore) :
              task' = [task EXCEPT ![Worker] =
                 [IdleTask EXCEPT !.step   = "next",
                                  !.batch  = batch,
                                  !.cutoff = cutoff]]
        /\ UNCHANGED <<bounds, database, telegram, events, review, history>>

EndExpire ==
    /\ At(Worker, "next") /\ task[Worker].batch = <<>>
    /\ task' = [task EXCEPT ![Worker] = IdleTask]
    /\ UNCHANGED <<bounds, database, telegram, events, review, history>>

\* The provider's rule can still charge (Recurring), or the row has changed.
SkipSubscription ==
    /\ At(Worker, "next") /\ task[Worker].batch # <<>>
    /\ \/ Head(task[Worker].batch) \notin Overdue(task[Worker].cutoff)
       \/ MayGoWrong
    /\ failures' = IF Head(task[Worker].batch) \notin Overdue(task[Worker].cutoff)
                   THEN failures ELSE failures + 1
    /\ task' = [task EXCEPT ![Worker].batch = Tail(@)]
    /\ UNCHANGED <<now, payments, manual, leaks, database, telegram, events, review,
                   history>>

StepAt(todo) == IF todo = <<>> THEN "commit" ELSE "covered"

\* The row is locked and read again; the resources of a plan have no order.
LockSubscription ==
    /\ At(Worker, "next") /\ task[Worker].batch # <<>>
    /\ LET s == Head(task[Worker].batch)
       IN  /\ s \in Overdue(task[Worker].cutoff)
           /\ \E todo \in Listings(Covers[s], Unsorted) :
                 task' = [task EXCEPT ![Worker].step  = StepAt(todo),
                                      ![Worker].sub   = s,
                                      ![Worker].batch = Tail(@),
                                      ![Worker].todo  = todo]
    /\ UNCHANGED <<bounds, database, telegram, events, review, history>>

\* On to the next resource.
Proceed(writes, complete) ==
    task' = [task EXCEPT ![Worker].step     = StepAt(Tail(task[Worker].todo)),
                         ![Worker].todo     = Tail(@),
                         ![Worker].writes   = writes,
                         ![Worker].complete = complete]

\* Faulty variant: only the expired subscription itself is looked at.
OtherEntitlementNone == {}

\* Another subscription may still cover the resource.
OtherEntitlement ==
    CoveredAfter(Target(Worker), task[Worker].cutoff) \ {task[Worker].sub}

CheckCovered ==
    /\ At(Worker, "covered")
    /\ IF OtherEntitlement # {}
       THEN Proceed(task[Worker].writes, task[Worker].complete)
       ELSE Goto(Worker, "check")
    /\ paid' = {}
    /\ UNCHANGED <<bounds, database, telegram, events, review, overtaken>>

\* _remove_member: a banned user is not banned again.
CheckMember ==
    /\ At(Worker, "check")
    /\ Goto(Worker, IF by[Target(Worker)] = {} THEN "ban"
                    ELSE IF OwnsBan(Target(Worker)) THEN "unban" ELSE "removed")
    /\ UNCHANGED <<bounds, database, telegram, events, review, history>>

BanMember ==
    /\ At(Worker, "ban") /\ chat[Target(Worker)] # "owner"
    /\ Ban(Target(Worker), "bot")
    /\ Goto(Worker, "banned")
    /\ UNCHANGED <<bounds, database, review, history>>

\* Telegram refuses to remove the owner of a chat.
BanRefused ==
    /\ At(Worker, "ban") /\ chat[Target(Worker)] = "owner"
    /\ Proceed(task[Worker].writes, FALSE)
    /\ UNCHANGED <<bounds, database, telegram, events, review, history>>

RecordBan ==
    /\ At(Worker, "banned")
    /\ RecordEvent(Target(Worker), "bot_ban")
    /\ Goto(Worker, "unban")
    /\ UNCHANGED <<bounds, database, telegram, review, history>>

RevokeMembership ==
    /\ At(Worker, "removed")
    /\ LET m   == Target(Worker)
           row == membership[m]
           new == [row EXCEPT !.status = "revoked", !.link = 0]
       IN  IF row.status = "none"
           THEN /\ Proceed(task[Worker].writes, task[Worker].complete)
                /\ UNCHANGED link
           ELSE /\ Proceed(task[Worker].writes \cup
                             {[seat |-> m, loaded |-> row, stored |-> new]},
                           task[Worker].complete)
                /\ link' = RevokeLink(row.link)
    /\ UNCHANGED <<bounds, database, chat, by, request, events, review, history>>

CommitExpire ==
    /\ At(Worker, "commit")
    /\ LET s == task[Worker].sub
       IN  sub' = [sub EXCEPT ![s] = ExpireSubscription(@, task[Worker].complete)]
    /\ Commit(task[Worker].writes)
    /\ Abort(Worker)
    /\ UNCHANGED <<bounds, telegram, events, review, history>>

-----------------------------------------------------------------------------
(***************************************************************************)
(* Join requests                                                           *)
(***************************************************************************)
Handling(m, step) == review[m].step = step

Answer(m, step) == review' = [review EXCEPT ![m].step = step]

Handled(m) == review' = [review EXCEPT ![m] = IdleReview]

\* Whoever has the link asks to join; Telegram tells the bot.
Request(m, l) ==
    /\ Handling(m, "idle") /\ chat[m] = "left" /\ by[m] = {}
    /\ Usable(l) /\ link[l].seat[2] = m[2]
    /\ IF link[l].seat = m THEN UNCHANGED leaks
                           ELSE MayGoWrong /\ leaks' = leaks + 1
    /\ request' = request \cup {m}
    /\ review' = [review EXCEPT ![m] = [step |-> "review", link |-> l, holder |-> None]]
    /\ UNCHANGED <<now, payments, manual, failures, database, chat, by, link, events,
                   task, history>>

Holders(m) == {u \in Users : membership[<<u, m[2]>>].link = review[m].link}

\* Faulty variant: whoever has the link may come in.
AllowedForeign(m, u) ==
    LET seat == <<u, m[2]>>
    IN  /\ membership[seat].status = "invited" /\ membership[seat].until > now
        /\ CoveredAfter(seat, now - Grace) # {}

\* The applicant is the holder, the invitation is current, and a subscription
\* of the holder covers the resource.
Allowed(m, u) ==
    /\ u = m[1]
    /\ membership[m].status = "invited" /\ membership[m].until > now
    /\ CoveredAfter(m, now - Grace) # {}

ReviewRequest(m) ==
    /\ Handling(m, "review")
    /\ \/ /\ Holders(m) = {}
          /\ Answer(m, "decline")
       \/ \E u \in Holders(m) :
             review' = [review EXCEPT ![m].step = IF Allowed(m, u) THEN "approve"
                                                                   ELSE "decline",
                                      ![m].holder = u]
    /\ UNCHANGED <<bounds, database, telegram, events, task, history>>

\* A request that Telegram has dismissed cannot be approved: the call raises.
Approve(m) ==
    /\ Handling(m, "approve")
    /\ IF m \in request
       THEN /\ chat' = [chat EXCEPT ![m] = "member"]
            /\ Answer(m, "approved")
       ELSE /\ Handled(m)
            /\ UNCHANGED chat
    /\ request' = request \ {m}
    /\ UNCHANGED <<bounds, database, by, link, events, task, history>>

Decline(m) ==
    /\ Handling(m, "decline")
    /\ request' = request \ {m}
    /\ IF review[m].holder = None THEN Handled(m) ELSE Answer(m, "declined")
    /\ UNCHANGED <<bounds, database, chat, by, link, events, task, history>>

\* The invitation is used up, or it has leaked.
BurnLink(m) ==
    /\ \/ Handling(m, "approved") /\ Answer(m, "join")
       \/ Handling(m, "declined") /\ Answer(m, "clear")
    /\ link' = RevokeLink(review[m].link)
    /\ UNCHANGED <<bounds, database, chat, by, request, events, task, history>>

\* The row is changed only if it still holds the link that was reviewed.
Store(m, row) ==
    LET seat == <<review[m].holder, m[2]>>
    IN  membership' = IF membership[seat].link = review[m].link
                      THEN [membership EXCEPT ![seat] = row]
                      ELSE membership

\* Faulty variant: Telegram's status is stored instead of the club's.
MarkJoinedMember(m) ==
    /\ Handling(m, "join")
    /\ Store(m, [status |-> "member", link |-> 0, until |-> 0])
    /\ Handled(m)
    /\ UNCHANGED <<bounds, sub, telegram, events, task, history>>

MarkJoined(m) ==
    /\ Handling(m, "join")
    /\ Store(m, [status |-> "active", link |-> 0, until |-> 0])
    /\ Handled(m)
    /\ UNCHANGED <<bounds, sub, telegram, events, task, history>>

ClearPending(m) ==
    /\ Handling(m, "clear")
    /\ Store(m, [membership[<<review[m].holder, m[2]>>] EXCEPT !.link = 0, !.until = 0])
    /\ Handled(m)
    /\ UNCHANGED <<bounds, sub, telegram, events, task, history>>

FailReview(m) ==
    /\ MayGoWrong /\ ~Handling(m, "idle")
    /\ Handled(m)
    /\ failures' = failures + 1
    /\ UNCHANGED <<now, payments, manual, leaks, database, telegram, events, task,
                   history>>

-----------------------------------------------------------------------------
Unbanning(p) == LiftBan(p) \/ VerifyUnban(p) \/ RecordUnban(p) \/ UnbanFailed(p)

Invites(u) ==
    \/ BeginInvites(u) \/ EnsureNotBanned(u) \/ Unbanning(u)
    \/ ReuseInvite(u) \/ CreateInvite(u) \/ CommitInvites(u)

Expiration ==
    \/ BeginExpire \/ EndExpire \/ SkipSubscription \/ LockSubscription
    \/ CheckCovered \/ CheckMember \/ BanMember \/ BanRefused \/ RecordBan
    \/ Unbanning(Worker) \/ RevokeMembership \/ CommitExpire

JoinRequest(m) ==
    \/ ReviewRequest(m) \/ Approve(m) \/ Decline(m) \/ BurnLink(m)
    \/ MarkJoined(m) \/ ClearPending(m)

Surroundings ==
    \/ Tick
    \/ \E s \in Subs : Pay(s)
    \/ \E s \in Subs, r \in Resources :
          ManualBan(<<Owner[s], r>>) \/ ManualUnban(<<Owner[s], r>>)
    \/ \E m \in Seats, l \in 1..Len(link) : Request(m, l)

Next ==
    \/ Surroundings
    \/ \E m \in Seats : DeliverUpdate(m) \/ JoinRequest(m) \/ FailReview(m)
    \/ \E u \in Users : Invites(u)
    \/ Expiration
    \/ \E p \in Processes : Fail(p)

Spec == Init /\ [][Next]_vars

-----------------------------------------------------------------------------
(***************************************************************************)
(* Properties                                                              *)
(***************************************************************************)
TypeOK ==
    /\ now \in Nat /\ payments \in Nat /\ manual \in Nat /\ failures \in Nat /\ leaks \in Nat
    /\ sub \in [Subs -> SubscriptionRow]
    /\ membership \in [Seats -> Membership]
    /\ chat \in [Seats -> {"left", "member", "owner"}]
    /\ by \in [Seats -> SUBSET {"bot", "manual"}]
    /\ link \in Seq([seat : Seats, until : Nat, alive : BOOLEAN])
    /\ Len(link) <= MaxLinks
    /\ request \subseteq Seats
    /\ log \in [Seats -> BanEvents \cup {"none"}]
    /\ undelivered \in [Seats -> Seq(BanEvents)]
    /\ task \in [Processes -> Task]
    /\ review \in [Seats -> Review]
    /\ paid \subseteq Subs /\ overtaken \subseteq Seats

\* Whoever the bot has let into a chat has a subscription that covers it and
\* has not been expired: nobody slips in behind a removal, nobody gets in on
\* another user's link, and a removal does not leave a member behind.
MembersAreCovered ==
    \A m \in Seats : chat[m] = "member" =>
        \E s \in Subs : /\ Owner[s] = m[1] /\ m[2] \in Covers[s]
                        /\ sub[s].status \in Entitled

\* The worker bans nobody out of a resource that another subscription covers,
\* unless it was paid after the worker had looked.
CoveredStays ==
    [][\A m \in Seats :
          "bot" \in by'[m] \ by[m] =>
             CoveredAfter(m, now - Grace) \subseteq paid]_vars

\* "Expiration of one subscription cannot remove access still covered by
\* another" (README), with nothing said of when the other was paid.  The code
\* does not keep this (README, section 8).
CoveredIsNotRemoved ==
    [][\A m \in Seats :
          "bot" \in by'[m] \ by[m] => CoveredAfter(m, now - Grace) = {}]_vars

\* A ban of the bot alone is on record as the bot's, or will be: only such a ban
\* can be lifted without an administrator.  The one way to lose track of it is an
\* unban that is recorded after a newer ban.
BotBansAreKnown ==
    \A m \in Seats \ overtaken : by[m] = {"bot"} =>
        \/ OwnsBan(m)
        \/ \E k \in 1..Len(undelivered[m]) : undelivered[m][k] = "bot_ban"

\* While all updates are in, no process decides to lift a ban that only
\* administrators have set.
ManualBansStand ==
    [][\A p \in Processes :
          /\ task[p].step = "check" /\ task'[p].step = "unban"
          /\ undelivered[Target(p)] = <<>>
          => "bot" \in by[Target(p)]]_vars

\* When nothing has failed and nobody is working on it, the invitation a row
\* offers for another use is one that Telegram still accepts.
StoredInvitesWork ==
    \A m \in Seats :
        /\ failures = 0
        /\ \A p \in Processes : At(p, "idle")
        /\ \A h \in Seats : Handling(h, "idle")
        /\ Reusable(membership[m])
        => Usable(membership[m].link)

\* What the tables say of Telegram is true, of its bans and of its invitations.
RecordsAreTrue == BotBansAreKnown /\ StoredInvitesWork

=============================================================================
