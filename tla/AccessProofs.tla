---------------------------- MODULE AccessProofs ----------------------------
(***************************************************************************)
(* Nobody is in a chat without a subscription that covers it, the worker   *)
(* bans nobody whom it could have known to be covered, the bot knows its   *)
(* own bans and lifts no others, and the invitations it has stored work.   *)
(***************************************************************************)
EXTENDS Access, FiniteSetTheorems, TLAPS

-----------------------------------------------------------------------------
(***************************************************************************)
(* The invariant                                                           *)
(***************************************************************************)
Busy == task[Worker].step \notin {"idle", "next"}

\* A process at a resource has one to do, and the worker a subscription.
Shaped(p, t) ==
    /\ t.step \notin {"idle", "next", "commit"} => t.todo # <<>>
    /\ p = Worker =>
          /\ t.step \notin {"idle", "next"} => t.sub \in Subs
          /\ t.step = "commit" => t.todo = <<>>

TasksShaped == \A p \in Processes : Shaped(p, task[p])

\* A pending request is of somebody who is neither banned nor an owner.
RequestsOpen ==
    \A m \in Seats :
        /\ m \in request => chat[m] # "owner" /\ by[m] = {}
        /\ by[m] # {} => chat[m] # "member"

\* In the chat, or one answer of Telegram away from it.
Admitted(m) ==
    chat[m] = "member" \/ (m \in request /\ Handling(m, "approve"))

Entitling(m) ==
    {s \in Subs : /\ Owner[s] = m[1] /\ m[2] \in Covers[s]
                  /\ sub[s].status \in Entitled}

AdmittedAreCovered == \A m \in Seats : Admitted(m) => Entitling(m) # {}

\* The steps of the worker after which nobody gets in on the subscription that
\* it expires.
Out == {"banned", "unban", "verify", "record", "removed"}

\* The worker has dealt with resource r.
Cleared(r) ==
    \A i \in 1..Len(task[Worker].todo) :
        task[Worker].todo[i] = r => i = 1 /\ task[Worker].step \in Out

\* Whoever is left in a resource that the worker has dealt with has another
\* subscription for it than the locked one.
LeftCovered(r) ==
    Cleared(r) /\ Admitted(<<Owner[task[Worker].sub], r>>) =>
        Entitling(<<Owner[task[Worker].sub], r>>) \ {task[Worker].sub} # {}

\* The locked subscription is still overdue.
StillDue == IsDueForExpiration(sub[task[Worker].sub], task[Worker].cutoff)

RemovalSound ==
    /\ ~At(Worker, "idle") => task[Worker].cutoff <= now - Grace
    /\ Busy => StillDue /\ \A r \in Covers[task[Worker].sub] : LeftCovered(r)

\* The answer that no other subscription covers the seat is only made wrong by
\* a payment.
LookedSound ==
    At(Worker, "check") \/ At(Worker, "ban") => OtherEntitlement \subseteq paid

AccessInv ==
    /\ TasksShaped /\ RequestsOpen /\ AdmittedAreCovered
    /\ RemovalSound /\ LookedSound

-----------------------------------------------------------------------------
(***************************************************************************)
(* Facts about the data                                                    *)
(***************************************************************************)
LEMMA ResourcesFinite == IsFiniteSet(Resources)
<1> DEFINE I == 1..Len(Order)
<1>1. Order \in [I -> Resources]
  BY AccessAssumption
<1>2. IsFiniteSet(I)
  BY AccessAssumption, FS_Interval
<1>3. \A r \in Resources : \E i \in I : Order[i] = r
  BY DEF Resources
<1>4. Order \in Surjection(I, Resources)
  BY <1>1, <1>3 DEF Surjection
<1> QED
  BY <1>2, <1>4, FS_Surjection

\* Whoever has a resource to work on works on a seat.
LEMMA TargetIsSeat ==
    ASSUME TypeOK, TasksShaped, NEW p \in Processes,
           task[p].step \notin {"idle", "next", "commit"}
    PROVE  /\ task[p].todo \in Seq(Resources) /\ task[p].todo # <<>>
           /\ Head(task[p].todo) \in Resources
           /\ Tail(task[p].todo) \in Seq(Resources)
           /\ Target(p) \in Seats
<1>1. task[p].todo \in Seq(Resources) /\ task[p].todo # <<>>
  BY DEF TypeOK, TasksShaped, Shaped, Task
<1>2. Head(task[p].todo) \in Resources /\ Tail(task[p].todo) \in Seq(Resources)
  BY <1>1
<1>3. CASE p = Worker
  <2>1. task[Worker].sub \in Subs
    BY <1>3 DEF TasksShaped, Shaped
  <2>2. Owner[task[Worker].sub] \in Users
    BY <2>1, AccessAssumption
  <2> QED
    BY <1>1, <1>2, <1>3, <2>2 DEF Target, Seats
<1>4. CASE p # Worker
  BY <1>1, <1>2, <1>4 DEF Target, Seats, Processes
<1> QED
  BY <1>3, <1>4

\* A write leaves a membership a membership.
LEMMA MergeType ==
    ASSUME NEW row \in Membership, NEW w \in Write
    PROVE  Merge(row, w) \in Membership
BY DEF Merge, Membership, Write

\* So does the commit of a set of writes.
LEMMA CommitType ==
    ASSUME membership \in [Seats -> Membership],
           NEW writes \in SUBSET Write, Commit(writes)
    PROVE  membership' \in [Seats -> Membership]
<1> SUFFICES ASSUME NEW m \in Seats
             PROVE  (IF \E w \in writes : w.seat = m
                     THEN Merge(membership[m], CHOOSE w \in writes : w.seat = m)
                     ELSE membership[m]) \in Membership
  BY DEF Commit
<1>1. CASE \E w \in writes : w.seat = m
  <2> DEFINE v == CHOOSE w \in writes : w.seat = m
  <2>1. v \in writes
    BY <1>1
  <2>2. Merge(membership[m], v) \in Membership
    BY <2>1, MergeType
  <2> QED
    BY <1>1, <2>2
<1>2. CASE ~\E w \in writes : w.seat = m
  BY <1>2
<1> QED
  BY <1>1, <1>2

\* A sequence without repetitions.
Distinct(q) == \A i, j \in 1..Len(q) : q[i] = q[j] => i = j

\* An enumeration of a finite set is a sequence that reaches every member of it
\* once.
LEMMA ListingIsSeq ==
    ASSUME NEW R, NEW S \in SUBSET R, IsFiniteSet(S), NEW q \in [1..Cardinality(S) -> S],
           \A x \in S : \E i \in DOMAIN q : q[i] = x
    PROVE  /\ q \in Seq(R)
           /\ S # {} => q # <<>>
           /\ \A x \in S : \E i \in 1..Len(q) : q[i] = x
           /\ Distinct(q)
<1>1. Cardinality(S) \in Nat
  BY FS_CardinalityType
<1>2. q \in Seq(S) /\ Len(q) = Cardinality(S)
  BY <1>1
<1>3. q \in Seq(R)
  BY <1>2
<1>4. DOMAIN q = 1..Len(q)
  BY <1>2
<1>5. Distinct(q)
  <2> DEFINE I == 1..Cardinality(S)
  <2>1. IsFiniteSet(I) /\ Cardinality(I) = Cardinality(S)
    <3>1. ASSUME NEW c \in Nat PROVE IsFiniteSet(1..c) /\ Cardinality(1..c) = c
      <4>1. /\ IsFiniteSet(1..c)
            /\ Cardinality(1..c) = IF 1 > c THEN 0 ELSE c - 1 + 1
        BY FS_Interval, 1 \in Int, c \in Int
      <4> QED
        BY <4>1
    <3> QED
      BY <1>1, <3>1
  <2>2. q \in Surjection(I, S)
    BY DEF Surjection
  <2>3. q \in Injection(I, S)
    BY <2>1, <2>2, FS_SurjSameCardinalityImpliesInj
  <2> QED
    BY <1>2, <2>3 DEF Injection, IsInjective, Distinct
<1> QED
  BY <1>2, <1>3, <1>4, <1>5

\* A payment entitles for a month from the payment or later, and an expiration
\* takes the entitlement.
LEMMA RowPaid ==
    ASSUME NEW s \in SubscriptionRow, NEW t \in Nat
    PROVE  /\ ExtendSubscription(s, 1, t) \in SubscriptionRow
           /\ ExtendSubscription(s, 1, t).status = "active"
<1> DEFINE base == IF s.current_period_end < t THEN t ELSE s.current_period_end
           row(b, e) == [s EXCEPT !.current_period_start            = b,
                                  !.current_period_end              = e,
                                  !.status                          = "active",
                                  !.cancel_at_period_end            = FALSE,
                                  !.payment_failed_at               = FALSE,
                                  !.payment_failed_user_notified_at = FALSE,
                                  !.grace_reminder_notified_at      = FALSE,
                                  !.access_revoked_at               = FALSE,
                                  !.access_revoked_notified_at      = FALSE,
                                  !.shutdown_at                     = FALSE,
                                  !.shutdown_error                  = FALSE,
                                  !.shutdown_alerted_at             = FALSE]
<1>1. base \in Nat /\ base + 1 \in Nat
  BY DEF SubscriptionRow
<1>2. ASSUME NEW b \in Nat, NEW e \in Nat
      PROVE  row(b, e) \in SubscriptionRow /\ row(b, e).status = "active"
  <2>1. row(b, e).status = "active"
    BY DEF SubscriptionRow
  <2>2. row(b, e) \in SubscriptionRow
    BY ZenonT(60) DEF SubscriptionRow, SubscriptionStatus
  <2> QED
    BY <2>1, <2>2
<1>3. ExtendSubscription(s, 1, t) = row(base, base + 1)
  BY Zenon DEF ExtendSubscription
<1> HIDE DEF row, base
<1> QED
  BY <1>1, <1>2, <1>3

\* A row that has just been inserted, and the row that does not exist.
LEMMA RowNew ==
    ASSUME NEW t \in Nat
    PROVE  /\ NewSubscription(t, 1, "active") \in SubscriptionRow
           /\ NewSubscription(t, 1, "active").status = "active"
           /\ NoSubscription \in SubscriptionRow
<1>1. NewSubscription(t, 1, "active") \in SubscriptionRow
  BY DEF NewSubscription, SubscriptionRow, SubscriptionStatus, RecurringStatus
<1>2. NewSubscription(0, 0, "pending") \in SubscriptionRow
  BY DEF NewSubscription, SubscriptionRow, SubscriptionStatus, RecurringStatus
<1>3. NoSubscription \in SubscriptionRow
  BY <1>2 DEF NoSubscription, SubscriptionRow, SubscriptionStatus
<1> QED
  BY <1>1, <1>3 DEF NewSubscription

\* Expiration leaves a row a row.
LEMMA RowExpired ==
    ASSUME NEW s \in SubscriptionRow, NEW b \in BOOLEAN
    PROVE  ExpireSubscription(s, b) \in SubscriptionRow
BY DEF ExpireSubscription, SubscriptionRow, SubscriptionStatus

-----------------------------------------------------------------------------
(***************************************************************************)
(* Types                                                                   *)
(***************************************************************************)
LEMMA InitType == Init => TypeOK
<1> SUFFICES ASSUME Init PROVE TypeOK
  OBVIOUS
<1>1. sub \in [Subs -> SubscriptionRow]
  <2>1. PICK first \in Subs :
           sub = [s \in Subs |-> IF s = first THEN NewSubscription(0, 1, "active")
                                              ELSE NoSubscription]
    BY DEF Init
  <2> QED
    BY <2>1, RowNew, 0 \in Nat
<1>2. IdleTask \in Task
  BY DEF IdleTask, Task
<1>3. IdleReview \in Review
  BY AccessAssumption DEF IdleReview, Review
<1>4. NoMembership \in Membership
  BY AccessAssumption DEF NoMembership, Membership
<1>5. link \in Seq([seat : Seats, until : Nat, alive : BOOLEAN]) /\ Len(link) <= MaxLinks
  BY AccessAssumption DEF Init
<1>6. undelivered \in [Seats -> Seq(BanEvents)]
  BY DEF Init
<1>7. /\ chat \in [Seats -> {"left", "member", "owner"}]
      /\ paid \subseteq Subs /\ overtaken \subseteq Seats /\ request \subseteq Seats
      /\ now \in Nat /\ payments \in Nat /\ manual \in Nat
      /\ failures \in Nat /\ leaks \in Nat
      /\ by \in [Seats -> SUBSET {"bot", "manual"}]
      /\ log \in [Seats -> BanEvents \cup {"none"}]
      /\ task \in [Processes -> Task] /\ review \in [Seats -> Review]
      /\ membership \in [Seats -> Membership]
  BY <1>2, <1>3, <1>4 DEF Init
<1> QED
  BY <1>1, <1>5, <1>6, <1>7 DEF TypeOK

\* What a call of Telegram does to a seat.
LEMMA BanType ==
    ASSUME TypeOK, NEW m \in Seats, NEW who \in {"bot", "manual"}, Ban(m, who)
    PROVE  /\ chat' \in [Seats -> {"left", "member", "owner"}]
           /\ by' \in [Seats -> SUBSET {"bot", "manual"}]
           /\ request' \subseteq Seats
           /\ undelivered' \in [Seats -> Seq(BanEvents)]
<1>1. BanEvent[who] \in BanEvents
  BY DEF BanEvent, BanEvents
<1>2. Append(undelivered[m], BanEvent[who]) \in Seq(BanEvents)
  BY <1>1 DEF TypeOK
<1>3. undelivered' \in [Seats -> Seq(BanEvents)]
  BY <1>2 DEF Ban, Announce, TypeOK
<1> QED
  BY <1>3 DEF Ban, TypeOK

\* Lifting a ban keeps the types of the bans and of the events under way.
LEMMA UnbanType ==
    ASSUME TypeOK, NEW m \in Seats, NEW who \in {"bot", "manual"}, Unban(m, who)
    PROVE  /\ by' \in [Seats -> SUBSET {"bot", "manual"}]
           /\ undelivered' \in [Seats -> Seq(BanEvents)]
<1>1. UnbanEvent[who] \in BanEvents
  BY DEF UnbanEvent, BanEvents
<1>2. Append(undelivered[m], UnbanEvent[who]) \in Seq(BanEvents)
  BY <1>1 DEF TypeOK
<1>3. undelivered' \in [Seats -> Seq(BanEvents)]
  BY <1>2 DEF Unban, Announce, TypeOK
<1> QED
  BY <1>3 DEF Unban, TypeOK

\* So does an event of the chat.
LEMMA EventType ==
    ASSUME TypeOK, NEW m \in Seats, NEW event \in BanEvents, RecordEvent(m, event)
    PROVE  /\ log' \in [Seats -> BanEvents \cup {"none"}]
           /\ undelivered' \in [Seats -> Seq(BanEvents)]
BY DEF RecordEvent, TypeOK

\* A revoked link stays a link; no link comes or goes.
LEMMA RevokeType ==
    ASSUME TypeOK, NEW l \in 0..MaxLinks
    PROVE  /\ RevokeLink(l) \in Seq([seat : Seats, until : Nat, alive : BOOLEAN])
           /\ Len(RevokeLink(l)) = Len(link)
<1> DEFINE Links == [seat : Seats, until : Nat, alive : BOOLEAN]
           new == [link EXCEPT ![l].alive = FALSE]
<1>1. link \in Seq(Links)
  BY DEF TypeOK
<1>2. link \in [1..Len(link) -> Links] /\ Len(link) \in Nat
  <2> HIDE DEF Links
  <2> QED
    BY <1>1
<1>3. new \in [1..Len(link) -> Links]
  <2>1. ASSUME NEW row \in Links PROVE [row EXCEPT !.alive = FALSE] \in Links
    OBVIOUS
  <2> HIDE DEF Links
  <2> QED
    BY <1>2, <2>1
<1>4. new \in Seq(Links) /\ Len(new) = Len(link)
  <2> HIDE DEF Links, new
  <2> QED
    BY <1>2, <1>3
<1> QED
  BY <1>1, <1>4 DEF RevokeLink

\* The clock, payments, operators and restarts keep the types.
LEMMA SurroundingsType == ASSUME TypeOK, Surroundings PROVE TypeOK'
<1>1. CASE Tick
  BY <1>1 DEF Tick, TypeOK, database, telegram, events, history
<1>2. ASSUME NEW s \in Subs, Pay(s) PROVE TypeOK'
  <2>1. sub' \in [Subs -> SubscriptionRow]
    <3>1. now \in Nat /\ sub[s] \in SubscriptionRow
      BY DEF TypeOK
    <3> QED
      BY <1>2, <3>1, RowPaid, RowNew DEF Pay, TypeOK
  <2>2. paid' \subseteq Subs /\ payments' \in Nat
    BY <1>2 DEF Pay, TypeOK
  <2> QED
    BY <1>2, <2>1, <2>2 DEF Pay, TypeOK, telegram, events
<1>3. ASSUME NEW s \in Subs, NEW r \in Resources, ManualBan(<<Owner[s], r>>)
      PROVE  TypeOK'
  <2>1. <<Owner[s], r>> \in Seats
    BY AccessAssumption DEF Seats
  <2>2. manual' \in Nat
    BY <1>3 DEF ManualBan, TypeOK
  <2>3. Ban(<<Owner[s], r>>, "manual")
    BY <1>3 DEF ManualBan
  <2> QED
    BY <1>3, <2>1, <2>2, <2>3, BanType DEF ManualBan, Ban, TypeOK, database, history
<1>4. ASSUME NEW s \in Subs, NEW r \in Resources, ManualUnban(<<Owner[s], r>>)
      PROVE  TypeOK'
  <2>1. <<Owner[s], r>> \in Seats
    BY AccessAssumption DEF Seats
  <2>2. Unban(<<Owner[s], r>>, "manual")
    BY <1>4 DEF ManualUnban
  <2> QED
    BY <1>4, <2>1, <2>2, UnbanType DEF ManualUnban, Unban, TypeOK, bounds, database, history
<1>5. ASSUME NEW m \in Seats, NEW l \in 1..Len(link), Request(m, l) PROVE TypeOK'
  <2>1. [step |-> "review", link |-> l, holder |-> None] \in Review
    <3>1. l \in 0..MaxLinks
      BY AccessAssumption DEF TypeOK
    <3> QED
      BY <3>1 DEF Review
  <2>2. leaks' \in Nat
    BY <1>5 DEF Request, TypeOK
  <2>3. request' \subseteq Seats /\ review' \in [Seats -> Review]
    BY <1>5, <2>1 DEF Request, TypeOK
  <2> QED
    BY <1>5, <2>2, <2>3 DEF Request, TypeOK, database, events, history
<1> QED
  BY <1>1, <1>2, <1>3, <1>4, <1>5 DEF Surroundings

\* An answer to a join request leaves a review a review.
LEMMA AnswerType ==
    ASSUME TypeOK, NEW m \in Seats, Handled(m) \/ \E step \in {"decline", "approved", "declined",
                                                         "join", "clear"} : Answer(m, step)
    PROVE  review' \in [Seats -> Review]
<1>1. IdleReview \in Review
  BY AccessAssumption DEF IdleReview, Review
<1>2. CASE Handled(m)
  BY <1>1, <1>2 DEF Handled, TypeOK
<1>3. ASSUME NEW step \in {"decline", "approved", "declined", "join", "clear"},
             Answer(m, step)
      PROVE  review' \in [Seats -> Review]
  <2>1. [review[m] EXCEPT !.step = step] \in Review
    BY DEF TypeOK, Review
  <2> QED
    BY <1>3, <2>1 DEF Answer, TypeOK
<1> QED
  BY <1>2, <1>3

\* Join requests, their updates and their failures keep the types.
LEMMA JoinRequestType ==
    ASSUME TypeOK, NEW m \in Seats, JoinRequest(m) \/ DeliverUpdate(m) \/ FailReview(m)
    PROVE  TypeOK'
<1>1. CASE ReviewRequest(m)
  <2>1. review' \in [Seats -> Review]
    <3>1. CASE Answer(m, "decline")
      BY <3>1, AnswerType
    <3>2. ASSUME NEW u \in Holders(m),
                 review' = [review EXCEPT ![m].step = IF Allowed(m, u) THEN "approve"
                                                                       ELSE "decline",
                                          ![m].holder = u]
          PROVE  review' \in [Seats -> Review]
      <4> DEFINE step == IF Allowed(m, u) THEN "approve" ELSE "decline"
      <4>1. step \in {"approve", "decline"} /\ u \in Users \cup {None}
        BY DEF Holders
      <4> HIDE DEF step
      <4>2. [review[m] EXCEPT !.step = step, !.holder = u] \in Review
        BY <4>1 DEF TypeOK, Review
      <4> QED
        BY <3>2, <4>2 DEF TypeOK, step
    <3> QED
      BY <1>1, <3>1, <3>2 DEF ReviewRequest
  <2> QED
    BY <1>1, <2>1 DEF ReviewRequest, TypeOK, bounds, database, telegram, events, history
<1>2. CASE Approve(m)
  <2>1. review' \in [Seats -> Review]
    BY <1>2, AnswerType DEF Approve
  <2>2. chat' \in [Seats -> {"left", "member", "owner"}] /\ request' \subseteq Seats
    BY <1>2 DEF Approve, TypeOK
  <2> QED
    BY <1>2, <2>1, <2>2 DEF Approve, TypeOK, bounds, database, events, history
<1>3. CASE Decline(m)
  <2>1. review' \in [Seats -> Review]
    BY <1>3, AnswerType DEF Decline
  <2> QED
    BY <1>3, <2>1 DEF Decline, TypeOK, bounds, database, events, history
<1>4. CASE BurnLink(m)
  <2>1. review' \in [Seats -> Review]
    BY <1>4, AnswerType DEF BurnLink
  <2>2. review[m].link \in 0..MaxLinks
    BY DEF TypeOK, Review
  <2>3. /\ link' \in Seq([seat : Seats, until : Nat, alive : BOOLEAN])
        /\ Len(link') <= MaxLinks
    BY <1>4, <2>2, RevokeType DEF BurnLink, TypeOK
  <2> QED
    BY <1>4, <2>1, <2>3 DEF BurnLink, TypeOK, bounds, database, events, history
<1>5. CASE MarkJoined(m) \/ ClearPending(m)
  <2>1. review' \in [Seats -> Review]
    BY <1>5, AnswerType DEF MarkJoined, ClearPending
  <2>2. membership' \in [Seats -> Membership]
    <3> DEFINE seat == <<review[m].holder, m[2]>>
    <3>1. CASE MarkJoined(m)
      <4>1. [status |-> "active", link |-> 0, until |-> 0] \in Membership
        BY AccessAssumption DEF Membership
      <4> QED
        BY <3>1, <4>1 DEF MarkJoined, Store, TypeOK
    <3>2. CASE ClearPending(m)
      <4>1. CASE seat \in Seats
        <5>0. 0 \in 0..MaxLinks
          BY AccessAssumption
        <5>1. ASSUME NEW row \in Membership
              PROVE  [row EXCEPT !.link = 0, !.until = 0] \in Membership
          BY <5>0 DEF Membership
        <5>2. membership[seat] \in Membership
          BY <4>1 DEF TypeOK
        <5> QED
          BY <3>2, <5>1, <5>2 DEF ClearPending, Store, TypeOK
      <4>2. CASE seat \notin Seats
        BY <3>2, <4>2 DEF ClearPending, Store, TypeOK
      <4> QED
        BY <4>1, <4>2
    <3> QED
      BY <1>5, <3>1, <3>2
  <2> QED
    BY <1>5, <2>1, <2>2
    DEF MarkJoined, ClearPending, TypeOK, bounds, telegram, events, history
<1>6. CASE DeliverUpdate(m)
  <2>1. PICK k \in 1..Len(undelivered[m]) :
           /\ log' = [log EXCEPT ![m] = undelivered[m][k]]
           /\ undelivered' =
                 [undelivered EXCEPT ![m] = SubSeq(@, k + 1, Len(@))]
    BY <1>6 DEF DeliverUpdate
  <2>2. undelivered[m] \in Seq(BanEvents)
    BY DEF TypeOK
  <2>3. undelivered[m][k] \in BanEvents
    BY <2>2
  <2>4. SubSeq(undelivered[m], k + 1, Len(undelivered[m])) \in Seq(BanEvents)
    BY <2>2
  <2>5. /\ log' \in [Seats -> BanEvents \cup {"none"}]
        /\ undelivered' \in [Seats -> Seq(BanEvents)]
    BY <2>1, <2>3, <2>4 DEF TypeOK
  <2> QED
    BY <1>6, <2>5 DEF DeliverUpdate, TypeOK, bounds, database, telegram, history
<1>7. CASE FailReview(m)
  <2>1. review' \in [Seats -> Review]
    BY <1>7, AnswerType DEF FailReview
  <2>2. failures' \in Nat
    BY <1>7 DEF FailReview, TypeOK
  <2> QED
    BY <1>7, <2>1, <2>2 DEF FailReview, TypeOK, database, telegram, events, history
<1> QED
  BY <1>1, <1>2, <1>3, <1>4, <1>5, <1>6, <1>7 DEF JoinRequest

\* A process that goes to another step has a task.
LEMMA GotoType ==
    ASSUME TypeOK, NEW p \in Processes,
           NEW step \in {"idle", "check", "unban", "verify", "record", "link", "commit",
                         "next", "covered", "ban", "banned", "removed"},
           Goto(p, step)
    PROVE  task' \in [Processes -> Task]
<1>1. task[p] \in Task
  BY DEF TypeOK
<1>2. [task[p] EXCEPT !.step = step] \in Task
  BY <1>1 DEF Task
<1> QED
  BY <1>2 DEF Goto, TypeOK

\* A process that gives up has a task.
LEMMA AbortType ==
    ASSUME TypeOK, NEW p \in Processes, Abort(p)
    PROVE  task' \in [Processes -> Task]
<1>1. IdleTask \in Task
  BY DEF IdleTask, Task
<1>2. task[p].batch \in Seq(Subs) /\ task[p].cutoff \in Int
  BY DEF TypeOK, Task
<1>3. [IdleTask EXCEPT !.step = "next", !.batch = task[p].batch,
                       !.cutoff = task[p].cutoff] \in Task
  BY <1>1, <1>2 DEF Task
<1> QED
  BY <1>1, <1>3 DEF Abort, TypeOK

\* Unbanning, and failing at it, keep the types.
LEMMA UnbanningType ==
    ASSUME TypeOK, TasksShaped, NEW p \in Processes, Unbanning(p) \/ Fail(p)
    PROVE  TypeOK'
<1>1. CASE LiftBan(p)
  <2>1. Target(p) \in Seats /\ Unban(Target(p), "bot") /\ Goto(p, "verify")
    BY <1>1, TargetIsSeat DEF LiftBan, At
  <2>2. task' \in [Processes -> Task]
    BY <2>1, GotoType
  <2> QED
    BY <1>1, <2>1, <2>2, UnbanType DEF LiftBan, Unban, TypeOK, bounds, database, history
<1>2. CASE VerifyUnban(p)
  <2>1. task' \in [Processes -> Task]
    BY <1>2, GotoType DEF VerifyUnban
  <2> QED
    BY <1>2, <2>1 DEF VerifyUnban, TypeOK, bounds, database, telegram, events, history
<1>3. CASE RecordUnban(p)
  <2>1. Target(p) \in Seats /\ RecordEvent(Target(p), "bot_unban")
    BY <1>3, TargetIsSeat DEF RecordUnban, At
  <2>2. task' \in [Processes -> Task]
    BY <1>3, GotoType DEF RecordUnban
  <2>3. overtaken' \subseteq Seats
    BY <1>3, <2>1 DEF RecordUnban, TypeOK
  <2>4. /\ log' \in [Seats -> BanEvents \cup {"none"}]
        /\ undelivered' \in [Seats -> Seq(BanEvents)]
    BY <2>1, EventType DEF BanEvents
  <2> QED
    BY <1>3, <2>2, <2>3, <2>4 DEF RecordUnban, TypeOK, bounds, database, telegram
<1>4. CASE UnbanFailed(p)
  <2>1. task' \in [Processes -> Task]
    BY <1>4, AbortType DEF UnbanFailed
  <2> QED
    BY <1>4, <2>1 DEF UnbanFailed, TypeOK, bounds, database, telegram, events, history
<1>5. CASE Fail(p)
  <2>1. task' \in [Processes -> Task]
    BY <1>5, AbortType DEF Fail
  <2>2. failures' \in Nat
    BY <1>5 DEF Fail, TypeOK
  <2> QED
    BY <1>5, <2>1, <2>2 DEF Fail, TypeOK, database, telegram, events, history
<1> QED
  BY <1>1, <1>2, <1>3, <1>4, <1>5 DEF Unbanning

\* The resources that create_invites lists.
LEMMA InvitesBegun ==
    ASSUME TypeOK, NEW u \in Users, BeginInvites(u)
    PROVE  \E todo \in Seq(Resources) :
              /\ todo # <<>> /\ Distinct(todo)
              /\ task' = [task EXCEPT ![u] = [IdleTask EXCEPT !.step = "check",
                                                              !.todo = todo]]
<1> DEFINE covered == {r \in Resources : CoveredAfter(<<u, r>>, now - Grace) # {}}
<1>1. covered # {} /\ covered \in SUBSET Resources
  BY DEF BeginInvites
<1>2. PICK todo \in Listings(covered, Sorted) :
         task' = [task EXCEPT ![u] = [IdleTask EXCEPT !.step = "check", !.todo = todo]]
  BY DEF BeginInvites
<1>3. IsFiniteSet(covered)
  BY <1>1, ResourcesFinite, FS_Subset
<1>4. /\ todo \in [1..Cardinality(covered) -> covered]
      /\ \A x \in covered : \E i \in DOMAIN todo : todo[i] = x
  BY <1>2 DEF Listings
<1> HIDE DEF covered
<1>5. todo \in Seq(Resources) /\ todo # <<>> /\ Distinct(todo)
  <2>1. covered \in SUBSET Resources /\ IsFiniteSet(covered)
    BY <1>1, <1>3
  <2>2. todo \in Seq(Resources) /\ Distinct(todo) /\ (covered # {} => todo # <<>>)
    BY <1>4, <2>1, ListingIsSeq
  <2> QED
    BY <1>1, <2>2
<1> QED
  BY <1>2, <1>5

\* A process that goes on to the next resource has a task.
LEMMA AdvanceType ==
    ASSUME TypeOK, TasksShaped, NEW u \in Users, At(u, "link"),
           NEW writes \in SUBSET Write, Advance(u, writes)
    PROVE  task' \in [Processes -> Task]
<1>1. Tail(task[u].todo) \in Seq(Resources)
  BY TargetIsSeat DEF Processes, At
<1>2. ASSUME NEW step \in {"check", "commit"}
      PROVE  [task[u] EXCEPT !.step = step, !.todo = Tail(task[u].todo),
                             !.writes = writes] \in Task
  <2>1. task[u] \in Task
    BY DEF TypeOK, Processes
  <2> QED
    BY <1>1, <2>1 DEF Task
<1>3. \E step \in {"check", "commit"} :
         task' = [task EXCEPT ![u] = [task[u] EXCEPT !.step = step,
                                                     !.todo = Tail(task[u].todo),
                                                     !.writes = writes]]
  BY DEF Advance, TypeOK, Processes
<1> QED
  BY <1>2, <1>3 DEF TypeOK

\* Every step of the request for invites keeps the types.
LEMMA InvitesType ==
    ASSUME TypeOK, TasksShaped, NEW u \in Users, Invites(u)
    PROVE  TypeOK'
<1>0. u \in Processes
  BY DEF Processes
<1>1. CASE BeginInvites(u)
  <2>1. PICK todo \in Seq(Resources) :
           task' = [task EXCEPT ![u] = [IdleTask EXCEPT !.step = "check", !.todo = todo]]
    BY <1>1, InvitesBegun
  <2>2. [IdleTask EXCEPT !.step = "check", !.todo = todo] \in Task
    <3>1. IdleTask \in Task
      BY DEF IdleTask, Task
    <3> QED
      BY <3>1 DEF Task
  <2>3. task' \in [Processes -> Task]
    BY <2>1, <2>2 DEF TypeOK
  <2> QED
    BY <1>1, <2>3 DEF BeginInvites, TypeOK, bounds, database, telegram, events, history
<1>2. CASE EnsureNotBanned(u)
  <2>1. task' \in [Processes -> Task]
    BY <1>0, <1>2, GotoType, AbortType DEF EnsureNotBanned
  <2> QED
    BY <1>2, <2>1 DEF EnsureNotBanned, TypeOK, bounds, database, telegram, events, history
<1>3. CASE Unbanning(u)
  BY <1>0, <1>3, UnbanningType
<1>4. CASE ReuseInvite(u)
  <2>1. task[u].writes \in SUBSET Write
    BY <1>0 DEF TypeOK, Task
  <2>2. task' \in [Processes -> Task]
    BY <1>4, <2>1, AdvanceType DEF ReuseInvite
  <2> QED
    BY <1>4, <2>2 DEF ReuseInvite, TypeOK, bounds, database, telegram, events, history
<1>5. CASE CreateInvite(u)
  <2> DEFINE m   == Target(u)
             row == membership[m]
             new == [status |-> "invited", link |-> Len(link) + 1, until |-> now + InviteTTL]
             created == [seat |-> m, until |-> new.until, alive |-> TRUE]
             write == [seat |-> m, loaded |-> row, stored |-> new]
  <2>1. /\ Len(link) < MaxLinks
        /\ link' = Append(RevokeLink(row.link), created)
        /\ Advance(u, task[u].writes \cup {write})
    BY <1>5 DEF CreateInvite
  <2>2. m \in Seats /\ row \in Membership
    BY <1>0, <1>5, TargetIsSeat DEF CreateInvite, At, TypeOK
  <2>3. new \in Membership /\ new.until \in Nat
    <3>1. Len(link) + 1 \in 0..MaxLinks
      BY <2>1, AccessAssumption DEF TypeOK
    <3>2. now + InviteTTL \in Nat
      BY AccessAssumption DEF TypeOK
    <3> QED
      BY <3>1, <3>2 DEF Membership
  <2>4. task' \in [Processes -> Task]
    <3>1. write \in Write
      BY <2>2, <2>3 DEF Write
    <3> HIDE DEF write
    <3>2. task[u].writes \cup {write} \in SUBSET Write
      BY <1>0, <3>1 DEF TypeOK, Task
    <3> QED
      BY <1>5, <2>1, <3>2, AdvanceType DEF CreateInvite
  <2>5. /\ link' \in Seq([seat : Seats, until : Nat, alive : BOOLEAN])
        /\ Len(link') <= MaxLinks
    <3>1. created \in [seat : Seats, until : Nat, alive : BOOLEAN]
      BY <2>2, <2>3
    <3>2. row.link \in 0..MaxLinks
      BY <2>2 DEF Membership
    <3>3. /\ RevokeLink(row.link) \in Seq([seat : Seats, until : Nat, alive : BOOLEAN])
          /\ Len(RevokeLink(row.link)) = Len(link)
      BY <3>2, RevokeType
    <3> HIDE DEF created, row
    <3> DEFINE Links == [seat : Seats, until : Nat, alive : BOOLEAN]
    <3> HIDE DEF Links
    <3>4. /\ Append(RevokeLink(row.link), created) \in Seq(Links)
          /\ Len(Append(RevokeLink(row.link), created)) = Len(link) + 1
      BY <3>1, <3>3 DEF Links
    <3> QED
      BY <2>1, <3>4, AccessAssumption DEF Links, TypeOK
  <2> QED
    BY <1>5, <2>4, <2>5 DEF CreateInvite, TypeOK, bounds, database, events, history
<1>6. CASE CommitInvites(u)
  <2>1. IdleTask \in Task
    BY DEF IdleTask, Task
  <2>2. task[u].writes \in SUBSET Write
    BY <1>0 DEF TypeOK, Task
  <2>3. membership' \in [Seats -> Membership]
    BY <1>6, <2>2, CommitType DEF CommitInvites, TypeOK
  <2>4. task' \in [Processes -> Task]
    BY <1>6, <2>1 DEF CommitInvites, TypeOK
  <2> QED
    BY <1>6, <2>3, <2>4 DEF CommitInvites, TypeOK, bounds, telegram, events, history
<1> QED
  BY <1>1, <1>2, <1>3, <1>4, <1>5, <1>6 DEF Invites

\* The batch and the resources that the worker lists.
LEMMA BatchListed ==
    ASSUME TypeOK, BeginExpire
    PROVE  \E batch \in Seq(Subs) :
              task' = [task EXCEPT ![Worker] =
                          [IdleTask EXCEPT !.step   = "next",
                                           !.batch  = batch,
                                           !.cutoff = now - Grace]]
<1> DEFINE due == Overdue(now - Grace)
<1>1. due \in SUBSET Subs
  BY DEF Overdue
<1>2. PICK batch \in Listings(due, EndsBefore) :
         task' = [task EXCEPT ![Worker] =
                     [IdleTask EXCEPT !.step   = "next",
                                      !.batch  = batch,
                                      !.cutoff = now - Grace]]
  BY DEF BeginExpire
<1>3. IsFiniteSet(due)
  BY <1>1, AccessAssumption, FS_Subset
<1>4. /\ batch \in [1..Cardinality(due) -> due]
      /\ \A x \in due : \E i \in DOMAIN batch : batch[i] = x
  BY <1>2 DEF Listings
<1> HIDE DEF due
<1>5. batch \in Seq(Subs)
  BY <1>1, <1>3, <1>4, ListingIsSeq
<1> QED
  BY <1>2, <1>5

\* The worker that locks a subscription lists every resource it covers.
LEMMA ResourcesListed ==
    ASSUME TypeOK, LockSubscription
    PROVE  /\ task[Worker].batch \in Seq(Subs) /\ task[Worker].batch # <<>>
           /\ Head(task[Worker].batch) \in Subs
           /\ Tail(task[Worker].batch) \in Seq(Subs)
           /\ \E todo \in Seq(Resources) :
                 /\ Distinct(todo)
                 /\ \A r \in Covers[Head(task[Worker].batch)] :
                       \E i \in 1..Len(todo) : todo[i] = r
                 /\ task' = [task EXCEPT
                       ![Worker] = [task[Worker] EXCEPT
                                       !.step  = StepAt(todo),
                                       !.sub   = Head(task[Worker].batch),
                                       !.batch = Tail(task[Worker].batch),
                                       !.todo  = todo]]
<1> DEFINE s == Head(task[Worker].batch)
<1>1. task[Worker].batch \in Seq(Subs) /\ task[Worker].batch # <<>>
  BY DEF LockSubscription, TypeOK, Task, Processes
<1>2. s \in Subs /\ Tail(task[Worker].batch) \in Seq(Subs)
  BY <1>1
<1>3. Covers[s] \in SUBSET Resources
  BY <1>2, AccessAssumption
<1>4. IsFiniteSet(Covers[s])
  BY <1>3, ResourcesFinite, FS_Subset
<1>5. PICK todo \in Listings(Covers[s], Unsorted) :
         task' = [task EXCEPT ![Worker].step  = StepAt(todo),
                              ![Worker].sub   = s,
                              ![Worker].batch = Tail(@),
                              ![Worker].todo  = todo]
  BY DEF LockSubscription
<1>6. /\ todo \in [1..Cardinality(Covers[s]) -> Covers[s]]
      /\ \A x \in Covers[s] : \E i \in DOMAIN todo : todo[i] = x
  BY <1>5 DEF Listings
<1>7. /\ todo \in Seq(Resources) /\ Distinct(todo)
      /\ \A x \in Covers[s] : \E i \in 1..Len(todo) : todo[i] = x
  <2> DEFINE S == Covers[s]
  <2> HIDE DEF s
  <2>1. /\ S \in SUBSET Resources /\ IsFiniteSet(S)
        /\ todo \in [1..Cardinality(S) -> S]
        /\ \A x \in S : \E i \in DOMAIN todo : todo[i] = x
    BY <1>3, <1>4, <1>6
  <2> HIDE DEF S
  <2>2. todo \in Seq(Resources) /\ Distinct(todo)
    BY <2>1, ListingIsSeq
  <2>3. DOMAIN todo = 1..Len(todo)
    BY <2>2
  <2> QED
    BY <2>1, <2>2, <2>3 DEF S
<1>8. task' = [task EXCEPT ![Worker] = [task[Worker] EXCEPT
                  !.step  = StepAt(todo), !.sub  = s,
                  !.batch = Tail(task[Worker].batch), !.todo = todo]]
  BY <1>5 DEF TypeOK, Task, Processes
<1> QED
  BY <1>1, <1>2, <1>7, <1>8

\* The worker goes on to the next resource.
LEMMA ProceedType ==
    ASSUME TypeOK, TasksShaped, task[Worker].step \notin {"idle", "next", "commit"},
           NEW writes \in SUBSET Write, NEW complete \in BOOLEAN, Proceed(writes, complete)
    PROVE  /\ task' \in [Processes -> Task]
           /\ task' = [task EXCEPT ![Worker] = [task[Worker] EXCEPT
                          !.step     = StepAt(Tail(task[Worker].todo)),
                          !.todo     = Tail(task[Worker].todo),
                          !.writes   = writes,
                          !.complete = complete]]
<1>1. task[Worker] \in Task
  BY DEF TypeOK, Processes
<1>2. Tail(task[Worker].todo) \in Seq(Resources)
  BY TargetIsSeat DEF Processes
<1>3. StepAt(Tail(task[Worker].todo)) \in {"commit", "covered"}
  BY DEF StepAt
<1> DEFINE step == StepAt(Tail(task[Worker].todo))
           todo == Tail(task[Worker].todo)
<1>4. task' = [task EXCEPT ![Worker] = [task[Worker] EXCEPT
                 !.step = step, !.todo = todo, !.writes = writes, !.complete = complete]]
  BY <1>1 DEF Proceed, TypeOK, Task, Processes
<1> HIDE DEF step, todo
<1>5. [task[Worker] EXCEPT !.step = step, !.todo = todo, !.writes = writes,
                           !.complete = complete] \in Task
  BY <1>1, <1>2, <1>3 DEF Task, step, todo
<1>6. task' \in [Processes -> Task]
  BY <1>4, <1>5 DEF TypeOK
<1> QED
  BY <1>4, <1>6 DEF step, todo

\* Every step of the expiration keeps the types.
LEMMA ExpirationType ==
    ASSUME TypeOK, TasksShaped, Expiration
    PROVE  TypeOK'
<1>0. Worker \in Processes /\ task[Worker] \in Task
  BY DEF Processes, TypeOK
<1>a. /\ task[Worker].writes \in SUBSET Write /\ task[Worker].complete \in BOOLEAN
  BY <1>0 DEF Task
<1>1. CASE BeginExpire
  <2>1. PICK batch \in Seq(Subs) :
           task' = [task EXCEPT ![Worker] =
                       [IdleTask EXCEPT !.step   = "next",
                                        !.batch  = batch,
                                        !.cutoff = now - Grace]]
    BY <1>1, BatchListed
  <2>2. [IdleTask EXCEPT !.step = "next", !.batch = batch, !.cutoff = now - Grace] \in Task
    <3>1. IdleTask \in Task
      BY DEF IdleTask, Task
    <3>2. now - Grace \in Int
      BY AccessAssumption DEF TypeOK
    <3> QED
      BY <3>1, <3>2 DEF Task
  <2>3. task' \in [Processes -> Task]
    BY <2>1, <2>2 DEF TypeOK
  <2> QED
    BY <1>1, <2>3 DEF BeginExpire, TypeOK, bounds, database, telegram, events, history
<1>2. CASE EndExpire
  <2>1. IdleTask \in Task
    BY DEF IdleTask, Task
  <2>2. task' \in [Processes -> Task]
    BY <1>2, <2>1 DEF EndExpire, TypeOK
  <2> QED
    BY <1>2, <2>2 DEF EndExpire, TypeOK, bounds, database, telegram, events, history
<1>3. CASE SkipSubscription
  <2>1. Tail(task[Worker].batch) \in Seq(Subs)
    BY <1>0, <1>3 DEF SkipSubscription, Task
  <2>2. [task[Worker] EXCEPT !.batch = Tail(task[Worker].batch)] \in Task
    BY <1>0, <2>1 DEF Task
  <2>3. task' \in [Processes -> Task]
    BY <1>0, <1>3, <2>2 DEF SkipSubscription, TypeOK
  <2>4. failures' \in Nat
    BY <1>3 DEF SkipSubscription, TypeOK
  <2> QED
    BY <1>3, <2>3, <2>4 DEF SkipSubscription, TypeOK, database, telegram, events, history
<1>4. CASE LockSubscription
  <2>1. PICK todo \in Seq(Resources) :
           task' = [task EXCEPT
                      ![Worker] = [task[Worker] EXCEPT
                                      !.step  = StepAt(todo),
                                      !.sub   = Head(task[Worker].batch),
                                      !.batch = Tail(task[Worker].batch),
                                      !.todo  = todo]]
    BY <1>4, ResourcesListed
  <2>2. /\ Head(task[Worker].batch) \in Subs /\ Tail(task[Worker].batch) \in Seq(Subs)
        /\ StepAt(todo) \in {"commit", "covered"}
    BY <1>4, ResourcesListed DEF StepAt
  <2>3. [task[Worker] EXCEPT !.step = StepAt(todo), !.sub = Head(task[Worker].batch),
                             !.batch = Tail(task[Worker].batch), !.todo = todo] \in Task
    BY <1>0, <2>2 DEF Task
  <2>4. task' \in [Processes -> Task]
    BY <2>1, <2>3 DEF TypeOK
  <2> QED
    BY <1>4, <2>4 DEF LockSubscription, TypeOK, bounds, database, telegram, events, history
<1>5. CASE CheckCovered
  <2>1. task' \in [Processes -> Task]
    BY <1>0, <1>a, <1>5, GotoType, ProceedType DEF CheckCovered, At
  <2> QED
    BY <1>5, <2>1 DEF CheckCovered, TypeOK, bounds, database, telegram, events
<1>6. CASE CheckMember
  <2>1. task' \in [Processes -> Task]
    BY <1>0, <1>6, GotoType DEF CheckMember
  <2> QED
    BY <1>6, <2>1 DEF CheckMember, TypeOK, bounds, database, telegram, events, history
<1>7. CASE BanMember
  <2>1. task' \in [Processes -> Task]
    BY <1>0, <1>7, GotoType DEF BanMember
  <2>2. Target(Worker) \in Seats /\ Ban(Target(Worker), "bot")
    BY <1>0, <1>7, TargetIsSeat DEF BanMember, At
  <2> QED
    BY <1>7, <2>1, <2>2, BanType DEF BanMember, Ban, TypeOK, bounds, database, history
<1>8. CASE BanRefused
  <2>1. task' \in [Processes -> Task]
    BY <1>a, <1>8, ProceedType DEF BanRefused, At
  <2> QED
    BY <1>8, <2>1 DEF BanRefused, TypeOK, bounds, database, telegram, events, history
<1>9. CASE RecordBan
  <2>1. task' \in [Processes -> Task]
    BY <1>0, <1>9, GotoType DEF RecordBan
  <2>2. Target(Worker) \in Seats /\ RecordEvent(Target(Worker), "bot_ban")
    BY <1>0, <1>9, TargetIsSeat DEF RecordBan, At
  <2>3. /\ log' \in [Seats -> BanEvents \cup {"none"}]
        /\ undelivered' \in [Seats -> Seq(BanEvents)]
    BY <2>2, EventType DEF BanEvents
  <2> QED
    BY <1>9, <2>1, <2>3 DEF RecordBan, TypeOK, bounds, database, telegram, history
<1>10. CASE Unbanning(Worker)
  BY <1>0, <1>10, UnbanningType
<1>11. CASE RevokeMembership
  <2> DEFINE m   == Target(Worker)
             row == membership[m]
             new == [row EXCEPT !.status = "revoked", !.link = 0]
             write == [seat |-> m, loaded |-> row, stored |-> new]
  <2>1. m \in Seats /\ row \in Membership
    BY <1>0, <1>11, TargetIsSeat DEF RevokeMembership, At, TypeOK
  <2>2. 0 \in 0..MaxLinks
    BY AccessAssumption
  <2>3. new \in Membership /\ row.link \in 0..MaxLinks
    <3> HIDE DEF row
    <3> QED
      BY <2>1, <2>2 DEF Membership
  <2>4. write \in Write
    <3> HIDE DEF row, new
    <3> QED
      BY <2>1, <2>3 DEF Write
  <2>5. \/ Proceed(task[Worker].writes, task[Worker].complete) /\ UNCHANGED link
        \/ /\ Proceed(task[Worker].writes \cup {write}, task[Worker].complete)
           /\ link' = RevokeLink(row.link)
    BY <1>11 DEF RevokeMembership
  <2> HIDE DEF write, row
  <2>6. task[Worker].writes \cup {write} \in SUBSET Write
    BY <1>a, <2>4
  <2>7. task' \in [Processes -> Task]
    BY <1>a, <1>11, <2>5, <2>6, ProceedType DEF RevokeMembership, At
  <2>8. /\ link' \in Seq([seat : Seats, until : Nat, alive : BOOLEAN])
        /\ Len(link') <= MaxLinks
    BY <2>3, <2>5, RevokeType DEF TypeOK
  <2> QED
    BY <1>11, <2>7, <2>8 DEF RevokeMembership, TypeOK, bounds, database, events, history
<1>12. CASE CommitExpire
  <2>1. task' \in [Processes -> Task]
    BY <1>0, <1>12, AbortType DEF CommitExpire
  <2>2. membership' \in [Seats -> Membership]
    BY <1>a, <1>12, CommitType DEF CommitExpire, TypeOK
  <2>3. sub' \in [Subs -> SubscriptionRow]
    <3>1. task[Worker].sub \in Subs
      BY <1>0, <1>12 DEF CommitExpire, TasksShaped, Shaped, At
    <3>2. ExpireSubscription(sub[task[Worker].sub], task[Worker].complete) \in SubscriptionRow
      BY <1>a, <3>1, RowExpired DEF TypeOK
    <3> QED
      BY <1>12, <3>2 DEF CommitExpire, TypeOK
  <2> QED
    BY <1>12, <2>1, <2>2, <2>3 DEF CommitExpire, TypeOK, bounds, telegram, events, history
<1> QED
  BY <1>1, <1>2, <1>3, <1>4, <1>5, <1>6, <1>7, <1>8, <1>9, <1>10, <1>11, <1>12
  DEF Expiration

\* Every step keeps the shape of the tables, of Telegram and of the tasks.
LEMMA TypeStep == TypeOK /\ TasksShaped /\ [Next]_vars => TypeOK'
<1> SUFFICES ASSUME TypeOK, TasksShaped, [Next]_vars PROVE TypeOK'
  OBVIOUS
<1>1. CASE UNCHANGED vars
  BY <1>1 DEF vars, TypeOK, bounds, database, telegram, events, history
<1>2. \A p \in Processes : Fail(p) => TypeOK'
  BY UnbanningType
<1> QED
  BY <1>1, <1>2, SurroundingsType, JoinRequestType, InvitesType, ExpirationType DEF Next

-----------------------------------------------------------------------------
(***************************************************************************)
(* Tasks                                                                   *)
(***************************************************************************)
\* One process goes on.
LEMMA ShapedOn ==
    ASSUME TypeOK, TasksShaped, NEW p \in Processes, NEW t, Shaped(p, t),
           task' = [task EXCEPT ![p] = t]
    PROVE  TasksShaped'
<1> SUFFICES ASSUME NEW q \in Processes PROVE Shaped(q, task'[q])
  BY DEF TasksShaped, Shaped
<1>1. task'[q] = IF q = p THEN t ELSE task[q]
  BY DEF TypeOK
<1> QED
  BY <1>1 DEF TasksShaped

\* A task that has resources to work on still has them at its next step.
LEMMA ShapedGoto ==
    ASSUME TypeOK, TasksShaped, NEW p \in Processes,
           task[p].step \notin {"idle", "next", "commit"},
           NEW step \in {"check", "unban", "verify", "record", "link", "ban", "banned",
                         "removed"},
           Goto(p, step)
    PROVE  TasksShaped'
<1> DEFINE t == [task[p] EXCEPT !.step = step]
<1>1. task' = [task EXCEPT ![p] = t]
  BY DEF Goto
<1>2. t.step = step /\ t.todo = task[p].todo /\ t.sub = task[p].sub
  BY DEF TypeOK, Task
<1>3. task[p].todo # <<>> /\ (p = Worker => task[p].sub \in Subs)
  BY DEF TasksShaped, Shaped
<1> HIDE DEF t
<1>4. Shaped(p, t)
  BY <1>2, <1>3 DEF Shaped
<1> QED
  BY <1>1, <1>4, ShapedOn

\* A task that is given up has the right shape.
LEMMA ShapedAbort ==
    ASSUME TypeOK, TasksShaped, NEW p \in Processes, Abort(p)
    PROVE  TasksShaped'
<1> DEFINE next == [IdleTask EXCEPT !.step   = "next",
                                    !.batch  = task[p].batch,
                                    !.cutoff = task[p].cutoff]
           t == IF p = Worker THEN next ELSE IdleTask
<1>1. task' = [task EXCEPT ![p] = t]
  BY DEF Abort
<1>2. t.step \in {"idle", "next"}
  BY DEF IdleTask
<1> HIDE DEF t
<1>3. Shaped(p, t)
  BY <1>2 DEF Shaped
<1> QED
  BY <1>1, <1>3, ShapedOn

\* An idle task has the right shape.
LEMMA ShapedIdle ==
    ASSUME TypeOK, TasksShaped, NEW p \in Processes,
           task' = [task EXCEPT ![p] = IdleTask]
    PROVE  TasksShaped'
<1>1. Shaped(p, IdleTask)
  BY DEF Shaped, IdleTask
<1> QED
  BY <1>1, ShapedOn

\* Unbanning, and failing at it, leave the tasks their shape.
LEMMA ShapedUnbanning ==
    ASSUME TypeOK, TasksShaped, NEW p \in Processes, Unbanning(p) \/ Fail(p)
    PROVE  TasksShaped'
<1>1. CASE LiftBan(p) \/ VerifyUnban(p) \/ RecordUnban(p)
  BY <1>1, ShapedGoto DEF LiftBan, VerifyUnban, RecordUnban, At
<1>2. CASE UnbanFailed(p) \/ Fail(p)
  BY <1>2, ShapedAbort DEF UnbanFailed, Fail
<1> QED
  BY <1>1, <1>2 DEF Unbanning

\* So does every step of the request for invites.
LEMMA ShapedInvites ==
    ASSUME TypeOK, TasksShaped, NEW u \in Users, Invites(u)
    PROVE  TasksShaped'
<1>0. u \in Processes /\ u # Worker /\ task[u] \in Task
  BY AccessAssumption DEF Processes, TypeOK
<1>1. CASE BeginInvites(u)
  <2>1. PICK todo \in Seq(Resources) :
           /\ todo # <<>>
           /\ task' = [task EXCEPT ![u] = [IdleTask EXCEPT !.step = "check", !.todo = todo]]
    BY <1>1, InvitesBegun
  <2> DEFINE t == [IdleTask EXCEPT !.step = "check", !.todo = todo]
  <2>2. t.todo = todo
    BY DEF IdleTask
  <2> HIDE DEF t
  <2>3. Shaped(u, t)
    BY <1>0, <2>1, <2>2 DEF Shaped
  <2> QED
    BY <1>0, <2>1, <2>3, ShapedOn DEF t
<1>2. CASE EnsureNotBanned(u)
  BY <1>0, <1>2, ShapedGoto, ShapedAbort DEF EnsureNotBanned, At
<1>3. CASE Unbanning(u)
  BY <1>0, <1>3, ShapedUnbanning
<1>4. ASSUME NEW writes, At(u, "link"), Advance(u, writes) PROVE TasksShaped'
  <2> DEFINE step == IF Len(task[u].todo) > 1 THEN "check" ELSE "commit"
             t == [task[u] EXCEPT !.step = step, !.todo = Tail(task[u].todo),
                                  !.writes = writes]
  <2>1. task' = [task EXCEPT ![u] = t]
    BY <1>0, <1>4 DEF Advance, TypeOK
  <2>2. t.step = step /\ t.todo = Tail(task[u].todo)
    BY <1>0 DEF Task
  <2>3. Len(task[u].todo) > 1 => Tail(task[u].todo) # <<>>
    <3>1. task[u].todo \in Seq(Resources) /\ task[u].todo # <<>>
      BY <1>0, <1>4, TargetIsSeat DEF At
    <3>2. ASSUME NEW q \in Seq(Resources), Len(q) > 1 PROVE Tail(q) # <<>>
      <4>1. Len(Tail(q)) = Len(q) - 1 /\ Len(q) \in Nat
        BY <3>2
      <4> DEFINE r == Tail(q)
      <4>2. Len(r) > 0
        BY <3>2, <4>1
      <4> HIDE DEF r
      <4>3. r # <<>>
        BY <4>2
      <4> QED
        BY <4>3 DEF r
    <3> QED
      BY <3>1, <3>2
  <2> HIDE DEF t
  <2>4. Shaped(u, t)
    BY <1>0, <2>2, <2>3 DEF Shaped
  <2> QED
    BY <1>0, <2>1, <2>4, ShapedOn
<1>5. CASE ReuseInvite(u) \/ CreateInvite(u)
  BY <1>4, <1>5 DEF ReuseInvite, CreateInvite
<1>6. CASE CommitInvites(u)
  BY <1>0, <1>6, ShapedIdle DEF CommitInvites
<1> QED
  BY <1>1, <1>2, <1>3, <1>5, <1>6 DEF Invites

\* So does the worker that is done with a resource.
LEMMA ShapedProceed ==
    ASSUME TypeOK, TasksShaped, task[Worker].step \notin {"idle", "next", "commit"},
           NEW writes, NEW complete, Proceed(writes, complete)
    PROVE  TasksShaped'
<1>0. Worker \in Processes /\ task[Worker] \in Task
  BY DEF Processes, TypeOK
<1> DEFINE todo == Tail(task[Worker].todo)
           t == [task[Worker] EXCEPT !.step = StepAt(todo), !.todo = todo,
                                     !.writes = writes, !.complete = complete]
<1>1. task' = [task EXCEPT ![Worker] = t]
  BY <1>0 DEF Proceed, TypeOK, Task
<1>2. t.step = StepAt(todo) /\ t.todo = todo /\ t.sub = task[Worker].sub
  BY <1>0 DEF Task
<1>3. task[Worker].sub \in Subs
  BY <1>0 DEF TasksShaped, Shaped
<1> HIDE DEF t, todo
<1>4. Shaped(Worker, t)
  BY <1>2, <1>3 DEF Shaped, StepAt
<1> QED
  BY <1>0, <1>1, <1>4, ShapedOn

\* So does every step of the expiration.
LEMMA ShapedExpiration ==
    ASSUME TypeOK, TasksShaped, Expiration
    PROVE  TasksShaped'
<1>0. Worker \in Processes /\ task[Worker] \in Task
  BY DEF Processes, TypeOK
<1>1. CASE BeginExpire
  <2>1. PICK batch \in Seq(Subs) :
           task' = [task EXCEPT ![Worker] =
                       [IdleTask EXCEPT !.step   = "next",
                                        !.batch  = batch,
                                        !.cutoff = now - Grace]]
    BY <1>1, BatchListed
  <2> DEFINE t == [IdleTask EXCEPT !.step = "next", !.batch = batch, !.cutoff = now - Grace]
  <2>2. t.step = "next"
    BY DEF IdleTask
  <2> HIDE DEF t
  <2>3. Shaped(Worker, t)
    BY <2>2 DEF Shaped
  <2> QED
    BY <1>0, <2>1, <2>3, ShapedOn DEF t
<1>2. CASE EndExpire
  BY <1>0, <1>2, ShapedIdle DEF EndExpire
<1>3. CASE SkipSubscription
  <2> DEFINE t == [task[Worker] EXCEPT !.batch = Tail(task[Worker].batch)]
  <2>1. task' = [task EXCEPT ![Worker] = t]
    BY <1>0, <1>3 DEF SkipSubscription, TypeOK
  <2>2. t.step = "next"
    BY <1>0, <1>3 DEF SkipSubscription, At, Task
  <2> HIDE DEF t
  <2>3. Shaped(Worker, t)
    BY <2>2 DEF Shaped
  <2> QED
    BY <1>0, <2>1, <2>3, ShapedOn
<1>4. CASE LockSubscription
  <2>1. PICK todo \in Seq(Resources) :
           task' = [task EXCEPT
                      ![Worker] = [task[Worker] EXCEPT
                                      !.step  = StepAt(todo),
                                      !.sub   = Head(task[Worker].batch),
                                      !.batch = Tail(task[Worker].batch),
                                      !.todo  = todo]]
    BY <1>4, ResourcesListed
  <2> DEFINE t == [task[Worker] EXCEPT !.step = StepAt(todo), !.sub = Head(task[Worker].batch),
                                       !.batch = Tail(task[Worker].batch), !.todo = todo]
  <2>2. t.step = StepAt(todo) /\ t.sub = Head(task[Worker].batch) /\ t.todo = todo
    BY <1>0 DEF Task
  <2>3. Head(task[Worker].batch) \in Subs
    BY <1>4, ResourcesListed
  <2> HIDE DEF t
  <2>4. Shaped(Worker, t)
    BY <2>2, <2>3 DEF Shaped, StepAt
  <2> QED
    BY <1>0, <2>1, <2>4, ShapedOn DEF t
<1>5. CASE CheckCovered
  BY <1>0, <1>5, ShapedGoto, ShapedProceed DEF CheckCovered, At
<1>6. CASE CheckMember \/ BanMember \/ RecordBan
  BY <1>0, <1>6, ShapedGoto DEF CheckMember, BanMember, RecordBan, At
<1>7. CASE BanRefused \/ RevokeMembership
  <2>1. \E writes, complete : Proceed(writes, complete)
    BY <1>7 DEF BanRefused, RevokeMembership
  <2> QED
    BY <1>7, <2>1, ShapedProceed DEF BanRefused, RevokeMembership, At
<1>8. CASE Unbanning(Worker)
  BY <1>0, <1>8, ShapedUnbanning
<1>9. CASE CommitExpire
  BY <1>0, <1>9, ShapedAbort DEF CommitExpire
<1> QED
  BY <1>1, <1>2, <1>3, <1>4, <1>5, <1>6, <1>7, <1>8, <1>9 DEF Expiration

\* What is not create_invites or expire_due leaves their tasks alone.
LEMMA TasksLeft ==
    ASSUME \/ Surroundings \/ UNCHANGED vars
           \/ \E m \in Seats : DeliverUpdate(m) \/ JoinRequest(m) \/ FailReview(m)
    PROVE  UNCHANGED task
BY DEF Surroundings, Tick, Pay, ManualBan, ManualUnban, Request, vars, DeliverUpdate,
   JoinRequest, ReviewRequest, Approve, Decline, BurnLink, MarkJoined, ClearPending, FailReview

\* The tasks keep their shape.
LEMMA ShapedStep == TypeOK /\ TasksShaped /\ [Next]_vars => TasksShaped'
<1> SUFFICES ASSUME TypeOK, TasksShaped, [Next]_vars PROVE TasksShaped'
  OBVIOUS
<1>1. CASE UNCHANGED task
  BY <1>1 DEF TasksShaped, Shaped
<1>2. \A p \in Processes : Fail(p) => TasksShaped'
  BY ShapedUnbanning
<1> QED
  BY <1>1, <1>2, TasksLeft, ShapedInvites, ShapedExpiration DEF Next

-----------------------------------------------------------------------------
(***************************************************************************)
(* Requests and admissions                                                 *)
(***************************************************************************)
\* What the others do leaves the worker's task and what it has seen alone.
LEMMA InvitesApart ==
    ASSUME TypeOK, NEW u \in Users, Invites(u) \/ Fail(u)
    PROVE  /\ UNCHANGED <<now, sub, chat, request, review, paid>>
           /\ task'[Worker] = task[Worker]
<1>1. u # Worker /\ Worker \in Processes /\ u \in Processes
  BY AccessAssumption DEF Processes
<1>2. task'[Worker] = task[Worker]
  BY <1>1 DEF TypeOK, Invites, Fail, BeginInvites, EnsureNotBanned, Unbanning, LiftBan,
     VerifyUnban, RecordUnban, UnbanFailed, ReuseInvite, CreateInvite, CommitInvites,
     Goto, Abort, Advance
<1>3. UNCHANGED <<now, sub, chat, request, review, paid>>
  BY DEF Invites, Fail, BeginInvites, EnsureNotBanned, Unbanning, LiftBan, Unban,
     VerifyUnban, RecordUnban, UnbanFailed, ReuseInvite, CreateInvite, CommitInvites,
     bounds, database, telegram, events, history
<1> QED
  BY <1>2, <1>3

\* Join requests touch neither subscriptions nor tasks.
LEMMA AnswersApart ==
    ASSUME NEW m \in Seats, JoinRequest(m) \/ DeliverUpdate(m) \/ FailReview(m)
    PROVE  UNCHANGED <<now, sub, paid, task>>
BY DEF JoinRequest, DeliverUpdate, FailReview, ReviewRequest, Approve, Decline, BurnLink,
   MarkJoined, ClearPending, bounds, database, telegram, events, history

\* The surroundings move the clock on and may pay; they touch no task.
LEMMA SurroundingsApart ==
    ASSUME TypeOK, Surroundings
    PROVE  /\ now' >= now /\ UNCHANGED task
           /\ \/ UNCHANGED <<sub, paid>>
              \/ \E s \in Subs : Pay(s)
<1>1. CASE \E s \in Subs : Pay(s)
  <2>1. now' = now /\ UNCHANGED task
    BY <1>1 DEF Pay
  <2>2. now' >= now
    BY <2>1 DEF TypeOK
  <2> QED
    BY <1>1, <2>1, <2>2
<1>2. CASE Tick
  BY <1>2 DEF Tick, TypeOK, database, history
<1>3. CASE \/ \E s \in Subs, r \in Resources :
               ManualBan(<<Owner[s], r>>) \/ ManualUnban(<<Owner[s], r>>)
           \/ \E m \in Seats, l \in 1..Len(link) : Request(m, l)
  <2>1. UNCHANGED <<now, sub, paid, task>>
    BY <1>3 DEF ManualBan, ManualUnban, Request, database, history, bounds
  <2> QED
    BY <2>1 DEF TypeOK
<1> QED
  BY <1>1, <1>2, <1>3 DEF Surroundings

\* Nobody who is banned or owns the chat has a request pending, nobody banned
\* is in the chat.
LEMMA OpenStep ==
    ASSUME TypeOK, TasksShaped, RequestsOpen, [Next]_vars
    PROVE  RequestsOpen'
<1>1. CASE UNCHANGED <<chat, by, request>>
  BY <1>1 DEF RequestsOpen
<1>2. ASSUME NEW m \in Seats, NEW who, Ban(m, who) PROVE RequestsOpen'
  BY <1>2 DEF Ban, RequestsOpen, TypeOK
<1>3. ASSUME NEW m \in Seats, NEW who, Unban(m, who) PROVE RequestsOpen'
  BY <1>3 DEF Unban, RequestsOpen, TypeOK
<1>4. CASE Surroundings
  <2>1. \A s \in Subs, r \in Resources : <<Owner[s], r>> \in Seats
    BY AccessAssumption DEF Seats
  <2>2. ASSUME NEW m \in Seats, NEW l \in 1..Len(link), Request(m, l) PROVE RequestsOpen'
    BY <2>2 DEF Request, RequestsOpen
  <2>3. CASE Tick \/ \E s \in Subs : Pay(s)
    BY <1>1, <2>3 DEF Tick, Pay, telegram
  <2> QED
    BY <1>2, <1>3, <1>4, <2>1, <2>2, <2>3 DEF Surroundings, ManualBan, ManualUnban
<1>5. ASSUME NEW m \in Seats, JoinRequest(m) \/ DeliverUpdate(m) \/ FailReview(m)
      PROVE  RequestsOpen'
  <2>1. CASE Approve(m)
    BY <2>1 DEF Approve, RequestsOpen, TypeOK
  <2>2. CASE Decline(m)
    BY <2>2 DEF Decline, RequestsOpen
  <2>3. CASE \/ ReviewRequest(m) \/ BurnLink(m) \/ MarkJoined(m) \/ ClearPending(m)
             \/ DeliverUpdate(m) \/ FailReview(m)
    BY <1>1, <2>3 DEF ReviewRequest, BurnLink, MarkJoined, ClearPending, DeliverUpdate,
       FailReview, telegram
  <2> QED
    BY <1>5, <2>1, <2>2, <2>3 DEF JoinRequest
<1>6. ASSUME NEW p \in Processes, Unbanning(p) \/ Fail(p) PROVE RequestsOpen'
  <2>1. CASE LiftBan(p)
    BY <1>3, <2>1, TargetIsSeat DEF LiftBan, At
  <2>2. CASE VerifyUnban(p) \/ RecordUnban(p) \/ UnbanFailed(p) \/ Fail(p)
    BY <1>1, <2>2 DEF VerifyUnban, RecordUnban, UnbanFailed, Fail, telegram
  <2> QED
    BY <1>6, <2>1, <2>2 DEF Unbanning
<1>7. ASSUME NEW u \in Users, Invites(u) PROVE RequestsOpen'
  <2>1. CASE Unbanning(u)
    BY <1>6, <2>1 DEF Processes
  <2>2. CASE ~Unbanning(u)
    BY <1>1, <1>7, <2>2 DEF Invites, BeginInvites, EnsureNotBanned, ReuseInvite,
       CreateInvite, CommitInvites, telegram
  <2> QED
    BY <2>1, <2>2
<1>8. CASE Expiration
  <2>1. Worker \in Processes
    BY DEF Processes
  <2>2. CASE BanMember
    BY <1>2, <2>1, <2>2, TargetIsSeat DEF BanMember, At
  <2>3. CASE Unbanning(Worker)
    BY <1>6, <2>1, <2>3
  <2>4. CASE ~BanMember /\ ~Unbanning(Worker)
    BY <1>1, <1>8, <2>4 DEF Expiration, BeginExpire, EndExpire, SkipSubscription,
       LockSubscription, CheckCovered, CheckMember, BanRefused, RecordBan,
       RevokeMembership, CommitExpire, telegram
  <2> QED
    BY <2>2, <2>3, <2>4
<1> QED
  BY <1>1, <1>4, <1>5, <1>6, <1>7, <1>8 DEF Next, vars, telegram

\* A handler that answers, or ends, does not begin to approve.
LEMMA ReviewGoesOn ==
    ASSUME TypeOK, NEW m \in Seats, NEW n \in Seats,
           \/ Handled(n)
           \/ \E step \in {"decline", "approved", "declined", "join", "clear"} :
                 Answer(n, step),
           review'[m].step = "approve"
    PROVE  review[m].step = "approve"
<1>1. CASE Handled(n)
  BY <1>1 DEF Handled, IdleReview, TypeOK
<1>2. ASSUME NEW step \in {"decline", "approved", "declined", "join", "clear"},
             Answer(n, step)
      PROVE  review[m].step = "approve"
  <2>1. CASE m = n
    <3>1. [review[n] EXCEPT !.step = step].step = step
      BY DEF TypeOK, Review
    <3> QED
      BY <1>2, <2>1, <3>1 DEF Answer, TypeOK
  <2>2. CASE m # n
    BY <1>2, <2>2 DEF Answer, TypeOK
  <2> QED
    BY <2>1, <2>2
<1> QED
  BY <1>1, <1>2

\* Only the review of a request admits anybody, and only who is covered.
LEMMA AdmissionStep ==
    ASSUME TypeOK, TasksShaped, [Next]_vars, NEW m \in Seats, Admitted(m)'
    PROVE  Admitted(m) \/ CoveredAfter(m, now - Grace) # {}
<1>1. ASSUME UNCHANGED <<chat, request, review>> PROVE Admitted(m)
  BY <1>1 DEF Admitted, Handling
<1>2. ASSUME NEW n \in Seats, NEW who, Ban(n, who), UNCHANGED review PROVE Admitted(m)
  BY <1>2 DEF Ban, Admitted, Handling, TypeOK
<1>3. CASE Surroundings
  <2>1. \A s \in Subs, r \in Resources : <<Owner[s], r>> \in Seats
    BY AccessAssumption DEF Seats
  <2>2. ASSUME NEW n \in Seats, NEW l \in 1..Len(link), Request(n, l) PROVE Admitted(m)
    BY <2>2 DEF Request, Admitted, Handling, TypeOK
  <2>3. CASE \/ Tick \/ \E s \in Subs : Pay(s)
             \/ \E s \in Subs, r \in Resources : ManualUnban(<<Owner[s], r>>)
    BY <1>1, <2>3 DEF Tick, Pay, ManualUnban, Unban, telegram
  <2> QED
    BY <1>2, <1>3, <2>1, <2>2, <2>3 DEF Surroundings, ManualBan
<1>4. ASSUME NEW n \in Seats, JoinRequest(n) \/ DeliverUpdate(n) \/ FailReview(n)
      PROVE  Admitted(m) \/ CoveredAfter(m, now - Grace) # {}
  <2>1. CASE ReviewRequest(n)
    <3>1. CASE Answer(n, "decline")
      BY <2>1, <3>1, ReviewGoesOn DEF ReviewRequest, Admitted, Handling, telegram
    <3>2. ASSUME NEW u \in Holders(n),
                 review' = [review EXCEPT ![n].step = IF Allowed(n, u) THEN "approve"
                                                                       ELSE "decline",
                                          ![n].holder = u]
          PROVE  Admitted(m) \/ CoveredAfter(m, now - Grace) # {}
      <4>1. CASE m = n /\ Allowed(n, u)
        BY <4>1 DEF Allowed
      <4>2. CASE ~(m = n /\ Allowed(n, u))
        <5>1. review'[m].step = "approve" => review[m].step = "approve"
          BY <3>2, <4>2 DEF TypeOK, Review
        <5> QED
          BY <2>1, <5>1 DEF ReviewRequest, Admitted, Handling, telegram
      <4> QED
        BY <4>1, <4>2
    <3> QED
      BY <2>1, <3>1, <3>2 DEF ReviewRequest
  <2>2. CASE Approve(n)
    BY <2>2 DEF Approve, Answer, Handled, IdleReview, Admitted, Handling, TypeOK
  <2>3. CASE Decline(n) \/ BurnLink(n) \/ MarkJoined(n) \/ ClearPending(n) \/ FailReview(n)
    <3>1. UNCHANGED chat /\ request' \subseteq request
      BY <2>3 DEF Decline, BurnLink, MarkJoined, ClearPending, FailReview, telegram
    <3>2. review'[m].step = "approve" => review[m].step = "approve"
      BY <2>3, ReviewGoesOn DEF Decline, BurnLink, MarkJoined, ClearPending, FailReview
    <3> QED
      BY <3>1, <3>2 DEF Admitted, Handling
  <2>4. CASE DeliverUpdate(n)
    BY <1>1, <2>4 DEF DeliverUpdate, telegram
  <2> QED
    BY <1>4, <2>1, <2>2, <2>3, <2>4 DEF JoinRequest
<1>5. ASSUME NEW p \in Processes, Unbanning(p) \/ Fail(p) PROVE Admitted(m)
  BY <1>1, <1>5 DEF Unbanning, LiftBan, Unban, VerifyUnban, RecordUnban, UnbanFailed, Fail,
     telegram
<1>6. ASSUME NEW u \in Users, Invites(u) PROVE Admitted(m)
  BY <1>1, <1>6, InvitesApart
<1>7. CASE Expiration
  <2>1. Worker \in Processes
    BY DEF Processes
  <2>2. CASE BanMember
    BY <1>2, <2>1, <2>2, TargetIsSeat DEF BanMember, At
  <2>3. CASE Unbanning(Worker)
    BY <1>5, <2>1, <2>3
  <2>4. CASE ~BanMember /\ ~Unbanning(Worker)
    BY <1>1, <1>7, <2>4 DEF Expiration, BeginExpire, EndExpire, SkipSubscription,
       LockSubscription, CheckCovered, CheckMember, BanRefused, RecordBan,
       RevokeMembership, CommitExpire, telegram
  <2> QED
    BY <2>2, <2>3, <2>4
<1> QED
  BY <1>1, <1>3, <1>4, <1>5, <1>6, <1>7 DEF Next, vars, telegram

-----------------------------------------------------------------------------
(***************************************************************************)
(* The removal                                                             *)
(***************************************************************************)
Safe == TypeOK /\ AccessInv

\* What a payment and a commit of the worker do to the subscriptions.
LEMMA PayEntitles ==
    ASSUME TypeOK, NEW s \in Subs, Pay(s)
    PROVE  /\ sub' \in [Subs -> SubscriptionRow]
           /\ \A t \in Subs \ {s} : sub'[t] = sub[t]
           /\ sub'[s].status \in Entitled
           /\ \A m \in Seats : Entitling(m) \subseteq Entitling(m)'
<1>1. now \in Nat /\ sub[s] \in SubscriptionRow
  BY DEF TypeOK
<1>2. sub' = [sub EXCEPT ![s] =
                 IF sub[s].status = "none" THEN NewSubscription(now, 1, "active")
                                           ELSE ExtendSubscription(sub[s], 1, now)]
  BY DEF Pay
<1>3. sub'[s] \in SubscriptionRow /\ sub'[s].status = "active"
  BY <1>1, <1>2, RowPaid, RowNew DEF TypeOK
<1>4. \A t \in Subs \ {s} : sub'[t] = sub[t]
  BY <1>2 DEF TypeOK
<1>5. sub' \in [Subs -> SubscriptionRow]
  BY <1>2, <1>3 DEF TypeOK
<1> QED
  BY <1>3, <1>4, <1>5 DEF Entitled, Entitling

\* A subscription that covers a seat now is not the one that the worker expires.
LEMMA CoveringIsAnother ==
    ASSUME Safe, Busy, NEW m \in Seats, CoveredAfter(m, now - Grace) # {}
    PROVE  Entitling(m) \ {task[Worker].sub} # {}
<1>1. PICK t \in CoveredAfter(m, now - Grace) : TRUE
  OBVIOUS
<1>2. /\ t \in Entitling(m) /\ sub[t].current_period_end > now - Grace
      /\ sub[t].current_period_end \in Nat
  BY <1>1 DEF CoveredAfter, Entitling, Safe, TypeOK, SubscriptionRow
<1>3. /\ task[Worker].cutoff <= now - Grace
      /\ sub[task[Worker].sub].current_period_end <= task[Worker].cutoff
  BY DEF Safe, AccessInv, RemovalSound, StillDue, Busy, At, IsDueForExpiration
<1>4. task[Worker].cutoff \in Int /\ now - Grace \in Int
  BY AccessAssumption DEF Safe, TypeOK, Processes, Task
<1>5. t # task[Worker].sub
  <2>1. ASSUME t = task[Worker].sub PROVE FALSE
    BY <1>2, <1>3, <1>4, <2>1
  <2> QED
    BY <2>1
<1> QED
  BY <1>2, <1>5

\* The subscription in the worker's hands.
LEMMA LockedRow ==
    ASSUME Safe, Busy
    PROVE  /\ task[Worker].sub \in Subs
           /\ \A r \in Covers[task[Worker].sub] :
                 r \in Resources /\ <<Owner[task[Worker].sub], r>> \in Seats
<1>1. task[Worker].sub \in Subs
  BY DEF Safe, AccessInv, TasksShaped, Shaped, Busy, Processes
<1> QED
  BY <1>1, AccessAssumption DEF Seats

\* A resource that the worker had not dealt with, or has just seen emptied or
\* covered by another subscription, is left as it has to be.
LEMMA LeftAsItWas ==
    ASSUME Safe, [Next]_vars, Busy, NEW s \in Subs,
           s = task[Worker].sub, s = task'[Worker].sub,
           NEW r \in Covers[s],
           Entitling(<<Owner[s], r>>) \subseteq Entitling(<<Owner[s], r>>)',
           Cleared(r)' => \/ Cleared(r)
                          \/ ~Admitted(<<Owner[s], r>>)
                          \/ ~Admitted(<<Owner[s], r>>)'
                          \/ Entitling(<<Owner[s], r>>) \ {s} # {}
    PROVE  LeftCovered(r)'
<1> DEFINE m == <<Owner[s], r>>
<1>1. m \in Seats
  BY LockedRow
<1>2. ASSUME Cleared(r)', Admitted(m)' PROVE Entitling(m) \ {s} # {}
  <2>1. CASE CoveredAfter(m, now - Grace) # {}
    BY <1>1, <2>1, CoveringIsAnother
  <2>2. CASE Admitted(m)
    <3>1. Cleared(r) \/ Entitling(m) \ {s} # {}
      BY <1>2, <2>2
    <3>2. LeftCovered(r)
      BY DEF Safe, AccessInv, RemovalSound
    <3> QED
      BY <2>2, <3>1, <3>2 DEF LeftCovered
  <2> QED
    BY <1>1, <1>2, <2>1, <2>2, AdmissionStep DEF Safe, AccessInv
<1>3. Cleared(r)' /\ Admitted(m)' => Entitling(m)' \ {s} # {}
  BY <1>2
<1>4. task'[Worker].sub = s
  OBVIOUS
<1> QED
  BY <1>3, <1>4 DEF LeftCovered, Admitted, Entitling

\* Others leave the removal sound.
LEMMA OthersLeaveRemoval ==
    ASSUME Safe, [Next]_vars, task'[Worker] = task[Worker],
           now' \in Nat, now' >= now,
           UNCHANGED sub \/ \E s \in Subs : Pay(s)
    PROVE  RemovalSound'
<1>1. ASSUME ~At(Worker, "idle")'
      PROVE  task'[Worker].cutoff <= now' - Grace
  <2>1. task[Worker].cutoff <= now - Grace
    BY <1>1 DEF Safe, AccessInv, RemovalSound, At
  <2>2. task[Worker].cutoff \in Int /\ now \in Nat /\ Grace \in Nat
    BY AccessAssumption DEF Safe, TypeOK, Processes, Task
  <2> QED
    BY <2>1, <2>2
<1>2. ASSUME Busy'
      PROVE  StillDue' /\ \A r \in Covers[task'[Worker].sub] : LeftCovered(r)'
  <2> DEFINE s == task[Worker].sub
  <2>1. Busy
    BY <1>2 DEF Busy
  <2>2. s \in Subs /\ \A r \in Covers[s] : <<Owner[s], r>> \in Seats
    BY <2>1, LockedRow
  <2>3. sub'[s] = sub[s]
    <3>1. ASSUME NEW t \in Subs, Pay(t) PROVE sub'[s] = sub[s]
      <4>1. t # s
        BY <2>1, <3>1 DEF Pay, Locked, Busy
      <4> QED
        BY <2>2, <3>1, <4>1, PayEntitles DEF Safe
    <3> QED
      BY <3>1
  <2>4. \A m \in Seats : Entitling(m) \subseteq Entitling(m)'
    <3>1. CASE UNCHANGED sub
      BY <3>1 DEF Entitling
    <3> QED
      BY <3>1, PayEntitles DEF Safe
  <2>5. ASSUME NEW r \in Covers[s] PROVE LeftCovered(r)'
    <3>1. Cleared(r)' => Cleared(r)
      BY DEF Cleared
    <3> QED
      BY <2>1, <2>2, <2>4, <3>1, LeftAsItWas
  <2>6. StillDue'
    <3>1. StillDue
      BY <2>1 DEF Safe, AccessInv, RemovalSound
    <3> QED
      BY <2>3, <3>1 DEF StillDue
  <2> QED
    BY <2>5, <2>6
<1> QED
  BY <1>1, <1>2 DEF RemovalSound

\* A step of the worker that stays with its subscription.
LEMMA WorkerStays ==
    ASSUME Safe, [Next]_vars, UNCHANGED <<now, sub>>, Busy, NEW s \in Subs,
           s = task[Worker].sub, s = task'[Worker].sub,
           task'[Worker].cutoff = task[Worker].cutoff,
           \A r \in Covers[s] :
              Cleared(r)' => \/ Cleared(r)
                             \/ ~Admitted(<<Owner[s], r>>)
                             \/ ~Admitted(<<Owner[s], r>>)'
                             \/ Entitling(<<Owner[s], r>>) \ {s} # {}
    PROVE  RemovalSound'
<1>1. ~At(Worker, "idle")' => task'[Worker].cutoff <= now' - Grace
  BY DEF Safe, AccessInv, RemovalSound, At, Busy
<1>2. StillDue'
  BY DEF Safe, AccessInv, RemovalSound, StillDue
<1>3. ASSUME NEW r \in Covers[s] PROVE LeftCovered(r)'
  <2>1. Entitling(<<Owner[s], r>>) \subseteq Entitling(<<Owner[s], r>>)'
    BY DEF Entitling
  <2> QED
    BY <2>1, LeftAsItWas
<1> QED
  BY <1>1, <1>2, <1>3 DEF RemovalSound

\* A step of the worker between two subscriptions.
LEMMA WorkerIsFree ==
    ASSUME ~Busy', ~At(Worker, "idle")' => task'[Worker].cutoff <= now' - Grace
    PROVE  RemovalSound'
BY DEF RemovalSound

\* Which resources a step of the worker deals with.
LEMMA GotoCleared ==
    ASSUME TypeOK, NEW step, Goto(Worker, step)
    PROVE  /\ task'[Worker].sub = task[Worker].sub
           /\ task'[Worker].cutoff = task[Worker].cutoff
           /\ task'[Worker].step = step
           /\ \A r : Cleared(r)' =>
                 \/ Cleared(r)
                 \/ step \in Out /\ task[Worker].step \notin Out /\ r = Head(task[Worker].todo)
<1>1. Worker \in Processes /\ task[Worker] \in Task
  BY DEF TypeOK, Processes
<1>2. /\ task'[Worker].sub = task[Worker].sub
      /\ task'[Worker].cutoff = task[Worker].cutoff
      /\ task'[Worker].todo = task[Worker].todo
      /\ task'[Worker].step = step
  BY <1>1 DEF Goto, TypeOK, Task
<1>3. ASSUME NEW r, Cleared(r)'
      PROVE  \/ Cleared(r)
             \/ step \in Out /\ task[Worker].step \notin Out /\ r = Head(task[Worker].todo)
  <2>1. \A i \in 1..Len(task[Worker].todo) :
           task[Worker].todo[i] = r => i = 1 /\ step \in Out
    BY <1>2, <1>3 DEF Cleared
  <2>2. CASE \E i \in 1..Len(task[Worker].todo) : task[Worker].todo[i] = r
    <3>1. r = Head(task[Worker].todo) /\ step \in Out
      BY <1>1, <2>1, <2>2 DEF Task
    <3> QED
      BY <2>1, <3>1 DEF Cleared
  <2>3. CASE ~\E i \in 1..Len(task[Worker].todo) : task[Worker].todo[i] = r
    BY <2>3 DEF Cleared
  <2> QED
    BY <2>2, <2>3
<1> QED
  BY <1>2, <1>3

\* Done with a resource, the worker clears that one and no other.
LEMMA ProceedCleared ==
    ASSUME TypeOK, TasksShaped, task[Worker].step \notin {"idle", "next", "commit"},
           NEW writes \in SUBSET Write, NEW complete \in BOOLEAN, Proceed(writes, complete)
    PROVE  /\ task'[Worker].sub = task[Worker].sub
           /\ task'[Worker].cutoff = task[Worker].cutoff
           /\ task'[Worker].step \in {"commit", "covered"}
           /\ \A r : Cleared(r)' =>
                 \/ Cleared(r)
                 \/ task[Worker].step \notin Out /\ r = Head(task[Worker].todo)
<1>1. Worker \in Processes /\ task[Worker] \in Task
  BY DEF TypeOK, Processes
<1>2. task[Worker].todo \in Seq(Resources) /\ task[Worker].todo # <<>>
  BY <1>1, TargetIsSeat
<1>3. /\ task'[Worker].sub = task[Worker].sub
      /\ task'[Worker].cutoff = task[Worker].cutoff
      /\ task'[Worker].todo = Tail(task[Worker].todo)
      /\ task'[Worker].step \in {"commit", "covered"}
  <2>1. task'[Worker] = [task[Worker] EXCEPT
                            !.step     = StepAt(Tail(task[Worker].todo)),
                            !.todo     = Tail(task[Worker].todo),
                            !.writes   = writes,
                            !.complete = complete]
    BY <1>1 DEF Proceed, TypeOK, Task
  <2>2. StepAt(Tail(task[Worker].todo)) \in {"commit", "covered"}
    BY DEF StepAt
  <2> QED
    BY <1>1, <2>1, <2>2 DEF Task
<1>4. ASSUME NEW r, Cleared(r)'
      PROVE  Cleared(r) \/ (task[Worker].step \notin Out /\ r = Head(task[Worker].todo))
  <2>1. \A i \in 1..Len(Tail(task[Worker].todo)) : Tail(task[Worker].todo)[i] # r
    BY <1>3, <1>4 DEF Cleared, Out
  <2>2. \A i \in 1..Len(task[Worker].todo) : task[Worker].todo[i] = r => i = 1
    <3>1. ASSUME NEW i \in 1..Len(task[Worker].todo), task[Worker].todo[i] = r, i # 1
          PROVE  FALSE
      <4>1. /\ i - 1 \in 1..Len(Tail(task[Worker].todo))
            /\ Tail(task[Worker].todo)[i - 1] = task[Worker].todo[i]
        BY <1>2, <3>1
      <4> QED
        BY <2>1, <3>1, <4>1
    <3> QED
      BY <3>1
  <2>3. CASE task[Worker].step \in Out
    BY <2>2, <2>3 DEF Cleared
  <2>4. CASE task[Worker].step \notin Out
    <3>1. CASE r = Head(task[Worker].todo)
      BY <2>4, <3>1
    <3>2. CASE r # Head(task[Worker].todo)
      <4>1. \A i \in 1..Len(task[Worker].todo) : task[Worker].todo[i] # r
        BY <1>2, <2>2, <3>2
      <4> QED
        BY <4>1 DEF Cleared
    <3> QED
      BY <3>1, <3>2
  <2> QED
    BY <2>3, <2>4
<1> QED
  BY <1>3, <1>4

\* Whoever Telegram has banned, or owns the chat, is not admitted.
LEMMA OutsideNotAdmitted ==
    ASSUME RequestsOpen, NEW m \in Seats, by[m] # {} \/ chat[m] = "owner"
    PROVE  ~Admitted(m)
BY DEF RequestsOpen, Admitted

\* Once somebody has been banned he is not admitted.
LEMMA BannedNotAdmitted ==
    ASSUME TypeOK, NEW m \in Seats, NEW who, Ban(m, who)
    PROVE  ~Admitted(m)'
BY DEF Ban, Admitted, TypeOK

\* The worker's own steps keep the removal sound.
LEMMA GotoRemoval ==
    ASSUME Safe, [Next]_vars, UNCHANGED <<now, sub>>,
           task[Worker].step \notin {"idle", "next", "commit"},
           NEW step \in {"check", "ban", "banned", "unban", "verify", "record", "removed"},
           Goto(Worker, step),
           NEW m, m = Target(Worker),
           \/ step \notin Out
           \/ task[Worker].step \in Out
           \/ ~Admitted(m)
           \/ ~Admitted(m)'
    PROVE  RemovalSound'
<1>1. Busy
  BY DEF Busy
<1> SUFFICES ASSUME NEW s \in Subs, s = task[Worker].sub PROVE RemovalSound'
  BY <1>1, LockedRow
<1>2. /\ task'[Worker].sub = s
      /\ task'[Worker].cutoff = task[Worker].cutoff
      /\ \A r : Cleared(r)' =>
            \/ Cleared(r)
            \/ step \in Out /\ task[Worker].step \notin Out /\ r = Head(task[Worker].todo)
  BY GotoCleared DEF Safe
<1>3. m = <<Owner[s], Head(task[Worker].todo)>>
  BY DEF Target
<1>4. ASSUME NEW r \in Covers[s], Cleared(r)'
      PROVE  \/ Cleared(r)
             \/ ~Admitted(<<Owner[s], r>>)
             \/ ~Admitted(<<Owner[s], r>>)'
  <2>1. CASE Cleared(r)
    BY <2>1
  <2>2. CASE step \in Out /\ task[Worker].step \notin Out /\ r = Head(task[Worker].todo)
    <3>1. CASE ~Admitted(m)
      BY <1>3, <2>2, <3>1
    <3>2. CASE ~Admitted(m)'
      BY <1>3, <2>2, <3>2 DEF Admitted
    <3> QED
      BY <2>2, <3>1, <3>2
  <2> QED
    BY <1>2, <1>4, <2>1, <2>2
<1> QED
  BY <1>1, <1>2, <1>4, WorkerStays

\* The worker is done with a resource only if the member is out or covered otherwise.
LEMMA ProceedRemoval ==
    ASSUME Safe, [Next]_vars, UNCHANGED <<now, sub>>,
           task[Worker].step \notin {"idle", "next", "commit"},
           NEW writes \in SUBSET Write, NEW complete \in BOOLEAN, Proceed(writes, complete),
           \/ task[Worker].step \in Out
           \/ ~Admitted(Target(Worker))
           \/ OtherEntitlement # {}
    PROVE  RemovalSound'
<1>1. Busy
  BY DEF Busy
<1> SUFFICES ASSUME NEW s \in Subs, s = task[Worker].sub PROVE RemovalSound'
  BY <1>1, LockedRow
<1>2. /\ task'[Worker].sub = s
      /\ task'[Worker].cutoff = task[Worker].cutoff
      /\ \A r : Cleared(r)' =>
            \/ Cleared(r)
            \/ task[Worker].step \notin Out /\ r = Head(task[Worker].todo)
  BY ProceedCleared DEF Safe, AccessInv
<1>3. Target(Worker) = <<Owner[s], Head(task[Worker].todo)>>
  BY DEF Target
<1>4. OtherEntitlement \subseteq Entitling(Target(Worker)) \ {s}
  BY DEF OtherEntitlement, CoveredAfter, Entitling
<1>5. ASSUME NEW r \in Covers[s], Cleared(r)'
      PROVE  \/ Cleared(r)
             \/ ~Admitted(<<Owner[s], r>>)
             \/ Entitling(<<Owner[s], r>>) \ {s} # {}
  <2>1. CASE Cleared(r)
    BY <2>1
  <2>2. CASE task[Worker].step \notin Out /\ r = Head(task[Worker].todo)
    <3>1. CASE ~Admitted(Target(Worker))
      BY <1>3, <2>2, <3>1
    <3>2. CASE OtherEntitlement # {}
      BY <1>3, <1>4, <2>2, <3>2
    <3> QED
      BY <2>2, <3>1, <3>2
  <2> QED
    BY <1>2, <1>5, <2>1, <2>2
<1> QED
  BY <1>1, <1>2, <1>5, WorkerStays

\* Between two subscriptions.
LEMMA AbortRemoval ==
    ASSUME Safe, UNCHANGED now, ~At(Worker, "idle"), Abort(Worker)
    PROVE  RemovalSound'
<1>1. task'[Worker] = [IdleTask EXCEPT !.step   = "next",
                                       !.batch  = task[Worker].batch,
                                       !.cutoff = task[Worker].cutoff]
  BY DEF Abort, Safe, TypeOK, Processes
<1>2. task'[Worker].step = "next" /\ task'[Worker].cutoff = task[Worker].cutoff
  BY <1>1 DEF IdleTask
<1>3. task[Worker].cutoff <= now - Grace
  BY DEF Safe, AccessInv, RemovalSound
<1> QED
  BY <1>2, <1>3, WorkerIsFree DEF Busy

\* Between two subscriptions it has locked no row.
LEMMA FreeRemoval ==
    ASSUME Safe, BeginExpire \/ EndExpire \/ SkipSubscription
    PROVE  RemovalSound'
<1>0. Worker \in Processes /\ task[Worker] \in Task /\ now \in Nat /\ Grace \in Nat
  BY AccessAssumption DEF Processes, Safe, TypeOK
<1>1. CASE BeginExpire
  <2>1. PICK batch \in Seq(Subs) :
           task' = [task EXCEPT ![Worker] =
                       [IdleTask EXCEPT !.step   = "next",
                                        !.batch  = batch,
                                        !.cutoff = now - Grace]]
    BY <1>1, BatchListed DEF Safe
  <2>2. task'[Worker].step = "next" /\ task'[Worker].cutoff = now - Grace
    BY <1>0, <2>1 DEF Safe, TypeOK, IdleTask
  <2>3. now' = now
    BY <1>1 DEF BeginExpire, bounds
  <2> QED
    BY <1>0, <2>2, <2>3, WorkerIsFree DEF Busy
<1>2. CASE EndExpire
  <2>1. task'[Worker].step = "idle"
    BY <1>0, <1>2 DEF EndExpire, IdleTask, Safe, TypeOK
  <2> QED
    BY <2>1, WorkerIsFree DEF Busy, At
<1>3. CASE SkipSubscription
  <2>1. /\ task'[Worker].step = "next" /\ task'[Worker].cutoff = task[Worker].cutoff
        /\ now' = now /\ task[Worker].step = "next"
    BY <1>0, <1>3 DEF SkipSubscription, At, Safe, TypeOK, Task
  <2>2. task[Worker].cutoff <= now - Grace
    BY <2>1 DEF Safe, AccessInv, RemovalSound, At
  <2> QED
    BY <2>1, <2>2, WorkerIsFree DEF Busy
<1> QED
  BY <1>1, <1>2, <1>3

\* A subscription just locked is overdue, and no resource is dealt with yet.
LEMMA LockRemoval ==
    ASSUME Safe, LockSubscription
    PROVE  RemovalSound'
<1>0. Worker \in Processes /\ task[Worker] \in Task
  BY DEF Processes, Safe, TypeOK
<1> DEFINE s == Head(task[Worker].batch)
<1>1. PICK todo \in Seq(Resources) :
         /\ \A r \in Covers[s] : \E i \in 1..Len(todo) : todo[i] = r
         /\ task' = [task EXCEPT
               ![Worker] = [task[Worker] EXCEPT
                               !.step  = StepAt(todo),
                               !.sub   = Head(task[Worker].batch),
                               !.batch = Tail(task[Worker].batch),
                               !.todo  = todo]]
  BY ResourcesListed DEF Safe
<1>2. /\ task'[Worker].sub = s /\ task'[Worker].todo = todo
      /\ task'[Worker].step = StepAt(todo)
      /\ task'[Worker].cutoff = task[Worker].cutoff
  BY <1>0, <1>1 DEF Safe, TypeOK, Task
<1>3. StepAt(todo) \in {"commit", "covered"}
  BY DEF StepAt
<1>4. s \in Overdue(task[Worker].cutoff) /\ At(Worker, "next") /\ UNCHANGED <<now, sub>>
  BY DEF LockSubscription, bounds, database
<1>5. task[Worker].cutoff <= now - Grace
  BY <1>4 DEF Safe, AccessInv, RemovalSound, At
<1>6. StillDue'
  BY <1>2, <1>4 DEF StillDue, Overdue
<1>7. ASSUME NEW r \in Covers[s] PROVE LeftCovered(r)'
  <2>1. PICK i \in 1..Len(todo) : todo[i] = r
    BY <1>1
  <2>2. ~Cleared(r)'
    BY <1>2, <1>3, <2>1 DEF Cleared, Out
  <2> QED
    BY <2>2 DEF LeftCovered
<1> QED
  BY <1>2, <1>4, <1>5, <1>6, <1>7 DEF RemovalSound

\* Every step of the expiration keeps what holds of the removals.
LEMMA ExpirationRemoval ==
    ASSUME Safe, [Next]_vars, Expiration
    PROVE  RemovalSound'
<1>0. /\ Worker \in Processes /\ task[Worker] \in Task
      /\ task[Worker].writes \in SUBSET Write /\ task[Worker].complete \in BOOLEAN
  BY DEF Processes, Safe, TypeOK, Task
<1>1. CASE BeginExpire \/ EndExpire \/ SkipSubscription
  BY <1>1, FreeRemoval
<1>2. CASE LockSubscription
  BY <1>2, LockRemoval
<1>3. CASE CheckCovered
  <2>1. UNCHANGED <<now, sub>> /\ task[Worker].step = "covered"
    BY <1>3 DEF CheckCovered, At, bounds, database
  <2>2. CASE OtherEntitlement # {}
    <3>1. Proceed(task[Worker].writes, task[Worker].complete)
      BY <1>3, <2>2 DEF CheckCovered
    <3> QED
      BY <1>0, <2>1, <2>2, <3>1, ProceedRemoval
  <2>3. CASE OtherEntitlement = {}
    <3>1. Goto(Worker, "check")
      BY <1>3, <2>3 DEF CheckCovered
    <3> QED
      BY <2>1, <3>1, GotoRemoval DEF Out
  <2> QED
    BY <2>2, <2>3
<1>4. CASE CheckMember
  <2>1. UNCHANGED <<now, sub>> /\ task[Worker].step = "check"
    BY <1>4 DEF CheckMember, At, bounds, database
  <2>2. CASE by[Target(Worker)] = {}
    <3>1. Goto(Worker, "ban")
      BY <1>4, <2>2 DEF CheckMember
    <3> QED
      BY <2>1, <3>1, GotoRemoval DEF Out
  <2>3. CASE by[Target(Worker)] # {}
    <3>1. ~Admitted(Target(Worker))
      BY <1>0, <2>1, <2>3, TargetIsSeat, OutsideNotAdmitted DEF Safe, AccessInv
    <3>2. PICK step \in {"unban", "removed"} : Goto(Worker, step)
      BY <1>4, <2>3 DEF CheckMember
    <3> QED
      BY <2>1, <3>1, <3>2, GotoRemoval
  <2> QED
    BY <2>2, <2>3
<1>5. CASE BanMember
  <2>1. UNCHANGED <<now, sub>> /\ task[Worker].step = "ban" /\ Goto(Worker, "banned")
    BY <1>5 DEF BanMember, At, bounds, database
  <2>2. PICK m \in Seats : m = Target(Worker)
    BY <1>0, <2>1, TargetIsSeat DEF Safe, AccessInv
  <2>3. ~Admitted(m)'
    BY <1>5, <2>2, BannedNotAdmitted DEF BanMember, Safe
  <2> QED
    BY <2>1, <2>2, <2>3, GotoRemoval
<1>6. CASE BanRefused
  <2>1. /\ UNCHANGED <<now, sub>> /\ task[Worker].step = "ban"
        /\ Proceed(task[Worker].writes, FALSE)
    BY <1>6 DEF BanRefused, At, bounds, database
  <2>2. ~Admitted(Target(Worker))
    BY <1>0, <1>6, <2>1, TargetIsSeat, OutsideNotAdmitted DEF Safe, AccessInv, BanRefused
  <2> QED
    BY <1>0, <2>1, <2>2, ProceedRemoval
<1>7. CASE RecordBan
  <2>1. UNCHANGED <<now, sub>> /\ task[Worker].step = "banned" /\ Goto(Worker, "unban")
    BY <1>7 DEF RecordBan, At, bounds, database
  <2> QED
    BY <2>1, GotoRemoval DEF Out
<1>8. CASE Unbanning(Worker)
  <2>1. CASE UnbanFailed(Worker)
    <3>1. UNCHANGED now /\ ~At(Worker, "idle") /\ Abort(Worker)
      BY <2>1 DEF UnbanFailed, At, bounds
    <3> QED
      BY <3>1, AbortRemoval
  <2>2. CASE LiftBan(Worker) \/ VerifyUnban(Worker) \/ RecordUnban(Worker)
    <3>1. UNCHANGED <<now, sub>> /\ task[Worker].step \in {"unban", "verify", "record"}
      BY <2>2 DEF LiftBan, VerifyUnban, RecordUnban, At, bounds, database
    <3>2. PICK step \in {"verify", "record", "removed"} : Goto(Worker, step)
      BY <2>2 DEF LiftBan, VerifyUnban, RecordUnban
    <3> QED
      BY <3>1, <3>2, GotoRemoval DEF Out
  <2> QED
    BY <1>8, <2>1, <2>2 DEF Unbanning
<1>9. CASE RevokeMembership
  <2>1. UNCHANGED <<now, sub>> /\ task[Worker].step = "removed"
    BY <1>9 DEF RevokeMembership, At, bounds, database
  <2>2. CASE membership[Target(Worker)].status = "none"
    <3>1. Proceed(task[Worker].writes, task[Worker].complete)
      BY <1>9, <2>2 DEF RevokeMembership
    <3> QED
      BY <1>0, <2>1, <3>1, ProceedRemoval DEF Out
  <2>3. CASE membership[Target(Worker)].status # "none"
    <3> DEFINE m   == Target(Worker)
               row == membership[m]
               w   == [seat |-> m, loaded |-> row,
                       stored |-> [row EXCEPT !.status = "revoked", !.link = 0]]
    <3>1. Proceed(task[Worker].writes \cup {w}, task[Worker].complete)
      BY <1>9, <2>3 DEF RevokeMembership
    <3>2. m \in Seats
      BY <1>0, <2>1, TargetIsSeat DEF Safe, AccessInv
    <3>3. w \in Write
      <4>1. row \in Membership
        BY <3>2 DEF Safe, TypeOK
      <4>2. 0 \in 0..MaxLinks
        BY AccessAssumption
      <4>3. [row EXCEPT !.status = "revoked", !.link = 0] \in Membership
        BY <4>1, <4>2 DEF Membership
      <4> QED
        BY <3>2, <4>1, <4>3 DEF Write
    <3> HIDE DEF w
    <3>4. task[Worker].writes \cup {w} \in SUBSET Write
      BY <1>0, <3>3
    <3> QED
      BY <1>0, <2>1, <3>1, <3>4, ProceedRemoval DEF Out
  <2> QED
    BY <2>2, <2>3
<1>10. CASE CommitExpire
  <2>1. UNCHANGED now /\ ~At(Worker, "idle") /\ Abort(Worker)
    BY <1>10 DEF CommitExpire, At, bounds
  <2> QED
    BY <2>1, AbortRemoval
<1> QED
  BY <1>1, <1>2, <1>3, <1>4, <1>5, <1>6, <1>7, <1>8, <1>9, <1>10 DEF Expiration

\* And every step of the system.
LEMMA RemovalStep ==
    ASSUME Safe, [Next]_vars
    PROVE  RemovalSound'
<1>1. now \in Nat /\ now' \in Nat
  BY TypeStep DEF Safe, AccessInv, TypeOK
<1>2. CASE Surroundings
  BY <1>1, <1>2, SurroundingsApart, OthersLeaveRemoval DEF Safe
<1>3. ASSUME NEW m \in Seats, JoinRequest(m) \/ DeliverUpdate(m) \/ FailReview(m)
      PROVE  RemovalSound'
  <2>1. UNCHANGED <<now, sub, task>>
    BY <1>3, AnswersApart
  <2> QED
    BY <1>1, <2>1, OthersLeaveRemoval
<1>4. ASSUME NEW u \in Users, Invites(u) \/ Fail(u) PROVE RemovalSound'
  <2>1. UNCHANGED <<now, sub>> /\ task'[Worker] = task[Worker]
    BY <1>4, InvitesApart DEF Safe
  <2> QED
    BY <1>1, <2>1, OthersLeaveRemoval
<1>5. CASE Expiration
  BY <1>5, ExpirationRemoval
<1>6. CASE Fail(Worker)
  <2>1. UNCHANGED now /\ ~At(Worker, "idle") /\ Abort(Worker)
    BY <1>6 DEF Fail, At
  <2> QED
    BY <2>1, AbortRemoval
<1>7. CASE UNCHANGED vars
  <2>1. UNCHANGED <<now, sub, task>>
    BY <1>7 DEF vars, bounds, database
  <2> QED
    BY <1>1, <2>1, OthersLeaveRemoval
<1> QED
  BY <1>2, <1>3, <1>4, <1>5, <1>6, <1>7 DEF Next, Processes

-----------------------------------------------------------------------------
(***************************************************************************)
(* Whoever is in has a subscription                                        *)
(***************************************************************************)
\* Subscriptions change by a payment and by the worker's commit.
LEMMA SubscriptionsStep ==
    ASSUME TypeOK, [Next]_vars, ~CommitExpire
    PROVE  UNCHANGED sub \/ \E s \in Subs : Pay(s)
<1>1. CASE Surroundings
  BY <1>1, SurroundingsApart
<1>2. CASE \E m \in Seats : JoinRequest(m) \/ DeliverUpdate(m) \/ FailReview(m)
  BY <1>2, AnswersApart
<1>3. CASE \E u \in Users : Invites(u) \/ Fail(u)
  BY <1>3, InvitesApart
<1>4. CASE Expiration
  BY <1>4 DEF Expiration, BeginExpire, EndExpire, SkipSubscription, LockSubscription,
     CheckCovered, CheckMember, BanMember, BanRefused, RecordBan, Unbanning, LiftBan,
     VerifyUnban, RecordUnban, UnbanFailed, RevokeMembership, database
<1>5. CASE Fail(Worker) \/ UNCHANGED vars
  BY <1>5 DEF Fail, vars, database
<1> QED
  BY <1>1, <1>2, <1>3, <1>4, <1>5 DEF Next, Processes

\* The worker's commit leaves nobody without one.
LEMMA CommitLeavesNobody ==
    ASSUME Safe, CommitExpire, NEW m \in Seats, Admitted(m)'
    PROVE  Entitling(m)' # {}
<1>1. /\ At(Worker, "commit") /\ UNCHANGED <<chat, request, review>>
      /\ sub' = [sub EXCEPT ![task[Worker].sub] = ExpireSubscription(@, task[Worker].complete)]
  BY DEF CommitExpire, telegram
<1>2. Busy
  BY <1>1 DEF Busy, At
<1> SUFFICES ASSUME NEW s \in Subs, s = task[Worker].sub PROVE Entitling(m)' # {}
  BY <1>2, LockedRow
<1>3. Admitted(m)
  BY <1>1 DEF Admitted, Handling
<1>4. Entitling(m) # {}
  BY <1>3 DEF Safe, AccessInv, AdmittedAreCovered
<1>5. Entitling(m) \ {s} # {}
  <2>1. CASE s \notin Entitling(m)
    BY <1>4, <2>1
  <2>2. CASE s \in Entitling(m)
    <3>1. m[2] \in Covers[s] /\ m = <<Owner[s], m[2]>>
      BY <2>2 DEF Entitling, Seats
    <3>2. task[Worker].todo = <<>>
      BY <1>1 DEF Safe, AccessInv, TasksShaped, Shaped, At, Processes
    <3>3. Cleared(m[2])
      BY <3>2 DEF Cleared
    <3>4. LeftCovered(m[2])
      BY <1>2, <3>1 DEF Safe, AccessInv, RemovalSound
    <3> QED
      BY <1>3, <3>1, <3>3, <3>4 DEF LeftCovered
  <2> QED
    BY <2>1, <2>2
<1>6. \A t \in Subs \ {s} : sub'[t] = sub[t]
  BY <1>1 DEF Safe, TypeOK
<1> QED
  BY <1>5, <1>6 DEF Entitling

\* Whoever is admitted has an entitlement after every step.
LEMMA CoverageStep ==
    ASSUME Safe, [Next]_vars
    PROVE  AdmittedAreCovered'
<1> SUFFICES ASSUME NEW m \in Seats, Admitted(m)' PROVE Entitling(m)' # {}
  BY DEF AdmittedAreCovered
<1>1. CASE CommitExpire
  BY <1>1, CommitLeavesNobody
<1>2. CASE ~CommitExpire
  <2>1. Entitling(m) # {}
    <3>1. CoveredAfter(m, now - Grace) \subseteq Entitling(m)
      BY DEF CoveredAfter, Entitling
    <3>2. Admitted(m) => Entitling(m) # {}
      BY DEF Safe, AccessInv, AdmittedAreCovered
    <3> QED
      BY <3>1, <3>2, AdmissionStep DEF Safe, AccessInv
  <2>2. CASE UNCHANGED sub
    BY <2>1, <2>2 DEF Entitling
  <2>3. CASE \E s \in Subs : Pay(s)
    BY <2>1, <2>3, PayEntitles DEF Safe
  <2> QED
    BY <1>2, <2>2, <2>3, SubscriptionsStep DEF Safe
<1> QED
  BY <1>1, <1>2

-----------------------------------------------------------------------------
(***************************************************************************)
(* What the worker has seen                                                *)
(***************************************************************************)
Looking == task[Worker].step \in {"check", "ban"}

\* The seat and the cutoff of a task, and the entitlement read through them.
LEMMA SameEntitlement ==
    ASSUME UNCHANGED sub, task'[Worker].sub = task[Worker].sub,
           task'[Worker].todo = task[Worker].todo,
           task'[Worker].cutoff = task[Worker].cutoff
    PROVE  OtherEntitlement' = OtherEntitlement
BY DEF OtherEntitlement, CoveredAfter, Target

\* What the worker has looked at stays true when others step.
LEMMA OthersLeaveLooked ==
    ASSUME Safe, task'[Worker] = task[Worker],
           UNCHANGED <<sub, paid>> \/ \E s \in Subs : Pay(s)
    PROVE  LookedSound'
<1>1. CASE UNCHANGED <<sub, paid>>
  <2>1. OtherEntitlement' = OtherEntitlement
    BY <1>1, SameEntitlement
  <2> QED
    BY <1>1, <2>1 DEF Safe, AccessInv, LookedSound, At
<1>2. ASSUME NEW s \in Subs, Pay(s), Looking PROVE OtherEntitlement' \subseteq paid'
  <2>1. task[Worker].todo # <<>>
    BY <1>2 DEF Safe, AccessInv, TasksShaped, Shaped, Looking, Processes
  <2>2. paid' = paid \cup {s}
    BY <1>2, <2>1 DEF Pay
  <2>3. \A t \in Subs \ {s} : sub'[t] = sub[t]
    BY <1>2, PayEntitles DEF Safe
  <2>4. OtherEntitlement' \subseteq OtherEntitlement \cup {s}
    BY <2>3 DEF OtherEntitlement, CoveredAfter, Target
  <2>5. OtherEntitlement \subseteq paid
    BY <1>2 DEF Safe, AccessInv, LookedSound, Looking, At
  <2> QED
    BY <2>2, <2>4, <2>5
<1> QED
  BY <1>1, <1>2 DEF LookedSound, Looking, At

\* Where a step of the worker leads: what it does to a member apart, to another
\* resource or another subscription.
LEMMA WorkerGoes ==
    ASSUME Safe, Expiration \/ Fail(Worker)
    PROVE  \/ CheckCovered \/ CheckMember \/ BanMember \/ RecordBan
           \/ LiftBan(Worker) \/ VerifyUnban(Worker) \/ RecordUnban(Worker)
           \/ task'[Worker].step \in {"idle", "next", "commit", "covered"}
<1>0. Worker \in Processes /\ task[Worker] \in Task
  BY DEF Processes, Safe, TypeOK
<1> DEFINE Elsewhere == task'[Worker].step \in {"idle", "next", "commit", "covered"}
<1>1. \A todo : StepAt(todo) \in {"commit", "covered"}
  BY DEF StepAt
<1>2. ASSUME NEW writes, NEW complete, Proceed(writes, complete) PROVE Elsewhere
  <2>1. task'[Worker].step = StepAt(Tail(task[Worker].todo))
    BY <1>0, <1>2 DEF Proceed, Safe, TypeOK, Task
  <2> QED
    BY <1>1, <2>1
<1>3. ASSUME Abort(Worker) PROVE Elsewhere
  BY <1>0, <1>3 DEF Abort, IdleTask, Safe, TypeOK
<1>4. ASSUME BeginExpire PROVE Elsewhere
  <2>1. PICK batch \in Seq(Subs) :
           task' = [task EXCEPT ![Worker] =
                       [IdleTask EXCEPT !.step   = "next",
                                        !.batch  = batch,
                                        !.cutoff = now - Grace]]
    BY <1>4, BatchListed DEF Safe
  <2> QED
    BY <1>0, <2>1 DEF IdleTask, Safe, TypeOK
<1>5. ASSUME EndExpire \/ SkipSubscription PROVE Elsewhere
  BY <1>0, <1>5 DEF EndExpire, SkipSubscription, IdleTask, At, Safe, TypeOK, Task
<1>6. ASSUME LockSubscription PROVE Elsewhere
  <2>1. PICK todo \in Seq(Resources) : task'[Worker] = [task[Worker] EXCEPT
                                        !.step  = StepAt(todo),
                                        !.sub   = Head(task[Worker].batch),
                                        !.batch = Tail(task[Worker].batch),
                                        !.todo  = todo]
    BY <1>0, <1>6, ResourcesListed DEF Safe, TypeOK
  <2>2. task'[Worker].step = StepAt(todo)
    BY <1>0, <2>1 DEF Task
  <2> QED
    BY <1>1, <2>2
<1>7. ASSUME BanRefused \/ RevokeMembership PROVE Elsewhere
  BY <1>2, <1>7 DEF BanRefused, RevokeMembership
<1>8. ASSUME UnbanFailed(Worker) \/ CommitExpire \/ Fail(Worker) PROVE Elsewhere
  BY <1>3, <1>8 DEF UnbanFailed, CommitExpire, Fail
<1> QED
  BY <1>4, <1>5, <1>6, <1>7, <1>8 DEF Expiration, Unbanning

\* Only the two checks lead on to a removal.
LEMMA LooksStep ==
    ASSUME Safe, Expiration \/ Fail(Worker), Looking'
    PROVE  CheckCovered \/ CheckMember
<1>1. ASSUME NEW step, step \notin {"check", "ban"}, Goto(Worker, step) PROVE FALSE
  BY <1>1, GotoCleared DEF Safe, Looking
<1>2. ~BanMember /\ ~RecordBan /\ ~LiftBan(Worker) /\ ~VerifyUnban(Worker)
  BY <1>1 DEF BanMember, RecordBan, LiftBan, VerifyUnban
<1>3. ~RecordUnban(Worker)
  BY <1>1 DEF RecordUnban
<1> QED
  BY <1>2, <1>3, WorkerGoes DEF Looking

\* It stays true when the worker itself steps.
LEMMA ExpirationLooked ==
    ASSUME Safe, Expiration \/ Fail(Worker)
    PROVE  LookedSound'
<1>0. Worker \in Processes /\ task[Worker] \in Task
  BY DEF Processes, Safe, TypeOK
<1> SUFFICES ASSUME Looking' PROVE OtherEntitlement' \subseteq paid'
  BY DEF LookedSound, Looking, At
<1>1. ASSUME NEW step, Goto(Worker, step), UNCHANGED sub
      PROVE  OtherEntitlement' = OtherEntitlement
  <2>1. /\ task'[Worker].sub = task[Worker].sub
        /\ task'[Worker].todo = task[Worker].todo
        /\ task'[Worker].cutoff = task[Worker].cutoff
    BY <1>0, <1>1 DEF Goto, Safe, TypeOK, Task
  <2> QED
    BY <1>1, <2>1, SameEntitlement
<1>2. CASE CheckCovered
  <2>1. CASE OtherEntitlement # {}
    <3>1. task'[Worker].step = StepAt(Tail(task[Worker].todo))
      BY <1>0, <1>2, <2>1 DEF CheckCovered, Proceed, Safe, TypeOK, Task
    <3>2. StepAt(Tail(task[Worker].todo)) \in {"commit", "covered"}
      BY DEF StepAt
    <3> QED
      BY <3>1, <3>2 DEF Looking
  <2>2. CASE OtherEntitlement = {}
    BY <1>1, <1>2, <2>2 DEF CheckCovered, database
  <2> QED
    BY <2>1, <2>2
<1>3. CASE CheckMember
  <2>1. OtherEntitlement' = OtherEntitlement
    <3>1. UNCHANGED sub /\ \E step : Goto(Worker, step)
      BY <1>3 DEF CheckMember, database
    <3> QED
      BY <1>1, <3>1
  <2>2. OtherEntitlement \subseteq paid /\ UNCHANGED paid
    BY <1>3 DEF CheckMember, Safe, AccessInv, LookedSound, history
  <2> QED
    BY <2>1, <2>2
<1> QED
  BY <1>2, <1>3, LooksStep

\* It stays true, whoever steps.
LEMMA LookedStep ==
    ASSUME Safe, [Next]_vars
    PROVE  LookedSound'
<1>1. CASE Surroundings
  BY <1>1, SurroundingsApart, OthersLeaveLooked DEF Safe
<1>2. ASSUME NEW m \in Seats, JoinRequest(m) \/ DeliverUpdate(m) \/ FailReview(m)
      PROVE  LookedSound'
  <2>1. UNCHANGED <<sub, paid, task>>
    BY <1>2, AnswersApart
  <2> QED
    BY <2>1, OthersLeaveLooked
<1>3. ASSUME NEW u \in Users, Invites(u) \/ Fail(u) PROVE LookedSound'
  <2>1. UNCHANGED <<sub, paid>> /\ task'[Worker] = task[Worker]
    BY <1>3, InvitesApart DEF Safe
  <2> QED
    BY <2>1, OthersLeaveLooked
<1>4. CASE Expiration \/ Fail(Worker)
  BY <1>4, ExpirationLooked
<1>5. CASE UNCHANGED vars
  <2>1. UNCHANGED <<sub, paid, task>>
    BY <1>5 DEF vars, database, history
  <2> QED
    BY <2>1, OthersLeaveLooked
<1> QED
  BY <1>1, <1>2, <1>3, <1>4, <1>5 DEF Next, Processes

-----------------------------------------------------------------------------
(***************************************************************************)
(* The theorems on members                                                 *)
(***************************************************************************)
LEMMA InitSafe == Init => Safe
<1> SUFFICES ASSUME Init PROVE Safe
  OBVIOUS
<1>1. TypeOK
  BY InitType
<1>2. \A p \in Processes : task[p] = IdleTask
  BY DEF Init
<1>3. task[Worker].step = "idle"
  BY <1>2 DEF Processes, IdleTask
<1>4. TasksShaped
  BY <1>2 DEF TasksShaped, Shaped, IdleTask
<1>5. RequestsOpen /\ AdmittedAreCovered
  BY DEF Init, RequestsOpen, AdmittedAreCovered, Admitted
<1>6. RemovalSound /\ LookedSound
  BY <1>3 DEF RemovalSound, LookedSound, Busy, At
<1> QED
  BY <1>1, <1>4, <1>5, <1>6 DEF Safe, AccessInv

\* The invariant is inductive.
LEMMA SafeStep == Safe /\ [Next]_vars => Safe'
<1> SUFFICES ASSUME Safe, [Next]_vars PROVE Safe'
  OBVIOUS
<1>1. TypeOK' /\ TasksShaped' /\ RequestsOpen'
  BY TypeStep, ShapedStep, OpenStep DEF Safe, AccessInv
<1> QED
  BY <1>1, CoverageStep, RemovalStep, LookedStep DEF Safe, AccessInv

\* The inductive invariant: what the two theorems on who is in a chat and who
\* is banned from it rest on.
THEOREM SafeAlways == Spec => []Safe
BY InitSafe, SafeStep, PTL DEF Spec

\* Every variable has its type in every reachable state: no handler stores a
\* status, a process step or an invitation number that no other one expects.
THEOREM TypeCorrect == Spec => []TypeOK
<1>1. Safe => TypeOK
  BY DEF Safe
<1> QED
  BY <1>1, SafeAlways, PTL

\* Whoever the bot has let into a chat has a subscription that covers it and
\* has not been expired, whatever the worker, create_invites, the join requests,
\* the administrators and the failures do in between.
THEOREM MembersAlwaysCovered == Spec => []MembersAreCovered
<1>1. Safe => MembersAreCovered
  BY DEF Safe, AccessInv, AdmittedAreCovered, Admitted, Entitling, MembersAreCovered
<1> QED
  BY <1>1, SafeAlways, PTL

\* The bot bans somebody in one step only.
LEMMA BotBans ==
    ASSUME Safe, [Next]_vars, NEW m \in Seats, "bot" \in by'[m] \ by[m]
    PROVE  BanMember /\ m = Target(Worker)
<1>1. ~UNCHANGED by
  OBVIOUS
<1>2. ASSUME NEW n \in Seats, NEW who, Unban(n, who) PROVE FALSE
  BY <1>2 DEF Unban, Safe, TypeOK
<1>3. ASSUME NEW n \in Seats, NEW who, Ban(n, who) PROVE m = n /\ who = "bot"
  BY <1>3 DEF Ban, Safe, TypeOK
<1>4. ~Surroundings
  <2>1. \A s \in Subs, r \in Resources : <<Owner[s], r>> \in Seats
    BY AccessAssumption DEF Seats
  <2>2. ASSUME NEW n \in Seats, ManualBan(n) PROVE FALSE
    BY <1>3, <2>2 DEF ManualBan
  <2>3. ASSUME NEW n \in Seats, ManualUnban(n) PROVE FALSE
    BY <1>2, <2>3 DEF ManualUnban
  <2>4. /\ ~Tick /\ \A s \in Subs : ~Pay(s)
        /\ \A n \in Seats, l \in 1..Len(link) : ~Request(n, l)
    BY <1>1 DEF Tick, Pay, Request, telegram
  <2> QED
    BY <2>1, <2>2, <2>3, <2>4 DEF Surroundings
<1>5. ASSUME NEW n \in Seats, JoinRequest(n) \/ DeliverUpdate(n) \/ FailReview(n)
      PROVE  FALSE
  BY <1>1, <1>5 DEF JoinRequest, DeliverUpdate, FailReview, ReviewRequest, Approve, Decline,
     BurnLink, MarkJoined, ClearPending, telegram
<1>6. ASSUME NEW p \in Processes, Unbanning(p) \/ Fail(p) PROVE FALSE
  <2>1. CASE LiftBan(p)
    BY <1>2, <2>1, TargetIsSeat DEF LiftBan, At, Safe, AccessInv
  <2>2. CASE VerifyUnban(p) \/ RecordUnban(p) \/ UnbanFailed(p) \/ Fail(p)
    BY <1>1, <2>2 DEF VerifyUnban, RecordUnban, UnbanFailed, Fail, telegram
  <2> QED
    BY <1>6, <2>1, <2>2 DEF Unbanning
<1>7. ASSUME NEW u \in Users, Invites(u) PROVE FALSE
  <2>1. ~Unbanning(u)
    BY <1>6 DEF Processes
  <2> QED
    BY <1>1, <1>7, <2>1 DEF Invites, BeginInvites, EnsureNotBanned, ReuseInvite,
       CreateInvite, CommitInvites, telegram
<1>8. CASE Expiration
  <2>1. Worker \in Processes
    BY DEF Processes
  <2>2. ~Unbanning(Worker)
    BY <1>6, <2>1
  <2>3. BanMember
    BY <1>1, <1>8, <2>2 DEF Expiration, BeginExpire, EndExpire, SkipSubscription,
       LockSubscription, CheckCovered, CheckMember, BanRefused, RecordBan,
       RevokeMembership, CommitExpire, telegram
  <2>4. Target(Worker) \in Seats /\ Ban(Target(Worker), "bot")
    BY <2>1, <2>3, TargetIsSeat DEF BanMember, At, Safe, AccessInv
  <2> QED
    BY <1>3, <2>3, <2>4
<1> QED
  BY <1>1, <1>4, <1>5, <1>6, <1>7, <1>8 DEF Next, vars, telegram

\* Only a payment that came after the look covers whoever the bot bans.
LEMMA BanStep ==
    ASSUME Safe, [Next]_vars, NEW m \in Seats, "bot" \in by'[m] \ by[m]
    PROVE  CoveredAfter(m, now - Grace) \subseteq paid
<1>1. BanMember /\ m = Target(Worker)
  BY BotBans
<1>2. Busy /\ At(Worker, "ban")
  BY <1>1 DEF BanMember, At, Busy
<1>3. OtherEntitlement \subseteq paid
  BY <1>2 DEF Safe, AccessInv, LookedSound
<1> SUFFICES ASSUME NEW t \in CoveredAfter(m, now - Grace) PROVE t \in OtherEntitlement
  BY <1>3
<1>4. task[Worker].cutoff <= now - Grace /\ StillDue
  BY <1>2 DEF Safe, AccessInv, RemovalSound, Busy, At
<1>5. task[Worker].cutoff \in Int /\ now - Grace \in Int /\ t \in Subs
  BY AccessAssumption DEF Safe, TypeOK, Processes, Task, CoveredAfter
<1>6. sub[t].current_period_end \in Nat /\ sub[t].current_period_end > now - Grace
  BY <1>5 DEF CoveredAfter, Safe, TypeOK, SubscriptionRow
<1>7. sub[t].current_period_end > task[Worker].cutoff
  BY <1>4, <1>5, <1>6
<1>8. t # task[Worker].sub
  <2>1. ASSUME t = task[Worker].sub PROVE FALSE
    <3>1. sub[t].current_period_end <= task[Worker].cutoff
      BY <1>4, <2>1 DEF StillDue, IsDueForExpiration
    <3> QED
      BY <1>5, <1>6, <1>7, <3>1
  <2> QED
    BY <2>1
<1> QED
  BY <1>1, <1>7, <1>8 DEF OtherEntitlement, CoveredAfter

\* The bot removes nobody from a resource that another subscription of his
\* covers, unless that one was paid after the worker had last looked.
THEOREM CoveredAlwaysStay == Spec => CoveredStays
<1>1. Safe /\ [Next]_vars =>
         [\A m \in Seats :
             "bot" \in by'[m] \ by[m] => CoveredAfter(m, now - Grace) \subseteq paid]_vars
  BY BanStep
<1> QED
  BY <1>1, SafeAlways, PTL DEF Spec, CoveredStays

-----------------------------------------------------------------------------
(***************************************************************************)
(* Who banned whom                                                         *)
(***************************************************************************)
\* The event of a seat that the log will hold when all updates are in.
Latest(m) ==
    IF undelivered[m] = <<>> THEN log[m] ELSE undelivered[m][Len(undelivered[m])]

\* The bot knows its own bans, and takes none of others for its own while the
\* administrators wait for it.
BanKnown(m) == m \notin overtaken /\ by[m] = {"bot"} => Latest(m) = "bot_ban"

BanTrue(m) == by[m] # {} /\ Latest(m) = "bot_ban" => "bot" \in by[m]

\* What the worker is about to record of a ban is not a lie.
Recordable ==
    At(Worker, "banned") => by[Target(Worker)] = {} \/ "bot" \in by[Target(Worker)]

BansInv ==
    /\ \A m \in Seats : BanKnown(m)
    /\ AdminsWait => Recordable /\ \A m \in Seats : BanTrue(m)

\* The latest event is what a change of a ban has announced, and nothing else
\* when the ban goes on.
LEMMA BanLatest ==
    ASSUME TypeOK, NEW n \in Seats, NEW who \in {"bot", "manual"}, Ban(n, who)
    PROVE  /\ by'[n] = by[n] \cup {who}
           /\ Latest(n)' = IF by[n] = {} THEN BanEvent[who] ELSE Latest(n)
           /\ \A m \in Seats \ {n} : by'[m] = by[m] /\ Latest(m)' = Latest(m)
<1>1. by'[n] = by[n] \cup {who} /\ \A m \in Seats \ {n} : by'[m] = by[m]
  BY DEF Ban, TypeOK
<1>2. CASE by[n] # {}
  BY <1>1, <1>2 DEF Ban, Latest
<1>3. CASE by[n] = {}
  <2>1. /\ undelivered' = [undelivered EXCEPT ![n] = Append(@, BanEvent[who])]
        /\ UNCHANGED log
    BY <1>3 DEF Ban, Announce
  <2>2. undelivered[n] \in Seq(BanEvents) /\ BanEvent[who] \in BanEvents
    BY DEF TypeOK, BanEvent, BanEvents
  <2>3. undelivered'[n] = Append(undelivered[n], BanEvent[who])
    BY <2>1 DEF TypeOK
  <2>4. undelivered'[n] # <<>> /\ undelivered'[n][Len(undelivered'[n])] = BanEvent[who]
    <3>1. ASSUME NEW q \in Seq(BanEvents), NEW event \in BanEvents
          PROVE  Append(q, event) # <<>> /\ Append(q, event)[Len(Append(q, event))] = event
      <4>1. Len(q) \in Nat /\ Len(Append(q, event)) = Len(q) + 1
        OBVIOUS
      <4>2. Append(q, event)[Len(q) + 1] = event
        OBVIOUS
      <4>3. Append(q, event) # <<>>
        BY <4>1
      <4> QED
        BY <4>1, <4>2, <4>3
    <3> QED
      BY <2>2, <2>3, <3>1, Zenon
  <2>5. Latest(n)' = BanEvent[who]
    BY <2>4 DEF Latest
  <2>6. \A m \in Seats \ {n} : Latest(m)' = Latest(m)
    BY <2>1 DEF Latest, TypeOK
  <2> QED
    BY <1>1, <1>3, <2>5, <2>6
<1> QED
  BY <1>2, <1>3

\* After an unban nobody bans, and the other seats stay as they were.
LEMMA UnbanLatest ==
    ASSUME TypeOK, NEW n \in Seats, NEW who, Unban(n, who)
    PROVE  /\ by'[n] = {}
           /\ \A m \in Seats \ {n} : by'[m] = by[m] /\ Latest(m)' = Latest(m)
BY DEF Unban, Announce, Latest, TypeOK

\* An event that the bot records itself is the latest.
LEMMA RecordLatest ==
    ASSUME TypeOK, NEW n \in Seats, NEW event, RecordEvent(n, event)
    PROVE  /\ Latest(n)' = event
           /\ \A m \in Seats \ {n} : Latest(m)' = Latest(m)
BY DEF RecordEvent, Latest, TypeOK

\* A delivery brings no news of the latest event.
LEMMA DeliverLatest ==
    ASSUME TypeOK, NEW n \in Seats, DeliverUpdate(n)
    PROVE  \A m \in Seats : Latest(m)' = Latest(m)
<1>1. PICK k \in 1..Len(undelivered[n]) :
         /\ log' = [log EXCEPT ![n] = undelivered[n][k]]
         /\ undelivered' = [undelivered EXCEPT ![n] = SubSeq(@, k + 1, Len(@))]
  BY DEF DeliverUpdate
<1>2. undelivered[n] \in Seq(BanEvents) /\ Len(undelivered[n]) \in Nat
  BY DEF TypeOK
<1>3. /\ log'[n] = undelivered[n][k]
      /\ undelivered'[n] = SubSeq(undelivered[n], k + 1, Len(undelivered[n]))
  BY <1>1 DEF TypeOK
<1>4. CASE k = Len(undelivered[n])
  <2>1. undelivered'[n] = <<>> /\ undelivered[n] # <<>>
    BY <1>2, <1>3, <1>4
  <2> QED
    BY <1>1, <1>3, <1>4, <2>1 DEF Latest, TypeOK
<1>5. CASE k < Len(undelivered[n])
  <2>1. Len(undelivered'[n]) = Len(undelivered[n]) - k
    BY <1>2, <1>3, <1>5
  <2>2. undelivered'[n][Len(undelivered[n]) - k] = undelivered[n][Len(undelivered[n])]
    BY <1>2, <1>3, <1>5
  <2>3. undelivered'[n] # <<>> /\ undelivered[n] # <<>>
    BY <1>2, <1>5, <2>1
  <2>4. Latest(n)' = Latest(n)
    BY <2>1, <2>2, <2>3 DEF Latest
  <2>5. \A m \in Seats \ {n} : Latest(m)' = Latest(m)
    BY <1>1 DEF Latest, TypeOK
  <2> QED
    BY <2>4, <2>5
<1> QED
  BY <1>2, <1>4, <1>5

\* The steps that change a ban or the record of one.
LEMMA BansMove ==
    ASSUME Safe, [Next]_vars
    PROVE  \/ UNCHANGED <<by, log, undelivered, overtaken>>
           \/ \E m \in Seats : DeliverUpdate(m) \/ ManualBan(m) \/ ManualUnban(m)
           \/ \E p \in Processes : LiftBan(p) \/ RecordUnban(p)
           \/ BanMember \/ RecordBan
<1>1. CASE Surroundings
  <2>1. \A s \in Subs, r \in Resources : <<Owner[s], r>> \in Seats
    BY AccessAssumption DEF Seats
  <2> QED
    BY <1>1, <2>1 DEF Surroundings, Tick, Pay, Request, telegram, events, history
<1>2. CASE \E m \in Seats : DeliverUpdate(m) \/ JoinRequest(m) \/ FailReview(m)
  BY <1>2 DEF JoinRequest, FailReview, ReviewRequest, Approve, Decline, BurnLink,
     MarkJoined, ClearPending, telegram, events, history
<1>3. ASSUME NEW p \in Processes, Unbanning(p) \/ Fail(p)
      PROVE  \/ UNCHANGED <<by, log, undelivered, overtaken>>
             \/ LiftBan(p) \/ RecordUnban(p)
  BY <1>3 DEF Unbanning, VerifyUnban, UnbanFailed, Fail, telegram, events, history
<1>4. ASSUME NEW u \in Users, Invites(u)
      PROVE  Unbanning(u) \/ UNCHANGED <<by, log, undelivered, overtaken>>
  BY <1>4 DEF Invites, BeginInvites, EnsureNotBanned, ReuseInvite, CreateInvite,
     CommitInvites, telegram, events, history
<1>5. ASSUME Expiration
      PROVE  \/ Unbanning(Worker) \/ BanMember \/ RecordBan
             \/ UNCHANGED <<by, log, undelivered, overtaken>>
  BY <1>5 DEF Expiration, BeginExpire, EndExpire, SkipSubscription, LockSubscription,
     CheckCovered, CheckMember, BanRefused, RevokeMembership, CommitExpire, telegram,
     events, history
<1>6. CASE UNCHANGED vars
  BY <1>6 DEF vars, telegram, events, history
<1> QED
  BY <1>1, <1>2, <1>3, <1>4, <1>5, <1>6 DEF Next, Processes

\* A ban or its record changes one seat; the bot knows what it has done there, and
\* an unban that is recorded after a newer ban is set down as overtaken.
LEMMA KnownStep ==
    ASSUME Safe, [Next]_vars, NEW m \in Seats, BanKnown(m)
    PROVE  BanKnown(m)'
<1>1. overtaken \subseteq overtaken'
  BY DEF Next, vars, history, Surroundings, Tick, Pay, ManualBan, ManualUnban, Request,
     DeliverUpdate, JoinRequest, FailReview, ReviewRequest, Approve, Decline, BurnLink,
     MarkJoined, ClearPending, Invites, BeginInvites, EnsureNotBanned, Unbanning, LiftBan,
     VerifyUnban, RecordUnban, UnbanFailed, ReuseInvite, CreateInvite, CommitInvites,
     Expiration, BeginExpire, EndExpire, SkipSubscription, LockSubscription, CheckCovered,
     CheckMember, BanMember, BanRefused, RecordBan, RevokeMembership, CommitExpire, Fail
<1>2. ASSUME UNCHANGED by[m], Latest(m)' = Latest(m) PROVE BanKnown(m)'
  BY <1>1, <1>2 DEF BanKnown
<1>3. ASSUME NEW n \in Seats, NEW who \in {"bot", "manual"}, Ban(n, who) PROVE BanKnown(m)'
  <2>1. CASE n # m
    BY <1>2, <1>3, <2>1, BanLatest DEF Safe
  <2>2. CASE n = m
    <3>1. BanEvent["bot"] = "bot_ban"
      BY DEF BanEvent
    <3>2. /\ by'[m] = by[m] \cup {who}
          /\ Latest(m)' = IF by[m] = {} THEN BanEvent[who] ELSE Latest(m)
      BY <1>3, <2>2, BanLatest DEF Safe
    <3>3. CASE by[m] = {}
      BY <3>1, <3>2, <3>3 DEF BanKnown
    <3>4. CASE by[m] # {}
      <4>1. by'[m] = {"bot"} => by[m] = {"bot"}
        BY <3>2, <3>4
      <4> QED
        BY <1>1, <3>2, <3>4, <4>1 DEF BanKnown
    <3> QED
      BY <3>3, <3>4
  <2> QED
    BY <2>1, <2>2
<1>4. ASSUME NEW n \in Seats, NEW who, Unban(n, who) PROVE BanKnown(m)'
  <2>1. CASE n # m
    BY <1>2, <1>4, <2>1, UnbanLatest DEF Safe
  <2>2. CASE n = m
    BY <1>4, <2>2, UnbanLatest DEF Safe, BanKnown
  <2> QED
    BY <2>1, <2>2
<1>5. CASE UNCHANGED <<by, log, undelivered, overtaken>>
  BY <1>2, <1>5 DEF Latest
<1>6. ASSUME NEW n \in Seats, DeliverUpdate(n) PROVE BanKnown(m)'
  BY <1>2, <1>6, DeliverLatest DEF DeliverUpdate, Safe, telegram
<1>7. ASSUME NEW n \in Seats, ManualBan(n) \/ ManualUnban(n) PROVE BanKnown(m)'
  BY <1>3, <1>4, <1>7 DEF ManualBan, ManualUnban
<1>8. ASSUME NEW p \in Processes, LiftBan(p) PROVE BanKnown(m)'
  BY <1>4, <1>8, TargetIsSeat DEF LiftBan, At, Safe, AccessInv
<1>9. ASSUME NEW p \in Processes, RecordUnban(p) PROVE BanKnown(m)'
  <2>1. Target(p) \in Seats /\ RecordEvent(Target(p), "bot_unban") /\ UNCHANGED by
    BY <1>9, TargetIsSeat DEF RecordUnban, At, Safe, AccessInv, telegram
  <2>2. CASE Target(p) # m
    BY <1>2, <2>1, <2>2, RecordLatest DEF Safe
  <2>3. CASE Target(p) = m
    BY <1>9, <2>1, <2>3 DEF RecordUnban, BanKnown
  <2> QED
    BY <2>2, <2>3
<1>10. CASE BanMember
  BY <1>3, <1>10, TargetIsSeat DEF BanMember, At, Safe, AccessInv, Processes
<1>11. CASE RecordBan
  <2>1. /\ Target(Worker) \in Seats /\ RecordEvent(Target(Worker), "bot_ban")
        /\ UNCHANGED by
    BY <1>11, TargetIsSeat DEF RecordBan, At, Safe, AccessInv, telegram, Processes
  <2>2. CASE Target(Worker) # m
    BY <1>2, <2>1, <2>2, RecordLatest DEF Safe
  <2>3. CASE Target(Worker) = m
    BY <2>1, <2>3, RecordLatest DEF Safe, BanKnown
  <2> QED
    BY <2>2, <2>3
<1> QED
  BY <1>5, <1>6, <1>7, <1>8, <1>9, <1>10, <1>11, BansMove

\* Nobody but the worker moves its task, and it bans before it records a ban.
LEMMA WorkerBanned ==
    ASSUME Safe, [Next]_vars, At(Worker, "banned")'
    PROVE  BanMember \/ task'[Worker] = task[Worker]
<1>1. ASSUME NEW step, step # "banned", Goto(Worker, step) PROVE FALSE
  BY <1>1, GotoCleared DEF Safe, At
<1>2. CASE Expiration \/ Fail(Worker)
  <2>1. ~RecordBan /\ ~LiftBan(Worker) /\ ~VerifyUnban(Worker) /\ ~RecordUnban(Worker)
    BY <1>1 DEF RecordBan, LiftBan, VerifyUnban, RecordUnban
  <2>2. ~CheckMember
    BY <1>1 DEF CheckMember
  <2>3. ~CheckCovered
    <3>1. ASSUME NEW writes, NEW complete, Proceed(writes, complete) PROVE FALSE
      <4>1. task'[Worker].step = StepAt(Tail(task[Worker].todo))
        BY <3>1 DEF Proceed, Safe, TypeOK, Task, Processes
      <4> QED
        BY <4>1 DEF StepAt, At
    <3> QED
      BY <1>1, <3>1 DEF CheckCovered
  <2> QED
    BY <1>2, <2>1, <2>2, <2>3, WorkerGoes DEF At
<1>3. CASE Surroundings \/ UNCHANGED vars
  BY <1>3, SurroundingsApart DEF vars, Safe
<1>4. CASE \E m \in Seats : DeliverUpdate(m) \/ JoinRequest(m) \/ FailReview(m)
  BY <1>4, AnswersApart
<1>5. CASE \E u \in Users : Invites(u) \/ Fail(u)
  BY <1>5, InvitesApart DEF Safe
<1> QED
  BY <1>2, <1>3, <1>4, <1>5 DEF Next, Processes

\* While the administrators wait, whoever is banned when the worker is about to
\* record its ban has been banned by the worker.
LEMMA RecordableStep ==
    ASSUME Safe, [Next]_vars, AdminsWait, Recordable
    PROVE  Recordable'
<1> SUFFICES ASSUME At(Worker, "banned")'
             PROVE  by'[Target(Worker)'] = {} \/ "bot" \in by'[Target(Worker)']
  BY DEF Recordable
<1>0. Worker \in Processes
  BY DEF Processes
<1>1. CASE BanMember
  <2>1. Target(Worker) \in Seats /\ Ban(Target(Worker), "bot")
    BY <1>0, <1>1, TargetIsSeat DEF BanMember, At, Safe, AccessInv
  <2>2. Target(Worker)' = Target(Worker)
    <3>1. task'[Worker].sub = task[Worker].sub /\ task'[Worker].todo = task[Worker].todo
      BY <1>0, <1>1 DEF BanMember, Goto, Safe, TypeOK, Task
    <3> QED
      BY <3>1 DEF Target
  <2> QED
    BY <2>1, <2>2, BanLatest DEF Safe
<1>2. CASE task'[Worker] = task[Worker]
  <2> DEFINE t == Target(Worker)
  <2>1. /\ t \in Seats /\ Target(Worker)' = t /\ WorksOn(Worker, t)
        /\ by[t] = {} \/ "bot" \in by[t]
    BY <1>0, <1>2, TargetIsSeat DEF At, Safe, AccessInv, Recordable, Target, WorksOn
  <2> SUFFICES by'[t] = {} \/ "bot" \in by'[t]
    BY <2>1
  <2> HIDE DEF t
  <2>2. CASE UNCHANGED by
    BY <2>1, <2>2
  <2>3. ASSUME NEW n \in Seats, NEW who \in {"bot", "manual"}, Ban(n, who),
               n = t => by[t] # {} \/ who = "bot"
        PROVE  by'[t] = {} \/ "bot" \in by'[t]
    BY <2>1, <2>3, BanLatest DEF Safe
  <2>4. ASSUME NEW n \in Seats, NEW who, Unban(n, who)
        PROVE  by'[t] = {} \/ "bot" \in by'[t]
    BY <2>1, <2>4, UnbanLatest DEF Safe
  <2>5. ASSUME NEW n \in Seats, ManualBan(n) PROVE by'[t] = {} \/ "bot" \in by'[t]
    <3>1. n # t
      BY <1>0, <2>1, <2>5 DEF ManualBan, MayModerate
    <3> QED
      BY <2>3, <2>5, <3>1 DEF ManualBan
  <2>6. ASSUME NEW n \in Seats, ManualUnban(n) PROVE by'[t] = {} \/ "bot" \in by'[t]
    BY <2>4, <2>6 DEF ManualUnban
  <2>7. ASSUME NEW p \in Processes, LiftBan(p) PROVE by'[t] = {} \/ "bot" \in by'[t]
    BY <2>4, <2>7, TargetIsSeat DEF LiftBan, At, Safe, AccessInv
  <2>8. CASE BanMember
    BY <1>0, <2>3, <2>8, TargetIsSeat DEF BanMember, At, Safe, AccessInv
  <2> QED
    BY <2>2, <2>5, <2>6, <2>7, <2>8, BansMove DEF DeliverUpdate, RecordUnban, RecordBan, telegram
<1> QED
  BY <1>1, <1>2, WorkerBanned

\* A ban that is on record as the bot's is one.
LEMMA TrueStep ==
    ASSUME Safe, [Next]_vars, Recordable, NEW m \in Seats, BanTrue(m)
    PROVE  BanTrue(m)'
<1>0. Worker \in Processes
  BY DEF Processes
<1>1. ASSUME UNCHANGED by[m], Latest(m)' = Latest(m) PROVE BanTrue(m)'
  BY <1>1 DEF BanTrue
<1>2. ASSUME NEW n \in Seats, NEW who \in {"bot", "manual"}, Ban(n, who) PROVE BanTrue(m)'
  <2>1. CASE n # m
    BY <1>1, <1>2, <2>1, BanLatest DEF Safe
  <2>2. CASE n = m
    <3>1. BanEvent["manual"] = "manual_ban"
      BY DEF BanEvent
    <3>2. /\ by'[m] = by[m] \cup {who}
          /\ Latest(m)' = IF by[m] = {} THEN BanEvent[who] ELSE Latest(m)
      BY <1>2, <2>2, BanLatest DEF Safe
    <3> QED
      BY <3>1, <3>2 DEF BanTrue
  <2> QED
    BY <2>1, <2>2
<1>3. ASSUME NEW n \in Seats, NEW who, Unban(n, who) PROVE BanTrue(m)'
  <2>1. CASE n # m
    BY <1>1, <1>3, <2>1, UnbanLatest DEF Safe
  <2>2. CASE n = m
    BY <1>3, <2>2, UnbanLatest DEF Safe, BanTrue
  <2> QED
    BY <2>1, <2>2
<1>4. CASE UNCHANGED <<by, log, undelivered, overtaken>>
  BY <1>1, <1>4 DEF Latest
<1>5. ASSUME NEW n \in Seats, DeliverUpdate(n) PROVE BanTrue(m)'
  BY <1>1, <1>5, DeliverLatest DEF DeliverUpdate, Safe, telegram
<1>6. ASSUME NEW n \in Seats, ManualBan(n) \/ ManualUnban(n) PROVE BanTrue(m)'
  BY <1>2, <1>3, <1>6 DEF ManualBan, ManualUnban
<1>7. ASSUME NEW p \in Processes, LiftBan(p) PROVE BanTrue(m)'
  BY <1>3, <1>7, TargetIsSeat DEF LiftBan, At, Safe, AccessInv
<1>8. ASSUME NEW t \in Seats, NEW event, RecordEvent(t, event), UNCHANGED by,
             t = m => event = "bot_unban" \/ by[m] = {} \/ "bot" \in by[m]
      PROVE  BanTrue(m)'
  <2>1. CASE t # m
    BY <1>1, <1>8, <2>1, RecordLatest DEF Safe
  <2>2. CASE t = m
    BY <1>8, <2>2, RecordLatest DEF Safe, BanTrue
  <2> QED
    BY <2>1, <2>2
<1>9. ASSUME NEW p \in Processes, RecordUnban(p) PROVE BanTrue(m)'
  BY <1>8, <1>9, TargetIsSeat DEF RecordUnban, At, Safe, AccessInv, telegram
<1>10. CASE BanMember
  BY <1>0, <1>2, <1>10, TargetIsSeat DEF BanMember, At, Safe, AccessInv
<1>11. CASE RecordBan
  BY <1>0, <1>8, <1>11, TargetIsSeat DEF RecordBan, Recordable, At, Safe, AccessInv, telegram
<1> QED
  BY <1>4, <1>5, <1>6, <1>7, <1>9, <1>10, <1>11, BansMove

\* The invariant on the bans is inductive.
LEMMA BansStep == Safe /\ BansInv /\ [Next]_vars => BansInv'
<1> SUFFICES ASSUME Safe, BansInv, [Next]_vars PROVE BansInv'
  OBVIOUS
<1>1. \A m \in Seats : BanKnown(m)'
  BY KnownStep DEF BansInv
<1>2. ASSUME AdminsWait PROVE Recordable' /\ \A m \in Seats : BanTrue(m)'
  BY <1>2, RecordableStep, TrueStep DEF BansInv
<1> QED
  BY <1>1, <1>2 DEF BansInv

\* At first nobody is banned.
LEMMA InitBans == Init => BansInv
<1> SUFFICES ASSUME Init PROVE BansInv
  OBVIOUS
<1>1. \A m \in Seats : by[m] = {}
  BY DEF Init
<1>2. ~At(Worker, "banned")
  BY DEF Init, IdleTask, At, Processes
<1> QED
  BY <1>1, <1>2 DEF BansInv, BanKnown, BanTrue, Recordable

\* What the log will say is in the log or on its way.
LEMMA LatestIsRecorded ==
    ASSUME TypeOK, NEW m \in Seats, Latest(m) = "bot_ban"
    PROVE  OwnsBan(m) \/ \E k \in 1..Len(undelivered[m]) : undelivered[m][k] = "bot_ban"
<1>1. undelivered[m] \in Seq(BanEvents)
  BY DEF TypeOK
<1>2. CASE undelivered[m] = <<>>
  BY <1>2 DEF Latest, OwnsBan
<1>3. CASE undelivered[m] # <<>>
  <2>1. Len(undelivered[m]) \in 1..Len(undelivered[m])
    BY <1>1, <1>3
  <2> QED
    BY <1>3, <2>1 DEF Latest
<1> QED
  BY <1>2, <1>3

\* A ban that only the bot has set is on record as the bot's or on its way there,
\* whatever the administrators, the failures and the order of the updates: the one
\* way to lose track of it is an unban that is recorded after a newer ban.
THEOREM BotBansAlwaysKnown == Spec => []BotBansAreKnown
<1>1. Safe /\ BansInv => BotBansAreKnown
  BY LatestIsRecorded DEF Safe, BansInv, BanKnown, BotBansAreKnown
<1>2. Spec => []BansInv
  BY InitBans, BansStep, SafeAlways, PTL DEF Spec
<1> QED
  BY <1>1, <1>2, SafeAlways, PTL

\* Only the two checks of a member decide to lift a ban, of their own target.
LEMMA ChecksUnban ==
    ASSUME Safe, [Next]_vars, NEW p \in Processes,
           task[p].step = "check", task'[p].step = "unban"
    PROVE  by[Target(p)] # {} /\ OwnsBan(Target(p))
<1>0. /\ Worker \in Processes /\ Worker \notin Users
      /\ \A q \in Processes : task[q] \in Task
  BY AccessAssumption DEF Processes, Safe, TypeOK
<1>1. CASE UNCHANGED task
  BY <1>1
<1>2. ASSUME NEW q \in Processes, Fail(q) PROVE FALSE
  <2>1. CASE q = p
    BY <1>0, <1>2, <2>1 DEF Fail, Abort, IdleTask, Safe, TypeOK
  <2>2. CASE q # p
    BY <1>2, <2>2 DEF Fail, Abort, Safe, TypeOK
  <2> QED
    BY <2>1, <2>2
<1>3. ASSUME NEW u \in Users, Invites(u)
      PROVE  by[Target(p)] # {} /\ OwnsBan(Target(p))
  <2>1. p = u
    <3>1. ASSUME p # u PROVE task'[p] = task[p]
      BY <1>3, <3>1 DEF Safe, TypeOK, Invites, BeginInvites, EnsureNotBanned, Unbanning,
         LiftBan, VerifyUnban, RecordUnban, UnbanFailed, ReuseInvite, CreateInvite,
         CommitInvites, Goto, Abort, Advance
    <3> QED
      BY <3>1
  <2>2. EnsureNotBanned(p)
    BY <1>3, <2>1 DEF Invites, BeginInvites, Unbanning, LiftBan, VerifyUnban, RecordUnban,
       UnbanFailed, ReuseInvite, CreateInvite, CommitInvites, At
  <2>3. ~Goto(p, "link")
    BY <1>0 DEF Goto, Safe, TypeOK, Task
  <2>4. ~Abort(p)
    BY <1>0, <2>1 DEF Abort, IdleTask, Safe, TypeOK
  <2> QED
    BY <2>1, <2>2, <2>3, <2>4 DEF EnsureNotBanned
<1>4. ASSUME Expiration PROVE by[Target(p)] # {} /\ OwnsBan(Target(p))
  <2>1. p = Worker
    BY <1>0, <1>4 DEF Expiration, BeginExpire, EndExpire, SkipSubscription, LockSubscription,
       CheckCovered, CheckMember, BanMember, BanRefused, RecordBan, Unbanning, LiftBan,
       VerifyUnban, RecordUnban, UnbanFailed, RevokeMembership, CommitExpire, Goto, Abort,
       Proceed, Safe, TypeOK
  <2>2. CheckMember
    BY <1>4, <2>1 DEF Expiration, BeginExpire, EndExpire, SkipSubscription, LockSubscription,
       CheckCovered, BanMember, BanRefused, RecordBan, Unbanning, LiftBan, VerifyUnban,
       RecordUnban, UnbanFailed, RevokeMembership, CommitExpire, At
  <2>3. \A step : Goto(Worker, step) => step = "unban"
    BY <2>1, GotoCleared DEF Safe
  <2> QED
    BY <2>1, <2>2, <2>3 DEF CheckMember
<1>5. CASE Surroundings
  BY <1>1, <1>5, SurroundingsApart DEF Safe
<1>6. CASE \E m \in Seats : DeliverUpdate(m) \/ JoinRequest(m) \/ FailReview(m)
  BY <1>1, <1>6, AnswersApart
<1> QED
  BY <1>1, <1>2, <1>3, <1>4, <1>5, <1>6 DEF Next, vars

\* While the administrators leave alone whatever a process works on, no process
\* decides to lift a ban that only they have set, once all updates are in.
THEOREM ManualBansAlwaysStand == ASSUME AdminsWait PROVE Spec => ManualBansStand
<1>1. Safe /\ BansInv /\ [Next]_vars =>
         [\A p \in Processes :
             /\ task[p].step = "check" /\ task'[p].step = "unban"
             /\ undelivered[Target(p)] = <<>>
             => "bot" \in by[Target(p)]]_vars
  <2> SUFFICES ASSUME Safe, BansInv, [Next]_vars, NEW p \in Processes,
                      task[p].step = "check", task'[p].step = "unban",
                      undelivered[Target(p)] = <<>>
               PROVE  "bot" \in by[Target(p)]
    OBVIOUS
  <2>1. by[Target(p)] # {} /\ OwnsBan(Target(p))
    BY ChecksUnban
  <2>2. Target(p) \in Seats
    BY TargetIsSeat DEF Safe, AccessInv
  <2>3. Latest(Target(p)) = "bot_ban"
    BY <2>1 DEF Latest, OwnsBan
  <2> QED
    BY <2>1, <2>2, <2>3 DEF BansInv, BanTrue
<1>2. Spec => []BansInv
  BY InitBans, BansStep, SafeAlways, PTL DEF Spec
<1> QED
  BY <1>1, <1>2, SafeAlways, PTL DEF Spec, ManualBansStand

-----------------------------------------------------------------------------
(***************************************************************************)
(* Invitations                                                             *)
(***************************************************************************)
\* The invitation exists, for the seat.
Seated(l, m) == l \in 1..Len(link) /\ link[l].seat = m

\* A row's invitation is one for its seat, and good for as long as the row says.
RowsSound ==
    \A m \in Seats : membership[m].link # 0 =>
        /\ Seated(membership[m].link, m)
        /\ membership[m].until <= link[membership[m].link].until

\* A process visits no resource twice, and writes of those it is done with.
WritesShaped(t) ==
    /\ t.step \in {"idle", "next"} => t.writes = {}
    /\ \A v, w \in t.writes : v.seat = w.seat => v = w
    /\ \A w \in t.writes, i \in 1..Len(t.todo) : w.seat[2] # t.todo[i]
    /\ Distinct(t.todo)

\* The worker takes the invitation out of a row.
RevokesRow(w) == w.stored = [w.loaded EXCEPT !.status = "revoked", !.link = 0]

\* create_invites puts in one that works and that nobody else holds.
InvitesSeat(u, w) ==
    /\ w.seat[1] = u /\ w.stored.link # w.loaded.link
    /\ Seated(w.stored.link, w.seat)
    /\ link[w.stored.link].alive /\ link[w.stored.link].until = w.stored.until
    /\ membership[w.seat].link # w.stored.link
    /\ membership[w.seat].until \in {w.loaded.until, 0}
    /\ \A m \in Seats : review[m].holder # None => review[m].link # w.stored.link

\* All tasks are like that.
WritesTrim == \A p \in Processes : WritesShaped(task[p])

WritesSound ==
    /\ \A w \in task[Worker].writes : RevokesRow(w)
    /\ \A u \in Users : \A w \in task[u].writes : InvitesSeat(u, w)

\* Whoever holds the link under review is the one it was made for.
ReviewsSound ==
    \A m \in Seats :
        /\ review[m].step # "idle" => review[m].link \in 1..Len(link)
        /\ review[m].step \in {"approve", "approved", "declined", "join", "clear"} =>
              review[m].holder # None
        /\ review[m].holder # None =>
              Seated(review[m].link, <<review[m].holder, m[2]>>)

\* Somebody is about to take the invitation out of the row.
Replaced(m) ==
    \/ \E w \in task[Worker].writes : w.seat = m /\ w.loaded.link = membership[m].link
    \/ \E h \in Seats : /\ review[h].step \in {"join", "clear"}
                        /\ review[h].link = membership[m].link

RowsWork ==
    failures = 0 => \A m \in Seats :
        Reusable(membership[m]) => Usable(membership[m].link) \/ Replaced(m)

\* The worker does not find a member banned whom it has just unbanned.
UnbanHolds == At(Worker, "verify") => by[Target(Worker)] = {}

-----------------------------------------------------------------------------
(***************************************************************************)
(* The steps of a task                                                     *)
(***************************************************************************)
\* The task goes on with what it has written and what it still has to do.
Kept(p) ==
    /\ task'[p].writes = task[p].writes /\ task'[p].todo = task[p].todo
    /\ task'[p].step \in {"idle", "next"} => task[p].step \in {"idle", "next"}

\* The task has nothing written, and no resource twice.
Begun(p) == task'[p].writes = {} /\ Distinct(task'[p].todo)

\* Done with a resource, having written W.
Done(p, W) ==
    /\ task[p].step \notin {"idle", "next", "commit"}
    /\ task'[p].writes = W /\ task'[p].todo = Tail(task[p].todo)
    /\ task'[p].step \notin {"idle", "next"}

\* The task of a process that one of the helpers moves.
LEMMA TaskMoved ==
    ASSUME TypeOK, NEW p \in Processes
    PROVE  /\ \A step : Goto(p, step) =>
                 /\ task'[p].writes = task[p].writes /\ task'[p].todo = task[p].todo
                 /\ task'[p].step = step
           /\ Abort(p) => Begun(p)
           /\ \A q \in Processes \ {p} :
                 (Abort(p) \/ \E step : Goto(p, step)) => task'[q] = task[q]
<1>1. task[p] \in Task
  BY DEF TypeOK
<1>2. ASSUME NEW step, Goto(p, step)
      PROVE  /\ task'[p].writes = task[p].writes /\ task'[p].todo = task[p].todo
             /\ task'[p].step = step
  BY <1>1, <1>2 DEF Goto, TypeOK, Task
<1>3. ASSUME Abort(p) PROVE Begun(p)
  <2>1. task'[p].writes = {} /\ task'[p].todo = <<>>
    BY <1>3 DEF Abort, IdleTask, TypeOK
  <2> QED
    BY <2>1 DEF Begun, Distinct
<1>4. ASSUME NEW q \in Processes \ {p}, Abort(p) \/ \E step : Goto(p, step)
      PROVE  task'[q] = task[q]
  BY <1>4 DEF Abort, Goto, TypeOK
<1> QED
  BY <1>2, <1>3, <1>4

\* Unbanning keeps what there is to write, a failure drops it.
LEMMA UnbanningMoved ==
    ASSUME TypeOK, NEW p \in Processes, Unbanning(p) \/ Fail(p)
    PROVE  /\ Kept(p) \/ (Begun(p) /\ (UnbanFailed(p) \/ Fail(p)))
           /\ \A q \in Processes \ {p} : task'[q] = task[q]
<1>1. CASE LiftBan(p) \/ VerifyUnban(p) \/ RecordUnban(p)
  BY <1>1, TaskMoved DEF LiftBan, VerifyUnban, RecordUnban, Kept
<1>2. CASE UnbanFailed(p) \/ Fail(p)
  BY <1>2, TaskMoved DEF UnbanFailed, Fail
<1> QED
  BY <1>1, <1>2 DEF Unbanning

\* Going on to the next resource.
LEMMA AdvanceMoved ==
    ASSUME TypeOK, NEW u \in Users, At(u, "link"), NEW W, Advance(u, W)
    PROVE  Done(u, W) /\ \A q \in Processes \ {u} : task'[q] = task[q]
<1>1. u \in Processes /\ task[u] \in Task
  BY DEF TypeOK, Processes
<1>2. \A q \in Processes \ {u} : task'[q] = task[q]
  BY <1>1 DEF Advance, TypeOK
<1>3. /\ task'[u].writes = W /\ task'[u].todo = Tail(task[u].todo)
      /\ task'[u].step \in {"check", "commit"}
  BY <1>1 DEF Advance, TypeOK, Task
<1> QED
  BY <1>2, <1>3 DEF Done, At

\* So does the worker.
LEMMA ProceedMoved ==
    ASSUME TypeOK, task[Worker].step \notin {"idle", "next", "commit"},
           NEW W, NEW complete, Proceed(W, complete)
    PROVE  Done(Worker, W) /\ \A q \in Processes \ {Worker} : task'[q] = task[q]
<1>1. Worker \in Processes /\ task[Worker] \in Task
  BY DEF TypeOK, Processes
<1>2. \A q \in Processes \ {Worker} : task'[q] = task[q]
  BY <1>1 DEF Proceed, TypeOK
<1>3. /\ task'[Worker].writes = W /\ task'[Worker].todo = Tail(task[Worker].todo)
      /\ task'[Worker].step = StepAt(Tail(task[Worker].todo))
  BY <1>1 DEF Proceed, TypeOK, Task
<1> QED
  BY <1>2, <1>3 DEF Done, StepAt

\* What create_invites does to its own task.
LEMMA InvitesMoved ==
    ASSUME TypeOK, NEW u \in Users, Invites(u) \/ Fail(u)
    PROVE  /\ Kept(u) \/ Begun(u) \/ Done(u, task[u].writes) \/ CreateInvite(u)
           /\ \A q \in Processes \ {u} : task'[q] = task[q]
<1>0. u \in Processes /\ task[u] \in Task
  BY DEF TypeOK, Processes
<1>1. CASE BeginInvites(u)
  <2>1. PICK todo \in Seq(Resources) :
           /\ Distinct(todo)
           /\ task' = [task EXCEPT ![u] = [IdleTask EXCEPT !.step = "check", !.todo = todo]]
    BY <1>1, InvitesBegun
  <2>2. task'[u].writes = {} /\ task'[u].todo = todo
    BY <1>0, <2>1 DEF TypeOK, IdleTask
  <2>3. \A q \in Processes \ {u} : task'[q] = task[q]
    BY <2>1 DEF TypeOK
  <2> QED
    BY <2>1, <2>2, <2>3 DEF Begun
<1>2. CASE EnsureNotBanned(u)
  BY <1>0, <1>2, TaskMoved DEF EnsureNotBanned, Kept
<1>3. CASE Unbanning(u) \/ Fail(u)
  BY <1>0, <1>3, UnbanningMoved
<1>4. CASE ReuseInvite(u)
  BY <1>4, AdvanceMoved DEF ReuseInvite
<1>5. CASE CreateInvite(u)
  BY <1>5, AdvanceMoved DEF CreateInvite
<1>6. CASE CommitInvites(u)
  <2>1. task' = [task EXCEPT ![u] = IdleTask]
    BY <1>6 DEF CommitInvites
  <2>2. task'[u] = IdleTask /\ \A q \in Processes \ {u} : task'[q] = task[q]
    BY <1>0, <2>1 DEF TypeOK
  <2> QED
    BY <2>2 DEF Begun, Distinct, IdleTask
<1> QED
  BY <1>1, <1>2, <1>3, <1>4, <1>5, <1>6 DEF Invites

\* What expire_due does to its own task: it drops what it has not written only
\* when it commits or is interrupted.
LEMMA ExpirationMoved ==
    ASSUME Safe, WritesTrim, Expiration \/ Fail(Worker)
    PROVE  /\ \/ Kept(Worker) \/ Done(Worker, task[Worker].writes) \/ RevokeMembership
              \/ Begun(Worker) /\ (\/ task[Worker].writes = {} \/ CommitExpire
                                   \/ UnbanFailed(Worker) \/ Fail(Worker))
           /\ \A q \in Processes \ {Worker} : task'[q] = task[q]
<1>0. Worker \in Processes /\ task[Worker] \in Task /\ TypeOK
  BY DEF Safe, TypeOK, Processes
<1>1. task[Worker].step \in {"idle", "next"} => task[Worker].writes = {}
  BY <1>0 DEF WritesTrim, WritesShaped
<1>2. CASE BeginExpire
  <2>1. PICK batch \in Seq(Subs) :
           task' = [task EXCEPT ![Worker] =
                       [IdleTask EXCEPT !.step   = "next",
                                        !.batch  = batch,
                                        !.cutoff = now - Grace]]
    BY <1>0, <1>2, BatchListed
  <2>2. task'[Worker].writes = {} /\ task'[Worker].todo = <<>>
    BY <1>0, <2>1 DEF TypeOK, IdleTask
  <2>3. \A q \in Processes \ {Worker} : task'[q] = task[q]
    BY <1>0, <2>1 DEF TypeOK
  <2> QED
    BY <1>1, <1>2, <2>2, <2>3 DEF Begun, Distinct, BeginExpire, At
<1>3. CASE EndExpire
  <2>1. task' = [task EXCEPT ![Worker] = IdleTask] /\ At(Worker, "next")
    BY <1>3 DEF EndExpire
  <2>2. task'[Worker] = IdleTask /\ \A q \in Processes \ {Worker} : task'[q] = task[q]
    BY <1>0, <2>1 DEF TypeOK
  <2> QED
    BY <1>1, <2>1, <2>2 DEF Begun, Distinct, IdleTask, At
<1>4. CASE SkipSubscription
  BY <1>0, <1>4 DEF SkipSubscription, Kept, TypeOK, Task
<1>5. CASE LockSubscription
  <2>1. PICK todo \in Seq(Resources) :
           /\ Distinct(todo)
           /\ task' = [task EXCEPT ![Worker] = [task[Worker] EXCEPT
                                        !.step  = StepAt(todo),
                                        !.sub   = Head(task[Worker].batch),
                                        !.batch = Tail(task[Worker].batch),
                                        !.todo  = todo]]
    BY <1>0, <1>5, ResourcesListed
  <2>2. task'[Worker].writes = task[Worker].writes /\ task'[Worker].todo = todo
    BY <1>0, <2>1 DEF TypeOK, Task
  <2>3. \A q \in Processes \ {Worker} : task'[q] = task[q]
    BY <1>0, <2>1 DEF TypeOK
  <2>4. task[Worker].writes = {}
    BY <1>1, <1>5 DEF LockSubscription, At
  <2> QED
    BY <2>1, <2>2, <2>3, <2>4 DEF Begun
<1>6. CASE CheckCovered
  BY <1>0, <1>6, TaskMoved, ProceedMoved DEF CheckCovered, Kept, At
<1>7. CASE CheckMember \/ BanMember \/ RecordBan
  BY <1>0, <1>7, TaskMoved DEF CheckMember, BanMember, RecordBan, Kept
<1>8. CASE BanRefused \/ RevokeMembership
  BY <1>0, <1>8, ProceedMoved DEF BanRefused, RevokeMembership, At
<1>9. CASE Unbanning(Worker) \/ Fail(Worker)
  BY <1>0, <1>9, UnbanningMoved
<1>10. CASE CommitExpire
  BY <1>0, <1>10, TaskMoved DEF CommitExpire
<1> QED
  BY <1>2, <1>3, <1>4, <1>5, <1>6, <1>7, <1>8, <1>9, <1>10 DEF Expiration

\* What any step does to the task of a process.
LEMMA TaskMoves ==
    ASSUME Safe, WritesTrim, [Next]_vars, NEW p \in Processes
    PROVE  \/ Kept(p) \/ Done(p, task[p].writes)
           \/ p \in Users /\ Begun(p)
           \/ p \in Users /\ CreateInvite(p)
           \/ p = Worker /\ RevokeMembership
           \/ p = Worker /\ Begun(Worker) /\ (\/ task[Worker].writes = {} \/ CommitExpire
                                              \/ UnbanFailed(Worker) \/ Fail(Worker))
<1>0. Worker \in Processes /\ Worker \notin Users
  BY AccessAssumption DEF Processes
<1>1. CASE task'[p] = task[p]
  BY <1>1 DEF Kept
<1>2. CASE Surroundings \/ UNCHANGED vars
  BY <1>1, <1>2, TasksLeft
<1>3. CASE \E m \in Seats : DeliverUpdate(m) \/ JoinRequest(m) \/ FailReview(m)
  BY <1>1, <1>3, TasksLeft
<1>4. ASSUME NEW u \in Users, Invites(u) \/ Fail(u)
      PROVE  \/ task'[p] = task[p] \/ Kept(p) \/ Done(p, task[p].writes)
             \/ p \in Users /\ Begun(p)
             \/ p \in Users /\ CreateInvite(p)
  BY <1>4, InvitesMoved DEF Safe
<1>5. CASE Expiration \/ Fail(Worker)
  BY <1>1, <1>5, ExpirationMoved
<1> QED
  BY <1>1, <1>2, <1>3, <1>4, <1>5 DEF Next, Processes
\* Being done with a resource leaves the others apart from what is written.
LEMMA DoneTrim ==
    ASSUME Safe, NEW p \in Processes, WritesShaped(task[p]), NEW W, Done(p, W),
           \A v, w \in W : v.seat = w.seat => v = w,
           \A w \in W : \/ w \in task[p].writes
                        \/ w.seat[2] = Head(task[p].todo)
    PROVE  WritesShaped(task'[p])
<1> DEFINE old == task[p].todo
<1>1. old \in Seq(Resources) /\ old # <<>>
  BY TargetIsSeat DEF Done, Safe, AccessInv
<1>2. /\ Len(Tail(old)) = Len(old) - 1 /\ Len(old) \in Nat \ {0} /\ Head(old) = old[1]
      /\ \A i \in 1..Len(Tail(old)) : Tail(old)[i] = old[i + 1] /\ i + 1 \in 2..Len(old)
  BY <1>1
<1>3. task'[p].writes = W /\ task'[p].todo = Tail(old) /\ task'[p].step \notin {"idle", "next"}
  BY DEF Done
<1>4. Distinct(old) /\ \A w \in task[p].writes, i \in 1..Len(old) : w.seat[2] # old[i]
  BY DEF WritesShaped
<1> HIDE DEF old
<1>5. Distinct(Tail(old))
  BY <1>2, <1>4 DEF Distinct
<1>6. ASSUME NEW w \in W, NEW i \in 1..Len(Tail(old)) PROVE w.seat[2] # Tail(old)[i]
  <2>1. Tail(old)[i] = old[i + 1] /\ i + 1 \in 1..Len(old) /\ i + 1 # 1 /\ 1 \in 1..Len(old)
    BY <1>2
  <2>2. CASE w \in task[p].writes
    BY <1>4, <2>1, <2>2
  <2>3. CASE w.seat[2] = Head(old)
    BY <1>2, <1>4, <2>1, <2>3 DEF Distinct
  <2> QED
    BY <2>2, <2>3 DEF old
<1> QED
  BY <1>3, <1>5, <1>6 DEF WritesShaped

\* A new write is of the seat the process works on.
LEMMA NewWriteTrim ==
    ASSUME Safe, NEW p \in Processes, WritesShaped(task[p]), NEW w, w.seat = Target(p),
           Done(p, task[p].writes \cup {w})
    PROVE  WritesShaped(task'[p])
<1>1. task[p].todo \in Seq(Resources) /\ task[p].todo # <<>>
  BY TargetIsSeat DEF Done, Safe, AccessInv
<1>2. Head(task[p].todo) = task[p].todo[1] /\ 1 \in 1..Len(task[p].todo)
  BY <1>1
<1>3. w.seat[2] = Head(task[p].todo)
  BY DEF Target
<1>4. \A v \in task[p].writes : v.seat # w.seat
  BY <1>2, <1>3 DEF WritesShaped
<1>5. \A v, x \in task[p].writes \cup {w} : v.seat = x.seat => v = x
  BY <1>4 DEF WritesShaped
<1> QED
  BY <1>3, <1>5, DoneTrim

\* What create_invites adds to what it will write.
LEMMA InviteWritten ==
    ASSUME TypeOK, NEW u \in Users, CreateInvite(u)
    PROVE  LET m == Target(u)
               w == [seat   |-> m,
                     loaded |-> membership[m],
                     stored |-> [status |-> "invited", link |-> Len(link) + 1,
                                 until  |-> now + InviteTTL]]
           IN  /\ Done(u, task[u].writes \cup {w})
               /\ \A q \in Processes \ {u} : task'[q] = task[q]
               /\ ~Reusable(membership[m])
               /\ link' = Append(RevokeLink(membership[m].link),
                                 [seat |-> m, until |-> now + InviteTTL, alive |-> TRUE])
               /\ UNCHANGED <<now, failures, membership, review, by>>
BY AdvanceMoved DEF CreateInvite, bounds, database

\* What the removal of a member adds.
LEMMA RemovalWritten ==
    ASSUME TypeOK, RevokeMembership
    PROVE  LET m == Target(Worker)
               w == [seat   |-> m,
                     loaded |-> membership[m],
                     stored |-> [membership[m] EXCEPT !.status = "revoked", !.link = 0]]
           IN  /\ \/ Done(Worker, task[Worker].writes) /\ UNCHANGED link
                  \/ /\ Done(Worker, task[Worker].writes \cup {w})
                     /\ link' = RevokeLink(membership[m].link)
               /\ \A q \in Processes \ {Worker} : task'[q] = task[q]
               /\ UNCHANGED <<now, failures, membership, review, by>>
BY ProceedMoved DEF RevokeMembership, At, bounds, database

\* The tasks stay trim.
LEMMA TrimStep ==
    ASSUME Safe, WritesTrim, [Next]_vars
    PROVE  WritesTrim'
<1> SUFFICES ASSUME NEW p \in Processes PROVE WritesShaped(task'[p])
  BY DEF WritesTrim
<1>0. WritesShaped(task[p])
  BY DEF WritesTrim
<1>1. CASE Kept(p)
  BY <1>0, <1>1 DEF Kept, WritesShaped
<1>2. CASE Begun(p)
  BY <1>2 DEF Begun, WritesShaped
<1>3. CASE Done(p, task[p].writes)
  <2>1. \A v, w \in task[p].writes : v.seat = w.seat => v = w
    BY <1>0 DEF WritesShaped
  <2> QED
    BY <1>0, <1>3, <2>1, DoneTrim
<1>4. CASE p \in Users /\ CreateInvite(p)
  <2>1. \E w : w.seat = Target(p) /\ Done(p, task[p].writes \cup {w})
    <3> DEFINE new == [seat   |-> Target(p),
                       loaded |-> membership[Target(p)],
                       stored |-> [status |-> "invited", link |-> Len(link) + 1,
                                   until  |-> now + InviteTTL]]
    <3>1. new.seat = Target(p)
      OBVIOUS
    <3>2. Done(p, task[p].writes \cup {new})
      BY <1>4, InviteWritten DEF Safe
    <3> QED
      BY <3>1, <3>2
  <2> QED
    BY <1>0, <2>1, NewWriteTrim
<1>5. CASE p = Worker /\ RevokeMembership
  <2>1. CASE Done(Worker, task[Worker].writes)
    BY <1>3, <1>5, <2>1
  <2>2. CASE ~Done(Worker, task[Worker].writes)
    <3> DEFINE new == [seat   |-> Target(p),
                       loaded |-> membership[Target(p)],
                       stored |-> [membership[Target(p)] EXCEPT !.status = "revoked",
                                                                !.link   = 0]]
    <3>1. new.seat = Target(p)
      OBVIOUS
    <3>2. Done(p, task[p].writes \cup {new})
      BY <1>5, <2>2, RemovalWritten DEF Safe
    <3> QED
      BY <1>0, <3>1, <3>2, NewWriteTrim
  <2> QED
    BY <2>1, <2>2
<1> QED
  BY <1>1, <1>2, <1>3, <1>4, <1>5, TaskMoves
\* Who changes the invitations of Telegram.
LEMMA LinksMove ==
    ASSUME [Next]_vars
    PROVE  \/ UNCHANGED link \/ RevokeMembership
           \/ \E u \in Users : CreateInvite(u)
           \/ \E m \in Seats : BurnLink(m)
<1>1. CASE Surroundings
  BY <1>1 DEF Surroundings, Tick, Pay, ManualBan, ManualUnban, Ban, Unban, Request, telegram
<1>2. ASSUME NEW m \in Seats, DeliverUpdate(m) \/ JoinRequest(m) \/ FailReview(m)
      PROVE  UNCHANGED link \/ BurnLink(m)
  BY <1>2 DEF DeliverUpdate, JoinRequest, FailReview, ReviewRequest, Approve, Decline,
     MarkJoined, ClearPending, telegram
<1>3. ASSUME NEW p \in Processes, Unbanning(p) \/ Fail(p) PROVE UNCHANGED link
  BY <1>3 DEF Unbanning, LiftBan, Unban, VerifyUnban, RecordUnban, UnbanFailed, Fail, telegram
<1>4. ASSUME NEW u \in Users, Invites(u)
      PROVE  Unbanning(u) \/ UNCHANGED link \/ CreateInvite(u)
  BY <1>4 DEF Invites, BeginInvites, EnsureNotBanned, ReuseInvite, CommitInvites, telegram
<1>5. ASSUME Expiration PROVE Unbanning(Worker) \/ UNCHANGED link \/ RevokeMembership
  BY <1>5 DEF Expiration, BeginExpire, EndExpire, SkipSubscription, LockSubscription,
     CheckCovered, CheckMember, BanMember, Ban, BanRefused, RecordBan, CommitExpire, telegram
<1>6. CASE UNCHANGED vars
  BY <1>6 DEF vars, telegram
<1> QED
  BY <1>1, <1>2, <1>3, <1>4, <1>5, <1>6 DEF Next, Processes

\* Who changes the rows.
LEMMA RowsMove ==
    ASSUME [Next]_vars
    PROVE  \/ UNCHANGED membership \/ CommitExpire
           \/ \E u \in Users : CommitInvites(u)
           \/ \E m \in Seats : MarkJoined(m) \/ ClearPending(m)
<1>1. CASE Surroundings
  BY <1>1 DEF Surroundings, Tick, Pay, ManualBan, ManualUnban, Request, database
<1>2. ASSUME NEW m \in Seats, DeliverUpdate(m) \/ JoinRequest(m) \/ FailReview(m)
      PROVE  UNCHANGED membership \/ MarkJoined(m) \/ ClearPending(m)
  BY <1>2 DEF DeliverUpdate, JoinRequest, FailReview, ReviewRequest, Approve, Decline,
     BurnLink, database
<1>3. ASSUME NEW p \in Processes, Unbanning(p) \/ Fail(p) PROVE UNCHANGED membership
  BY <1>3 DEF Unbanning, LiftBan, VerifyUnban, RecordUnban, UnbanFailed, Fail, database
<1>4. ASSUME NEW u \in Users, Invites(u)
      PROVE  Unbanning(u) \/ UNCHANGED membership \/ CommitInvites(u)
  BY <1>4 DEF Invites, BeginInvites, EnsureNotBanned, ReuseInvite, CreateInvite, database
<1>5. ASSUME Expiration PROVE Unbanning(Worker) \/ UNCHANGED membership \/ CommitExpire
  BY <1>5 DEF Expiration, BeginExpire, EndExpire, SkipSubscription, LockSubscription,
     CheckCovered, CheckMember, BanMember, BanRefused, RecordBan, RevokeMembership, database
<1>6. CASE UNCHANGED vars
  BY <1>6 DEF vars, database
<1> QED
  BY <1>1, <1>2, <1>3, <1>4, <1>5, <1>6 DEF Next, Processes

\* Who changes the reviews.
LEMMA ReviewsMove ==
    ASSUME [Next]_vars
    PROVE  \/ UNCHANGED review
           \/ \E m \in Seats : \/ \E l \in 1..Len(link) : Request(m, l)
                               \/ JoinRequest(m) \/ FailReview(m)
<1>1. CASE Surroundings
  BY <1>1 DEF Surroundings, Tick, Pay, ManualBan, ManualUnban
<1>2. CASE \E m \in Seats : DeliverUpdate(m)
  BY <1>2 DEF DeliverUpdate
<1>3. ASSUME NEW p \in Processes, Unbanning(p) \/ Fail(p) PROVE UNCHANGED review
  BY <1>3 DEF Unbanning, LiftBan, VerifyUnban, RecordUnban, UnbanFailed, Fail
<1>4. ASSUME NEW u \in Users, Invites(u) PROVE Unbanning(u) \/ UNCHANGED review
  BY <1>4 DEF Invites, BeginInvites, EnsureNotBanned, ReuseInvite, CreateInvite, CommitInvites
<1>5. ASSUME Expiration PROVE Unbanning(Worker) \/ UNCHANGED review
  BY <1>5 DEF Expiration, BeginExpire, EndExpire, SkipSubscription, LockSubscription,
     CheckCovered, CheckMember, BanMember, BanRefused, RecordBan, RevokeMembership, CommitExpire
<1>6. CASE UNCHANGED vars
  BY <1>6 DEF vars
<1> QED
  BY <1>1, <1>2, <1>3, <1>4, <1>5, <1>6 DEF Next, Processes

\* Revoking an invitation leaves the others alone and every one its seat and
\* its time.
LEMMA RevokeKeeps ==
    ASSUME TypeOK, NEW l \in 0..MaxLinks, NEW k \in 1..Len(link)
    PROVE  /\ RevokeLink(l)[k].seat = link[k].seat /\ RevokeLink(l)[k].until = link[k].until
           /\ k # l => RevokeLink(l)[k] = link[k]
<1> DEFINE Links == [seat : Seats, until : Nat, alive : BOOLEAN]
<1>1. link \in Seq(Links)
  BY DEF TypeOK
<1>2. k \in DOMAIN link /\ link[k] \in Links
  <2> HIDE DEF Links
  <2> QED
    BY <1>1
<1>3. CASE l = 0
  BY <1>3 DEF RevokeLink
<1>4. CASE l # 0
  <2>1. RevokeLink(l) = [link EXCEPT ![l].alive = FALSE]
    BY <1>4 DEF RevokeLink
  <2>2. CASE k = l
    BY <1>2, <2>1, <2>2
  <2>3. CASE k # l
    BY <1>2, <2>1, <2>3
  <2> QED
    BY <2>2, <2>3
<1> QED
  BY <1>3, <1>4

\* An invitation has a seat and a time.
LEMMA LinkTyped ==
    ASSUME TypeOK, NEW k \in 1..Len(link)
    PROVE  link[k].seat \in Seats /\ link[k].until \in Nat
<1> DEFINE Links == [seat : Seats, until : Nat, alive : BOOLEAN]
<1>1. link \in Seq(Links)
  BY DEF TypeOK
<1>2. link[k] \in Links
  <2> HIDE DEF Links
  <2> QED
    BY <1>1
<1> QED
  BY <1>2

\* An invitation keeps its seat and its time.
LEMMA LinksStep ==
    ASSUME Safe, [Next]_vars, NEW k \in 1..Len(link)
    PROVE  /\ k \in 1..Len(link')
           /\ link'[k].seat = link[k].seat /\ link'[k].until = link[k].until
           /\ \/ link'[k] = link[k]
              \/ \E u \in Users : CreateInvite(u) /\ membership[Target(u)].link = k
              \/ RevokeMembership /\ membership[Target(Worker)].link = k
              \/ \E m \in Seats : BurnLink(m) /\ review[m].link = k
<1>0. TypeOK /\ Len(link) \in Nat
  BY DEF Safe, TypeOK
<1> DEFINE Links == [seat : Seats, until : Nat, alive : BOOLEAN]
<1>1. CASE UNCHANGED link
  BY <1>1
<1>2. ASSUME NEW l \in 0..MaxLinks, link' = RevokeLink(l)
      PROVE  /\ k \in 1..Len(link')
             /\ link'[k].seat = link[k].seat /\ link'[k].until = link[k].until
             /\ k # l => link'[k] = link[k]
  BY <1>0, <1>2, RevokeKeeps, RevokeType
<1>3. ASSUME NEW l \in 0..MaxLinks, NEW new \in Links, link' = Append(RevokeLink(l), new)
      PROVE  /\ k \in 1..Len(link')
             /\ link'[k].seat = link[k].seat /\ link'[k].until = link[k].until
             /\ k # l => link'[k] = link[k]
  <2>1. RevokeLink(l) \in Seq(Links) /\ Len(RevokeLink(l)) = Len(link)
    BY <1>0, RevokeType
  <2> HIDE DEF Links
  <2>2. Len(link') = Len(link) + 1 /\ link'[k] = RevokeLink(l)[k]
    BY <1>0, <1>3, <2>1
  <2> QED
    BY <1>0, <2>2, RevokeKeeps
<1>4. ASSUME NEW m \in Seats
      PROVE  membership[m].link \in 0..MaxLinks /\ review[m].link \in 0..MaxLinks
  BY <1>0 DEF TypeOK, Membership, Review
<1>5. ASSUME NEW u \in Users, CreateInvite(u)
      PROVE  /\ Target(u) \in Seats
             /\ \E new \in Links : link' = Append(RevokeLink(membership[Target(u)].link), new)
  <2>1. Target(u) \in Seats
    BY <1>5, TargetIsSeat DEF CreateInvite, At, Safe, AccessInv, Processes
  <2>2. now + InviteTTL \in Nat
    BY <1>0, AccessAssumption DEF TypeOK
  <2>3. [seat |-> Target(u), until |-> now + InviteTTL, alive |-> TRUE] \in Links
    BY <2>1, <2>2
  <2> QED
    BY <1>0, <1>5, <2>1, <2>3, InviteWritten
<1>6. ASSUME RevokeMembership
      PROVE  /\ Target(Worker) \in Seats
             /\ UNCHANGED link \/ link' = RevokeLink(membership[Target(Worker)].link)
  BY <1>6, TargetIsSeat DEF RevokeMembership, At, Safe, AccessInv, Processes
<1>7. ASSUME NEW m \in Seats, BurnLink(m) PROVE link' = RevokeLink(review[m].link)
  BY <1>7 DEF BurnLink
<1> HIDE DEF Links
<1>8. ASSUME NEW u \in Users, CreateInvite(u)
      PROVE  /\ k \in 1..Len(link')
             /\ link'[k].seat = link[k].seat /\ link'[k].until = link[k].until
             /\ membership[Target(u)].link # k => link'[k] = link[k]
  BY <1>3, <1>4, <1>5, <1>8
<1>9. ASSUME RevokeMembership
      PROVE  /\ k \in 1..Len(link')
             /\ link'[k].seat = link[k].seat /\ link'[k].until = link[k].until
             /\ membership[Target(Worker)].link # k => link'[k] = link[k]
  BY <1>1, <1>2, <1>4, <1>6, <1>9
<1>10. ASSUME NEW m \in Seats, BurnLink(m)
      PROVE  /\ k \in 1..Len(link')
             /\ link'[k].seat = link[k].seat /\ link'[k].until = link[k].until
             /\ review[m].link # k => link'[k] = link[k]
  BY <1>2, <1>4, <1>7, <1>10
<1> QED
  BY <1>1, <1>8, <1>9, <1>10, LinksMove
-----------------------------------------------------------------------------
(***************************************************************************)
(* Rows, reviews and writes                                                *)
(***************************************************************************)
\* What the commit of a write makes of a row.
LEMMA RevokedRow ==
    ASSUME NEW row \in Membership, NEW w \in Write, RevokesRow(w)
    PROVE  /\ Merge(row, w).until = row.until
           /\ Merge(row, w).link \in {row.link, 0}
           /\ Merge(row, w).status = "invited" => row.status = "invited"
           /\ w.loaded.link = row.link => Merge(row, w).link = 0
<1>1. /\ w.loaded \in Membership /\ w.stored.until = w.loaded.until
      /\ w.stored.link = 0 /\ w.stored.status = "revoked"
  BY DEF RevokesRow, Write, Membership
<1> QED
  BY <1>1 DEF Merge

\* A commit of create_invites stores the new invitation.
LEMMA InvitedRow ==
    ASSUME NEW row, NEW w, w.stored.link # w.loaded.link,
           row.until \in {w.loaded.until, 0}
    PROVE  /\ Merge(row, w).link = w.stored.link
           /\ Merge(row, w).until \in {w.stored.until, 0}
BY DEF Merge

\* A transaction that wrote a row once stores what it wrote.
LEMMA CommitRow ==
    ASSUME NEW writes, Commit(writes), NEW m \in Seats,
           \A v, w \in writes : v.seat = w.seat => v = w
    PROVE  /\ (\A w \in writes : w.seat # m) => membership'[m] = membership[m]
           /\ \A w \in writes : w.seat = m => membership'[m] = Merge(membership[m], w)
<1>1. membership'[m] = IF \E w \in writes : w.seat = m
                       THEN Merge(membership[m], CHOOSE w \in writes : w.seat = m)
                       ELSE membership[m]
  BY DEF Commit
<1>2. ASSUME NEW w \in writes, w.seat = m
      PROVE  membership'[m] = Merge(membership[m], w)
  <2>1. (CHOOSE v \in writes : v.seat = m) = w
    BY <1>2
  <2> QED
    BY <1>1, <1>2, <2>1
<1> QED
  BY <1>1, <1>2

\* Only create_invites puts an invitation into a row, or takes it up again.
Weakened(m) ==
    /\ membership'[m].link \in {membership[m].link, 0}
    /\ membership'[m].until \in {membership[m].until, 0}
    /\ membership'[m].status = "invited" =>
          membership[m].status = "invited" \/ membership'[m].link = 0

\* A step weakens a row, or it is create_invites that stores an invitation in it.
LEMMA RowStep ==
    ASSUME Safe, WritesTrim, WritesSound, [Next]_vars, NEW m \in Seats
    PROVE  \/ Weakened(m)
           \/ \E u \in Users : \E w \in task[u].writes :
                 /\ CommitInvites(u) /\ w.seat = m
                 /\ membership'[m] = Merge(membership[m], w)
<1>0. TypeOK /\ Worker \in Processes /\ membership[m] \in Membership
  BY DEF Safe, TypeOK, Processes
<1>1. membership'[m] = membership[m] => Weakened(m)
  BY DEF Weakened
<1>2. CASE CommitExpire
  <2>1. Commit(task[Worker].writes) /\ task[Worker].writes \in SUBSET Write
    BY <1>0, <1>2 DEF CommitExpire, TypeOK, Task
  <2>2. \A v, w \in task[Worker].writes : v.seat = w.seat => v = w
    BY <1>0 DEF WritesTrim, WritesShaped
  <2>3. ASSUME NEW w \in task[Worker].writes, w.seat = m PROVE Weakened(m)
    <3>1. w \in Write /\ RevokesRow(w)
      BY <2>1 DEF WritesSound
    <3>2. membership'[m] = Merge(membership[m], w)
      BY <2>1, <2>2, <2>3, CommitRow
    <3> QED
      BY <1>0, <3>1, <3>2, RevokedRow DEF Weakened
  <2> QED
    BY <1>1, <2>1, <2>2, <2>3, CommitRow
<1>3. ASSUME NEW u \in Users, CommitInvites(u)
      PROVE  \/ Weakened(m)
             \/ \E w \in task[u].writes : /\ w.seat = m
                                          /\ membership'[m] = Merge(membership[m], w)
  <2>1. Commit(task[u].writes)
    BY <1>3 DEF CommitInvites
  <2>2. \A v, w \in task[u].writes : v.seat = w.seat => v = w
    BY DEF WritesTrim, WritesShaped, Processes
  <2> QED
    BY <1>1, <2>1, <2>2, CommitRow
<1>4. ASSUME NEW h \in Seats, NEW row, row.link = 0, row.until = 0, Store(h, row)
      PROVE  Weakened(m)
  BY <1>0, <1>4 DEF Store, Weakened, TypeOK
<1>5. ASSUME NEW h \in Seats, MarkJoined(h) PROVE Weakened(m)
  <2> DEFINE row == [status |-> "active", link |-> 0, until |-> 0]
  <2>1. row.link = 0 /\ row.until = 0 /\ Store(h, row)
    BY <1>5 DEF MarkJoined
  <2> QED
    BY <1>4, <2>1
<1>6. ASSUME NEW h \in Seats, ClearPending(h) PROVE Weakened(m)
  <2> DEFINE seat == <<review[h].holder, h[2]>>
             row  == [membership[seat] EXCEPT !.link = 0, !.until = 0]
  <2>1. Store(h, row)
    BY <1>6 DEF ClearPending
  <2>2. CASE seat \in Seats
    <3>1. row.link = 0 /\ row.until = 0
      BY <1>0, <2>2 DEF TypeOK, Membership
    <3> QED
      BY <1>4, <2>1, <3>1
  <2>3. CASE seat \notin Seats
    <3>1. membership'[m] = membership[m]
      BY <1>0, <2>1, <2>3 DEF Store, TypeOK
    <3> QED
      BY <1>1, <3>1
  <2> QED
    BY <2>2, <2>3
<1> QED
  BY <1>1, <1>2, <1>3, <1>5, <1>6, RowsMove

\* Everything that the rows, the writes and the reviews say of the invitations.
HeldSound == RowsSound /\ WritesTrim /\ WritesSound /\ ReviewsSound

\* What create_invites stores works.
LEMMA StoredWorks ==
    ASSUME Safe, HeldSound, [Next]_vars, NEW m \in Seats, NEW u \in Users,
           NEW w \in task[u].writes, CommitInvites(u), w.seat = m,
           membership'[m] = Merge(membership[m], w)
    PROVE  LET l == membership'[m].link
           IN  /\ l \in 1..Len(link') /\ link'[l].seat = m /\ link'[l].alive
               /\ membership'[m].until <= link'[l].until
<1>1. InvitesSeat(u, w)
  BY DEF HeldSound, WritesSound
<1>2. /\ membership'[m].link = w.stored.link
      /\ membership'[m].until \in {w.stored.until, 0}
  BY <1>1, InvitedRow DEF InvitesSeat
<1>3. UNCHANGED link
  BY DEF CommitInvites, telegram
<1>4. w.stored.until \in Nat
  BY DEF Safe, TypeOK, Task, Write, Membership, Processes
<1>5. membership'[m].until <= w.stored.until
  BY <1>2, <1>4
<1>6. /\ w.stored.link \in 1..Len(link) /\ link[w.stored.link].seat = m
      /\ link[w.stored.link].alive /\ link[w.stored.link].until = w.stored.until
  BY <1>1 DEF InvitesSeat, Seated
<1> QED
  BY <1>2, <1>3, <1>5, <1>6

\* The rows stay sound.
LEMMA RowsSoundStep ==
    ASSUME Safe, HeldSound, [Next]_vars
    PROVE  RowsSound'
<1> SUFFICES ASSUME NEW m \in Seats, membership'[m].link # 0
             PROVE  /\ Seated(membership[m].link, m)'
                    /\ membership'[m].until <= link'[membership'[m].link].until
  BY DEF RowsSound
<1>1. CASE Weakened(m)
  <2>1. /\ membership'[m].link = membership[m].link
        /\ Seated(membership[m].link, m)
        /\ membership[m].until <= link[membership[m].link].until
    BY <1>1 DEF Weakened, HeldSound, RowsSound
  <2>2. link[membership[m].link].until \in Nat /\ membership[m].until \in Nat
    BY <2>1, LinkTyped DEF Seated, Membership, Safe, TypeOK
  <2>3. /\ Seated(membership[m].link, m)'
        /\ link'[membership[m].link].until = link[membership[m].link].until
    <3>1. Seated(membership[m].link, m)' <=>
             membership'[m].link \in 1..Len(link') /\ link'[membership'[m].link].seat = m
      BY DEF Seated
    <3>2. /\ membership[m].link \in 1..Len(link)
          /\ link[membership[m].link].seat = m
      BY <2>1 DEF Seated
    <3> QED
      BY <2>1, <3>1, <3>2, LinksStep
  <2> QED
    BY <1>1, <2>1, <2>2, <2>3 DEF Weakened
<1>2. CASE ~Weakened(m)
  <2>1. PICK u \in Users : \E w \in task[u].writes :
                 /\ CommitInvites(u) /\ w.seat = m
                 /\ membership'[m] = Merge(membership[m], w)
    BY <1>2, RowStep DEF HeldSound
  <2>2. LET l == membership'[m].link
        IN  /\ l \in 1..Len(link') /\ link'[l].seat = m
            /\ membership'[m].until <= link'[l].until
    BY <2>1, StoredWorks
  <2> QED
    BY <2>2 DEF Seated
<1> QED
  BY <1>1, <1>2
\* The rows of a link's seat are the only ones that hold it.
LEMMA HoldersSeat ==
    ASSUME RowsSound, NEW n \in Seats, NEW k \in 1..Len(link), membership[n].link = k
    PROVE  Seated(k, n)
BY DEF RowsSound

\* A review goes on, and whoever it finds to hold the link is who it is for.
LEMMA ReviewStep ==
    ASSUME Safe, HeldSound, [Next]_vars, NEW m \in Seats
    PROVE  \/ review'[m] = review[m] \/ review'[m] = IdleReview
           \/ \E l \in 1..Len(link) :
                 review'[m] = [step |-> "review", link |-> l, holder |-> None]
           \/ /\ review'[m].link = review[m].link /\ review[m].step # "idle"
              /\ \/ /\ review'[m].step = "decline" /\ review'[m].holder = review[m].holder
                 \/ /\ review'[m].holder = review[m].holder
                    /\ \/ review[m].step = "approve" /\ review'[m].step = "approved"
                       \/ /\ review[m].step = "decline" /\ review'[m].step = "declined"
                          /\ review[m].holder # None
                       \/ BurnLink(m) /\ review'[m].step \in {"join", "clear"}
                 \/ /\ review'[m].step \in {"approve", "decline"}
                    /\ review'[m].holder \in Users
                    /\ membership[<<review'[m].holder, m[2]>>].link = review[m].link
<1>0. TypeOK /\ review[m] \in Review
  BY DEF Safe, TypeOK
<1>1. ASSUME NEW n \in Seats, NEW step, Answer(n, step), n # m PROVE review'[m] = review[m]
  BY <1>0, <1>1 DEF Answer, TypeOK
<1>2. ASSUME NEW n \in Seats, Handled(n) PROVE review'[m] \in {review[m], IdleReview}
  BY <1>0, <1>2 DEF Handled, TypeOK
<1>3. ASSUME NEW step, Answer(m, step)
      PROVE  /\ review'[m].step = step /\ review'[m].link = review[m].link
             /\ review'[m].holder = review[m].holder
  BY <1>0, <1>3 DEF Answer, TypeOK, Review
<1>4. ASSUME NEW n \in Seats, n # m, JoinRequest(n) PROVE review'[m] \in {review[m], IdleReview}
  <2>1. CASE ReviewRequest(n)
    <3>1. CASE Answer(n, "decline")
      BY <1>1, <1>4, <3>1
    <3>2. CASE \E u \in Holders(n) :
                  review' = [review EXCEPT ![n].step = IF Allowed(n, u) THEN "approve"
                                                                        ELSE "decline",
                                           ![n].holder = u]
      BY <1>0, <1>4, <3>2 DEF TypeOK
    <3> QED
      BY <2>1, <3>1, <3>2 DEF ReviewRequest
  <2>2. CASE Approve(n) \/ Decline(n) \/ BurnLink(n) \/ MarkJoined(n) \/ ClearPending(n)
    BY <1>1, <1>2, <1>4, <2>2 DEF Approve, Decline, BurnLink, MarkJoined, ClearPending
  <2> QED
    BY <1>4, <2>1, <2>2 DEF JoinRequest
<1>5. ASSUME NEW n \in Seats, NEW l \in 1..Len(link), Request(n, l)
      PROVE  \/ review'[m] = review[m]
             \/ review'[m] = [step |-> "review", link |-> l, holder |-> None]
  BY <1>0, <1>5 DEF Request, TypeOK
<1>6. CASE ReviewRequest(m)
  <2>1. CASE Answer(m, "decline")
    BY <1>3, <1>6, <2>1 DEF ReviewRequest, Handling
  <2>2. ASSUME NEW u \in Holders(m),
               review' = [review EXCEPT ![m].step = IF Allowed(m, u) THEN "approve"
                                                                     ELSE "decline",
                                        ![m].holder = u]
        PROVE  /\ review'[m].link = review[m].link
               /\ review'[m].step \in {"approve", "decline"} /\ review'[m].holder = u
    BY <1>0, <2>2 DEF TypeOK, Review
  <2> QED
    BY <1>6, <2>1, <2>2 DEF ReviewRequest, Handling, Holders
<1>7. CASE Approve(m) \/ Decline(m) \/ BurnLink(m)
  BY <1>2, <1>3, <1>7 DEF Approve, Decline, BurnLink, Handling
<1>8. CASE MarkJoined(m) \/ ClearPending(m) \/ \E n \in Seats : FailReview(n)
  BY <1>2, <1>8 DEF MarkJoined, ClearPending, FailReview
<1> QED
  BY <1>4, <1>5, <1>6, <1>7, <1>8, ReviewsMove DEF JoinRequest

\* The reviews stay sound.
LEMMA ReviewsSoundStep ==
    ASSUME Safe, HeldSound, [Next]_vars
    PROVE  ReviewsSound'
<1> SUFFICES ASSUME NEW m \in Seats
             PROVE  /\ review'[m].step # "idle" => review'[m].link \in 1..Len(link')
                    /\ review'[m].step \in {"approve", "approved", "declined", "join", "clear"}
                          => review'[m].holder # None
                    /\ review'[m].holder # None =>
                          /\ review'[m].link \in 1..Len(link')
                          /\ link'[review'[m].link].seat = <<review'[m].holder, m[2]>>
  BY DEF ReviewsSound, Seated
<1>0. /\ review[m].step # "idle" => review[m].link \in 1..Len(link)
      /\ review[m].step \in {"approve", "approved", "declined", "join", "clear"}
            => review[m].holder # None
      /\ review[m].holder # None =>
            /\ review[m].link \in 1..Len(link)
            /\ link[review[m].link].seat = <<review[m].holder, m[2]>>
  BY DEF HeldSound, ReviewsSound, Seated
<1>1. \A k \in 1..Len(link) : k \in 1..Len(link') /\ link'[k].seat = link[k].seat
  BY LinksStep
<1>2. CASE review'[m] = review[m]
  BY <1>0, <1>1, <1>2
<1>3. CASE review'[m] = IdleReview
  BY <1>3 DEF IdleReview
<1>4. CASE \E l \in 1..Len(link) :
              review'[m] = [step |-> "review", link |-> l, holder |-> None]
  <2>1. /\ review'[m].link \in 1..Len(link) /\ review'[m].step = "review"
        /\ review'[m].holder = None
    BY <1>4
  <2> QED
    BY <1>1, <2>1
<1>5. CASE /\ review'[m].link = review[m].link /\ review[m].step # "idle"
           /\ review'[m].holder = review[m].holder
           /\ \/ review'[m].step = "decline"
              \/ review[m].step \in {"approve", "approved", "declined", "join", "clear"}
              \/ review[m].holder # None
  BY <1>0, <1>1, <1>5
<1>6. CASE /\ review'[m].link = review[m].link /\ review[m].step # "idle"
           /\ review'[m].holder \in Users
           /\ membership[<<review'[m].holder, m[2]>>].link = review[m].link
  <2>1. <<review'[m].holder, m[2]>> \in Seats
    BY <1>6 DEF Seats
  <2>2. Seated(review[m].link, <<review'[m].holder, m[2]>>)
    BY <1>0, <1>6, <2>1, HoldersSeat DEF HeldSound
  <2>3. None \notin Users
    BY AccessAssumption
  <2> QED
    BY <1>1, <1>6, <2>2, <2>3 DEF Seated
<1>7. BurnLink(m) => review[m].step \in {"approved", "declined"}
  BY DEF BurnLink, Handling
<1> QED
  BY <1>2, <1>3, <1>4, <1>5, <1>6, <1>7, ReviewStep

\* What create_invites has written still works when somebody else has stepped.
LEMMA InviteLasts ==
    ASSUME Safe, HeldSound, [Next]_vars, NEW u \in Users, NEW w \in task[u].writes,
           ~CommitInvites(u)
    PROVE  InvitesSeat(u, w)'
<1> DEFINE k == w.stored.link
<1>1. /\ w.seat[1] = u /\ k # w.loaded.link /\ k \in 1..Len(link) /\ link[k].seat = w.seat
      /\ link[k].alive /\ link[k].until = w.stored.until
      /\ membership[w.seat].link # k
      /\ membership[w.seat].until \in {w.loaded.until, 0}
      /\ \A m \in Seats : review[m].holder # None => review[m].link # k
  BY DEF HeldSound, WritesSound, InvitesSeat, Seated
<1> HIDE DEF k
<1>2. w.seat \in Seats
  BY DEF Safe, TypeOK, Task, Write, Processes
<1>3. \A n \in Seats : membership[n].link # k
  BY <1>1, HoldersSeat DEF Seated, HeldSound
<1>4. /\ k \in 1..Len(link') /\ link'[k].seat = w.seat /\ link'[k].until = w.stored.until
      /\ link'[k].alive
  <2>1. ASSUME NEW v \in Users, CreateInvite(v) PROVE Target(v) \in Seats
    BY <2>1, TargetIsSeat DEF CreateInvite, At, Safe, AccessInv, Processes
  <2>2. RevokeMembership => Target(Worker) \in Seats
    BY TargetIsSeat DEF RevokeMembership, At, Safe, AccessInv, Processes
  <2>3. ASSUME NEW m \in Seats, BurnLink(m) PROVE review[m].link # k
    <3>1. review[m].holder # None
      BY <2>3 DEF BurnLink, Handling, HeldSound, ReviewsSound
    <3> QED
      BY <1>1, <3>1
  <2> QED
    BY <1>1, <1>3, <2>1, <2>2, <2>3, LinksStep
<1>5. membership'[w.seat].link # k /\ membership'[w.seat].until \in {w.loaded.until, 0}
  <2>1. CASE Weakened(w.seat)
    BY <1>1, <2>1 DEF Weakened
  <2>2. ASSUME NEW v \in Users, NEW x \in task[v].writes, CommitInvites(v), x.seat = w.seat
        PROVE  FALSE
    <3>1. x.seat[1] = v
      BY DEF HeldSound, WritesSound, InvitesSeat
    <3> QED
      BY <1>1, <2>2, <3>1
  <2> QED
    BY <1>2, <2>1, <2>2, RowStep DEF HeldSound
<1>6. ASSUME NEW m \in Seats, review'[m].holder # None PROVE review'[m].link # k
  <2>1. CASE review'[m].link = review[m].link /\ review'[m].holder = review[m].holder
    BY <1>1, <1>6, <2>1
  <2>2. CASE /\ review'[m].link = review[m].link /\ review'[m].holder \in Users
             /\ membership[<<review'[m].holder, m[2]>>].link = review[m].link
    <3>1. <<review'[m].holder, m[2]>> \in Seats
      BY <2>2 DEF Seats
    <3> QED
      BY <1>3, <2>2, <3>1
  <2>3. /\ review'[m] # IdleReview
        /\ \A l : review'[m] # [step |-> "review", link |-> l, holder |-> None]
    BY <1>6 DEF IdleReview
  <2>4. review'[m] = review[m] =>
           review'[m].link = review[m].link /\ review'[m].holder = review[m].holder
    OBVIOUS
  <2> QED
    BY <2>1, <2>2, <2>3, <2>4, ReviewStep
<1> QED
  <2>1. InvitesSeat(u, w)' <=>
          /\ w.seat[1] = u /\ k # w.loaded.link
          /\ k \in 1..Len(link') /\ link'[k].seat = w.seat
          /\ link'[k].alive /\ link'[k].until = w.stored.until
          /\ membership'[w.seat].link # k
          /\ membership'[w.seat].until \in {w.loaded.until, 0}
          /\ \A m \in Seats : review'[m].holder # None => review'[m].link # k
    BY DEF InvitesSeat, Seated, k
  <2> QED
    BY <1>1, <1>4, <1>5, <1>6, <2>1

\* What create_invites has just written works.
LEMMA InviteWorks ==
    ASSUME Safe, HeldSound, [Next]_vars, NEW u \in Users, CreateInvite(u),
           NEW w \in task'[u].writes, w \notin task[u].writes
    PROVE  InvitesSeat(u, w)'
<1> DEFINE m == Target(u)
           new == [seat |-> m, until |-> now + InviteTTL, alive |-> TRUE]
<1>0. TypeOK /\ Len(link) \in Nat /\ m \in Seats /\ m[1] = u /\ u # Worker
  <2>1. m \in Seats
    BY TargetIsSeat DEF CreateInvite, At, Safe, AccessInv, Processes
  <2>2. u # Worker
    BY AccessAssumption
  <2> QED
    BY <2>1, <2>2 DEF Safe, TypeOK, Target
<1>1. /\ w.seat = m /\ w.loaded = membership[m] /\ w.stored.link = Len(link) + 1
      /\ w.stored.until = now + InviteTTL
      /\ link' = Append(RevokeLink(membership[m].link), new)
      /\ UNCHANGED <<membership, review>>
  <2> DEFINE x == [seat   |-> m,
                   loaded |-> membership[m],
                   stored |-> [status |-> "invited", link |-> Len(link) + 1,
                               until  |-> now + InviteTTL]]
  <2>1. /\ Done(u, task[u].writes \cup {x})
        /\ link' = Append(RevokeLink(membership[m].link), new)
        /\ UNCHANGED <<membership, review>>
    BY <1>0, InviteWritten
  <2>2. w = x
    BY <2>1 DEF Done
  <2> QED
    BY <2>1, <2>2
<1>2. /\ Len(link') = Len(link) + 1 /\ link'[Len(link) + 1] = new
  <2> DEFINE Links == [seat : Seats, until : Nat, alive : BOOLEAN]
  <2>1. membership[m].link \in 0..MaxLinks
    BY <1>0 DEF TypeOK, Membership
  <2>2. RevokeLink(membership[m].link) \in Seq(Links)
        /\ Len(RevokeLink(membership[m].link)) = Len(link)
    BY <1>0, <2>1, RevokeType
  <2>3. now + InviteTTL \in Nat
    BY <1>0, AccessAssumption DEF TypeOK
  <2>4. new \in Links
    BY <1>0, <2>3
  <2> HIDE DEF Links, new
  <2> QED
    BY <1>0, <1>1, <2>2, <2>4
<1>3. new.seat = m /\ new.until = now + InviteTTL /\ new.alive
  OBVIOUS
<1>4. membership[m].link # Len(link) + 1
  BY <1>0 DEF HeldSound, RowsSound, Seated
<1>5. \A n \in Seats : review[n].holder # None => review[n].link # Len(link) + 1
  BY <1>0 DEF HeldSound, ReviewsSound, Seated
<1> HIDE DEF m, new
<1> QED
  BY <1>0, <1>1, <1>2, <1>3, <1>4, <1>5 DEF InvitesSeat, Seated
\* What is still to be written stays sound.
LEMMA WritesSoundStep ==
    ASSUME Safe, HeldSound, [Next]_vars
    PROVE  WritesSound'
<1>0. Worker \in Processes /\ Worker \notin Users /\ WritesTrim /\ TypeOK
  BY AccessAssumption DEF Processes, HeldSound, Safe
<1>1. ASSUME NEW w \in task'[Worker].writes PROVE RevokesRow(w)
  <2>1. CASE w \in task[Worker].writes
    BY <2>1 DEF HeldSound, WritesSound
  <2>2. CASE w \notin task[Worker].writes
    <3>1. RevokeMembership
      BY <1>0, <1>1, <2>2, TaskMoves DEF Kept, Done, Begun
    <3> DEFINE m == Target(Worker)
               x == [seat   |-> m,
                     loaded |-> membership[m],
                     stored |-> [membership[m] EXCEPT !.status = "revoked", !.link = 0]]
    <3>2. Done(Worker, task[Worker].writes) \/ Done(Worker, task[Worker].writes \cup {x})
      BY <1>0, <3>1, RemovalWritten
    <3>3. w = x
      BY <1>1, <2>2, <3>2 DEF Done
    <3> QED
      BY <3>3 DEF RevokesRow
  <2> QED
    BY <2>1, <2>2
<1>2. ASSUME NEW u \in Users, NEW w \in task'[u].writes PROVE InvitesSeat(u, w)'
  <2>0. u \in Processes
    BY DEF Processes
  <2>1. CASE w \in task[u].writes
    <3>1. CommitInvites(u) => task'[u].writes = {}
      BY <1>0, <2>0 DEF CommitInvites, TypeOK, IdleTask
    <3> QED
      BY <1>2, <2>1, <3>1, InviteLasts
  <2>2. CASE w \notin task[u].writes
    <3>1. CreateInvite(u)
      BY <1>0, <1>2, <2>0, <2>2, TaskMoves DEF Kept, Done, Begun
    <3> QED
      BY <1>2, <2>2, <3>1, InviteWorks
  <2> QED
    BY <2>1, <2>2
<1>3. \A w \in task'[Worker].writes : RevokesRow(w)'
  BY <1>1 DEF RevokesRow
<1> QED
  BY <1>2, <1>3 DEF WritesSound

\* All of it is inductive.
LEMMA HeldStep ==
    ASSUME Safe, HeldSound, [Next]_vars
    PROVE  HeldSound'
BY TrimStep, RowsSoundStep, ReviewsSoundStep, WritesSoundStep DEF HeldSound

-----------------------------------------------------------------------------
(***************************************************************************)
(* What a row offers works                                                 *)
(***************************************************************************)
\* While the administrators wait, nobody bans whom the worker has just unbanned.
LEMMA UnbanHoldsStep ==
    ASSUME Safe, [Next]_vars, AdminsWait, UnbanHolds
    PROVE  UnbanHolds'
<1> SUFFICES ASSUME At(Worker, "verify")' PROVE by'[Target(Worker)'] = {}
  BY DEF UnbanHolds
<1>0. Worker \in Processes /\ TypeOK
  BY DEF Processes, Safe
<1>1. ASSUME NEW step, step # "verify", Goto(Worker, step) PROVE FALSE
  BY <1>0, <1>1, GotoCleared DEF At
<1>2. LiftBan(Worker) \/ task'[Worker] = task[Worker]
  <2>1. CASE Expiration \/ Fail(Worker)
    <3>1. ~RecordBan /\ ~BanMember /\ ~VerifyUnban(Worker) /\ ~RecordUnban(Worker) /\ ~CheckMember
      BY <1>1 DEF RecordBan, BanMember, VerifyUnban, RecordUnban, CheckMember
    <3>2. ~CheckCovered
      <4>1. ASSUME NEW writes, NEW complete, Proceed(writes, complete) PROVE FALSE
        <5>1. task'[Worker].step = StepAt(Tail(task[Worker].todo))
          BY <4>1 DEF Proceed, Safe, TypeOK, Task, Processes
        <5> QED
          BY <5>1 DEF StepAt, At
      <4> QED
        BY <1>1, <4>1 DEF CheckCovered
    <3> QED
      BY <2>1, <3>1, <3>2, WorkerGoes DEF At
  <2>2. CASE Surroundings \/ UNCHANGED vars
    BY <1>0, <2>2, TasksLeft
  <2>3. CASE \E m \in Seats : DeliverUpdate(m) \/ JoinRequest(m) \/ FailReview(m)
    BY <2>3, TasksLeft
  <2>4. CASE \E u \in Users : Invites(u) \/ Fail(u)
    BY <1>0, <2>4, InvitesApart
  <2> QED
    BY <2>1, <2>2, <2>3, <2>4 DEF Next, Processes
<1>3. CASE LiftBan(Worker)
  <2>1. Target(Worker) \in Seats /\ Unban(Target(Worker), "bot")
    BY <1>0, <1>3, TargetIsSeat DEF LiftBan, At, Safe, AccessInv
  <2>2. Target(Worker)' = Target(Worker)
    <3>1. task'[Worker].sub = task[Worker].sub /\ task'[Worker].todo = task[Worker].todo
      BY <1>0, <1>3 DEF LiftBan, Goto, TypeOK, Task
    <3> QED
      BY <3>1 DEF Target
  <2> QED
    BY <1>0, <2>1, <2>2, UnbanLatest
<1>4. CASE task'[Worker] = task[Worker]
  <2> DEFINE t == Target(Worker)
  <2>1. /\ t \in Seats /\ Target(Worker)' = t /\ WorksOn(Worker, t) /\ by[t] = {}
        /\ At(Worker, "verify")
    BY <1>0, <1>4, TargetIsSeat DEF At, Safe, AccessInv, UnbanHolds, Target, WorksOn
  <2> SUFFICES by'[t] = {}
    BY <2>1
  <2> HIDE DEF t
  <2>2. ASSUME NEW n \in Seats, NEW who, Unban(n, who) PROVE by'[t] = {}
    BY <1>0, <2>1, <2>2, UnbanLatest
  <2>3. ASSUME NEW n \in Seats, ManualBan(n) PROVE by'[t] = {}
    <3>1. n # t
      BY <1>0, <2>1, <2>3 DEF ManualBan, MayModerate
    <3> QED
      BY <1>0, <2>1, <2>3, <3>1, BanLatest DEF ManualBan
  <2>4. ASSUME NEW n \in Seats, ManualUnban(n) PROVE by'[t] = {}
    BY <2>2, <2>4 DEF ManualUnban
  <2>5. ASSUME NEW p \in Processes, LiftBan(p) PROVE by'[t] = {}
    BY <2>2, <2>5, TargetIsSeat DEF LiftBan, At, Safe, AccessInv
  <2>6. ~BanMember
    BY <2>1 DEF BanMember, At
  <2> QED
    BY <2>1, <2>3, <2>4, <2>5, <2>6, BansMove DEF DeliverUpdate, RecordUnban, RecordBan, telegram
<1> QED
  BY <1>2, <1>3, <1>4

\* Time and failures only grow.
LEMMA ClockStep ==
    ASSUME TypeOK, [Next]_vars
    PROVE  /\ now' >= now /\ failures' >= failures
           /\ \A p \in Processes : Fail(p) => failures' > failures
           /\ \A m \in Seats : FailReview(m) => failures' > failures
<1>0. now \in Nat /\ failures \in Nat
  BY DEF TypeOK
<1>1. ASSUME NEW p \in Processes, Fail(p) PROVE now' = now /\ failures' = failures + 1
  BY <1>1 DEF Fail
<1>2. ASSUME NEW m \in Seats, FailReview(m) PROVE now' = now /\ failures' = failures + 1
  BY <1>2 DEF FailReview
<1>3. ASSUME Surroundings PROVE now' \in {now, now + 1} /\ UNCHANGED failures
  BY <1>3 DEF Surroundings, Tick, Pay, ManualBan, ManualUnban, Request, bounds
<1>4. ASSUME NEW m \in Seats, DeliverUpdate(m) \/ JoinRequest(m)
      PROVE  UNCHANGED <<now, failures>>
  BY <1>4 DEF DeliverUpdate, JoinRequest, ReviewRequest, Approve, Decline, BurnLink,
     MarkJoined, ClearPending, bounds
<1>5. ASSUME NEW p \in Processes, Unbanning(p) PROVE UNCHANGED <<now, failures>>
  BY <1>5 DEF Unbanning, LiftBan, VerifyUnban, RecordUnban, UnbanFailed, bounds
<1>6. ASSUME NEW u \in Users, Invites(u) PROVE Unbanning(u) \/ UNCHANGED <<now, failures>>
  BY <1>6 DEF Invites, BeginInvites, EnsureNotBanned, ReuseInvite, CreateInvite,
     CommitInvites, bounds
<1>7. ASSUME Expiration
      PROVE  \/ Unbanning(Worker) \/ UNCHANGED <<now, failures>>
             \/ now' = now /\ failures' \in {failures, failures + 1}
  BY <1>7 DEF Expiration, BeginExpire, EndExpire, SkipSubscription, LockSubscription,
     CheckCovered, CheckMember, BanMember, BanRefused, RecordBan, RevokeMembership,
     CommitExpire, bounds
<1>8. ASSUME UNCHANGED vars PROVE UNCHANGED <<now, failures>>
  BY <1>8 DEF vars, bounds
<1>9. now' >= now /\ failures' >= failures
  BY <1>0, <1>1, <1>2, <1>3, <1>4, <1>5, <1>6, <1>7, <1>8 DEF Next, Processes
<1> QED
  BY <1>0, <1>1, <1>2, <1>9

\* A review that is about to take a link out of a row does so, or fails.
LEMMA ReviewEnds ==
    ASSUME TypeOK, [Next]_vars, NEW h \in Seats, review[h].step \in {"join", "clear"}
    PROVE  review'[h] = review[h] \/ MarkJoined(h) \/ ClearPending(h) \/ FailReview(h)
<1>1. ASSUME NEW n \in Seats, Handled(n) \/ \E step : Answer(n, step), n # h
      PROVE  review'[h] = review[h]
  BY <1>1 DEF Handled, Answer, TypeOK
<1>2. ASSUME NEW n \in Seats, NEW l \in 1..Len(link), Request(n, l)
      PROVE  review'[h] = review[h]
  <2>1. n # h
    BY <1>2 DEF Request, Handling
  <2> QED
    BY <1>2, <2>1 DEF Request, TypeOK
<1>3. ASSUME NEW n \in Seats, ReviewRequest(n) PROVE review'[h] = review[h]
  <2>1. n # h
    BY <1>3 DEF ReviewRequest, Handling
  <2>2. CASE Answer(n, "decline")
    BY <1>1, <2>1, <2>2
  <2>3. CASE \E u \in Holders(n) :
                review' = [review EXCEPT ![n].step = IF Allowed(n, u) THEN "approve"
                                                                      ELSE "decline",
                                         ![n].holder = u]
    BY <2>1, <2>3 DEF TypeOK
  <2> QED
    BY <1>3, <2>2, <2>3 DEF ReviewRequest
<1>4. ASSUME NEW n \in Seats, Approve(n) \/ Decline(n) \/ BurnLink(n)
      PROVE  review'[h] = review[h]
  <2>1. n # h
    BY <1>4 DEF Approve, Decline, BurnLink, Handling
  <2> QED
    BY <1>1, <1>4, <2>1 DEF Approve, Decline, BurnLink
<1>5. ASSUME NEW n \in Seats, n # h, MarkJoined(n) \/ ClearPending(n) \/ FailReview(n)
      PROVE  review'[h] = review[h]
  BY <1>1, <1>5 DEF MarkJoined, ClearPending, FailReview
<1> QED
  BY <1>2, <1>3, <1>4, <1>5, ReviewsMove DEF JoinRequest
\* The worker does not forget what it has written, unless it fails.
LEMMA WritesLast ==
    ASSUME Safe, HeldSound, [Next]_vars, UnbanHolds, failures' = failures,
           NEW w \in task[Worker].writes
    PROVE  w \in task'[Worker].writes \/ CommitExpire
<1>0. Worker \in Processes /\ Worker \notin Users /\ WritesTrim
  BY AccessAssumption DEF Processes, HeldSound
<1>1. ~Fail(Worker)
  BY <1>0, ClockStep DEF Safe, TypeOK
<1>2. ~UnbanFailed(Worker)
  BY DEF UnbanFailed, UnbanHolds
<1>3. RevokeMembership => w \in task'[Worker].writes
  <2> DEFINE m == Target(Worker)
             x == [seat   |-> m,
                   loaded |-> membership[m],
                   stored |-> [membership[m] EXCEPT !.status = "revoked", !.link = 0]]
  <2>1. RevokeMembership =>
           Done(Worker, task[Worker].writes) \/ Done(Worker, task[Worker].writes \cup {x})
    BY RemovalWritten DEF Safe
  <2> QED
    BY <2>1 DEF Done
<1> QED
  BY <1>0, <1>1, <1>2, <1>3, TaskMoves DEF Kept, Done

\* Whoever is about to take an invitation out of its row does so.
LEMMA ReplacedStep ==
    ASSUME Safe, HeldSound, [Next]_vars, UnbanHolds, failures' = failures,
           NEW m \in Seats, Replaced(m), membership[m].link # 0,
           membership'[m].link = membership[m].link
    PROVE  Replaced(m)'
<1>0. TypeOK /\ Worker \in Processes /\ membership[m] \in Membership
  BY DEF Safe, TypeOK, Processes
<1>1. ASSUME NEW w \in task[Worker].writes, w.seat = m, w.loaded.link = membership[m].link
      PROVE  Replaced(m)'
  <2>1. ~CommitExpire
    <3>1. ASSUME CommitExpire PROVE FALSE
      <4>1. Commit(task[Worker].writes) /\ w \in Write /\ RevokesRow(w)
        BY <1>0, <3>1 DEF CommitExpire, TypeOK, Task, HeldSound, WritesSound
      <4>2. \A v, x \in task[Worker].writes : v.seat = x.seat => v = x
        BY <1>0 DEF HeldSound, WritesTrim, WritesShaped
      <4>3. membership'[m] = Merge(membership[m], w)
        BY <1>1, <4>1, <4>2, CommitRow
      <4> QED
        BY <1>0, <1>1, <4>1, <4>3, RevokedRow
    <3> QED
      BY <3>1
  <2>2. w \in task'[Worker].writes
    BY <2>1, WritesLast
  <2> QED
    BY <1>1, <2>2 DEF Replaced
<1>2. ASSUME NEW h \in Seats, review[h].step \in {"join", "clear"},
             review[h].link = membership[m].link
      PROVE  Replaced(m)'
  <2> DEFINE seat == <<review[h].holder, h[2]>>
  <2>1. seat = m
    <3>1. review[h].holder # None
      BY <1>2 DEF HeldSound, ReviewsSound
    <3>2. link[review[h].link].seat = seat
      BY <3>1 DEF HeldSound, ReviewsSound, Seated
    <3>3. link[membership[m].link].seat = m
      BY DEF HeldSound, RowsSound, Seated
    <3> QED
      BY <1>2, <3>2, <3>3
  <2>2. ASSUME NEW row, row.link = 0, Store(h, row) PROVE FALSE
    BY <1>0, <1>2, <2>1, <2>2 DEF Store, TypeOK
  <2>3. ~MarkJoined(h)
    <3> DEFINE row == [status |-> "active", link |-> 0, until |-> 0]
    <3>1. row.link = 0
      OBVIOUS
    <3> QED
      BY <2>2, <3>1 DEF MarkJoined
  <2>4. ~ClearPending(h)
    <3> DEFINE row == [membership[seat] EXCEPT !.link = 0, !.until = 0]
    <3>1. row.link = 0
      BY <1>0, <2>1 DEF Membership
    <3>2. ClearPending(h) => Store(h, row)
      BY DEF ClearPending
    <3> QED
      BY <2>2, <3>1, <3>2
  <2>5. ~FailReview(h)
    BY <1>0, ClockStep DEF TypeOK
  <2>6. review'[h] = review[h]
    BY <1>0, <1>2, <2>3, <2>4, <2>5, ReviewEnds
  <2> QED
    BY <1>2, <2>6 DEF Replaced
<1> QED
  BY <1>1, <1>2 DEF Replaced

\* An invitation that stops to work is about to be taken out of its row.
LEMMA LinkStep ==
    ASSUME Safe, HeldSound, [Next]_vars, NEW m \in Seats, Reusable(membership[m]),
           membership'[m].link = membership[m].link, link[membership[m].link].alive
    PROVE  link'[membership[m].link].alive \/ Replaced(m)'
<1> DEFINE l == membership[m].link
<1>0. TypeOK /\ Worker \in Processes
  BY DEF Safe, Processes
<1>1. l # 0 /\ l \in 1..Len(link) /\ link[l].seat = m
  BY DEF Reusable, HeldSound, RowsSound, Seated
<1>2. \A n \in Seats : membership[n].link = l => n = m
  BY <1>1, HoldersSeat DEF HeldSound, Seated
<1> HIDE DEF l
<1>3. ASSUME NEW u \in Users, CreateInvite(u), membership[Target(u)].link = l PROVE FALSE
  <2>1. Target(u) \in Seats
    BY <1>3, TargetIsSeat DEF CreateInvite, At, Safe, AccessInv, Processes
  <2>2. ~Reusable(membership[Target(u)])
    BY <1>0, <1>3, InviteWritten
  <2> QED
    BY <1>2, <1>3, <2>1, <2>2
<1>4. ASSUME RevokeMembership, membership[Target(Worker)].link = l, link'[l] # link[l]
      PROVE  Replaced(m)'
  <2>1. Target(Worker) = m
    <3>1. Target(Worker) \in Seats
      BY <1>0, <1>4, TargetIsSeat DEF RevokeMembership, At, Safe, AccessInv
    <3> QED
      BY <1>2, <1>4, <3>1
  <2> DEFINE x == [seat   |-> m,
                   loaded |-> membership[m],
                   stored |-> [membership[m] EXCEPT !.status = "revoked", !.link = 0]]
  <2>2. Done(Worker, task[Worker].writes \cup {x})
    BY <1>0, <1>4, <2>1, RemovalWritten
  <2>3. x \in task'[Worker].writes /\ x.seat = m /\ x.loaded.link = membership'[m].link
    BY <2>2 DEF Done
  <2> QED
    BY <2>3 DEF Replaced
<1>5. ASSUME NEW h \in Seats, BurnLink(h), review[h].link = l PROVE Replaced(m)'
  <2>1. PICK step \in {"join", "clear"} : Answer(h, step)
    BY <1>5 DEF BurnLink
  <2>2. review \in [Seats -> Review]
    BY <1>0 DEF TypeOK
  <2>3. review'[h] = [review[h] EXCEPT !.step = step]
    BY <2>1, <2>2 DEF Answer
  <2>4. review[h] \in Review
    BY <2>2
  <2>5. review'[h].step = step /\ review'[h].link = review[h].link
    BY <2>3, <2>4 DEF Review
  <2> QED
    BY <1>5, <2>1, <2>5 DEF Replaced, l
<1> QED
  BY <1>1, <1>3, <1>4, <1>5, LinksStep DEF l

\* What a row offers for another use works, or is about to be taken out.
LEMMA RowsWorkStep ==
    ASSUME Safe, HeldSound, [Next]_vars, UnbanHolds, RowsWork
    PROVE  RowsWork'
<1> SUFFICES ASSUME failures' = 0, NEW m \in Seats, Reusable(membership[m])'
             PROVE  Usable(membership[m].link)' \/ Replaced(m)'
  BY DEF RowsWork
<1>0. /\ TypeOK /\ now \in Nat /\ now' >= now /\ failures = 0 /\ now' \in Nat
      /\ membership[m] \in Membership /\ membership'[m] \in Membership
  <2>1. TypeOK /\ TypeOK'
    BY TypeStep DEF Safe, AccessInv
  <2>2. failures \in Nat /\ failures' >= failures /\ now' >= now
    BY <2>1, ClockStep DEF TypeOK
  <2> QED
    BY <2>1, <2>2 DEF TypeOK
<1>1. /\ membership'[m].status = "invited" /\ membership'[m].link # 0
      /\ membership'[m].until > now'
  BY DEF Reusable
<1>2. CASE Weakened(m)
  <2> DEFINE l == membership[m].link
  <2>1. membership'[m].link = l /\ membership'[m].until = membership[m].until
    BY <1>0, <1>1, <1>2 DEF Weakened
  <2>2. Reusable(membership[m])
    BY <1>0, <1>1, <1>2, <2>1 DEF Weakened, Reusable, Membership
  <2>3. /\ l \in 1..Len(link) /\ membership[m].until <= link[l].until
    BY <2>2 DEF Reusable, HeldSound, RowsSound, Seated
  <2>4. link'[l].until = link[l].until /\ link[l].until \in Nat
    BY <1>0, <2>3, LinksStep, LinkTyped
  <2>5. link'[l].until > now'
    BY <1>0, <1>1, <2>1, <2>3, <2>4 DEF Membership
  <2>6. CASE link[l].alive
    <3>1. link'[l].alive \/ Replaced(m)'
      BY <2>1, <2>2, <2>6, LinkStep
    <3> QED
      BY <2>1, <2>5, <3>1 DEF Usable
  <2>7. CASE ~link[l].alive
    <3>1. Replaced(m)
      BY <1>0, <2>2, <2>7 DEF RowsWork, Usable
    <3> QED
      BY <1>0, <1>1, <2>1, <3>1, ReplacedStep
  <2> QED
    BY <2>6, <2>7
<1>3. CASE ~Weakened(m)
  <2>1. PICK u \in Users : \E w \in task[u].writes :
                 /\ CommitInvites(u) /\ w.seat = m
                 /\ membership'[m] = Merge(membership[m], w)
    BY <1>3, RowStep DEF HeldSound
  <2> DEFINE l == membership'[m].link
  <2>2. l \in 1..Len(link') /\ link'[l].alive /\ membership'[m].until <= link'[l].until
    BY <2>1, StoredWorks
  <2>3. link'[l].until \in Nat
    <3>1. TypeOK'
      BY TypeStep DEF Safe, AccessInv
    <3>2. UNCHANGED link
      BY <2>1 DEF CommitInvites, telegram
    <3> QED
      BY <1>0, <2>2, <3>2, LinkTyped
  <2>4. link'[l].until > now'
    BY <1>0, <1>1, <2>2, <2>3 DEF Membership
  <2> QED
    BY <2>2, <2>4 DEF Usable
<1> QED
  BY <1>2, <1>3

\* The inductive invariant on the invitations.
InvitesInv == HeldSound /\ (AdminsWait => UnbanHolds /\ RowsWork)

\* The invariant on the invitations is inductive.
LEMMA InvitesStep == Safe /\ InvitesInv /\ [Next]_vars => InvitesInv'
<1> SUFFICES ASSUME Safe, InvitesInv, [Next]_vars PROVE InvitesInv'
  OBVIOUS
<1>1. HeldSound'
  BY HeldStep DEF InvitesInv
<1>2. ASSUME AdminsWait PROVE UnbanHolds' /\ RowsWork'
  BY <1>2, UnbanHoldsStep, RowsWorkStep DEF InvitesInv
<1> QED
  BY <1>1, <1>2 DEF InvitesInv

\* At first there is no invitation, and nobody is at work.
LEMMA InitInvites == Init => InvitesInv
<1> SUFFICES ASSUME Init PROVE InvitesInv
  OBVIOUS
<1>1. /\ \A m \in Seats : membership[m].link = 0 /\ membership[m].until = 0
      /\ \A m \in Seats : membership[m].status = "none"
  BY DEF Init, NoMembership
<1>2. \A p \in Processes :
         task[p].step = "idle" /\ task[p].writes = {} /\ task[p].todo = <<>>
  BY DEF Init, IdleTask
<1>3. \A m \in Seats : review[m].step = "idle" /\ review[m].holder = None
  BY DEF Init, IdleReview
<1>4. Worker \in Processes /\ \A u \in Users : u \in Processes
  BY DEF Processes
<1>5. RowsSound /\ RowsWork
  BY <1>1 DEF RowsSound, RowsWork, Reusable
<1>6. WritesTrim
  BY <1>2 DEF WritesTrim, WritesShaped, Distinct
<1>7. WritesSound /\ UnbanHolds
  BY <1>2, <1>4 DEF WritesSound, UnbanHolds, At
<1>8. ReviewsSound
  BY <1>3 DEF ReviewsSound
<1> QED
  BY <1>5, <1>6, <1>7, <1>8 DEF InvitesInv, HeldSound

\* While the administrators leave alone whatever a process works on, the tables
\* are right about Telegram: a ban of the bot is on record as its own, and, when
\* nothing has failed and nobody is at work, an invitation that a row offers for
\* another use is one that Telegram still accepts.
THEOREM RecordsAlwaysTrue == ASSUME AdminsWait PROVE Spec => []RecordsAreTrue
<1>1. Safe /\ InvitesInv => StoredInvitesWork
  <2> SUFFICES ASSUME Safe, InvitesInv, NEW m \in Seats,
                      failures = 0, \A p \in Processes : At(p, "idle"),
                      \A h \in Seats : Handling(h, "idle"), Reusable(membership[m])
               PROVE  Usable(membership[m].link)
    BY DEF StoredInvitesWork
  <2>1. task[Worker].writes = {}
    BY DEF InvitesInv, HeldSound, WritesTrim, WritesShaped, At, Processes
  <2>2. ~Replaced(m)
    BY <2>1 DEF Replaced, Handling
  <2> QED
    BY <2>2 DEF InvitesInv, RowsWork
<1>2. Spec => []InvitesInv
  BY InitInvites, InvitesStep, SafeAlways, PTL DEF Spec
<1>3. Spec => []BotBansAreKnown
  BY BotBansAlwaysKnown
<1>4. StoredInvitesWork /\ BotBansAreKnown => RecordsAreTrue
  BY DEF RecordsAreTrue
<1> QED
  BY <1>1, <1>2, <1>3, <1>4, SafeAlways, PTL
=============================================================================
