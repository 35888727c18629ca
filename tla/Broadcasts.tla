------------------------------ MODULE Broadcasts ------------------------------
(***************************************************************************)
(* Broadcasts (services/broadcasts.py).  An administrator queues one for   *)
(* the users of that moment; the worker takes the oldest unfinished one,   *)
(* copies it to a batch of the recipients who have not got it, and records *)
(* the outcome after each copy, in a transaction of its own.  When the     *)
(* batch ends it counts; a broadcast without pending recipients is done.   *)
(*                                                                         *)
(* The order of a batch, the pauses and the contents are left out.         *)
(***************************************************************************)
EXTENDS WorkerLoop, FiniteSets, Sequences

CONSTANTS
    BatchSize,  \* broadcast_batch_size
    MaxAttempts \* after which a recipient is given up

ASSUME BroadcastsAssumption == BatchSize \in Nat \ {0} /\ MaxAttempts \in Nat \ {0}

VARIABLES
    broadcasts, \* the broadcasts with their recipients, in the order of the queue
    blocked,    \* the users who have blocked the bot (users.is_blocked)
    batch,      \* what the worker is doing about them
    copies,     \* history: the copies that arrived
    pauses,     \* history: how often Telegram asked for a pause over a recipient
    uncounted   \* history: broadcasts with a batch that was lost

broadcastVars == <<broadcasts, blocked, batch, copies, pauses, uncounted>>

BroadcastStatus == {"queued", "sending", "completed"}

\* "none" for a user who is no recipient.
DeliveryStatus == {"none", "pending", "sent", "failed"}

Broadcast ==
    [status       : BroadcastStatus,
     sent_count   : Nat,
     failed_count : Nat,
     delivery     : [Users -> DeliveryStatus],
     attempts     : [Users -> Nat]]

\* The broadcast, the recipients still to serve, the one in hand and how the copy
\* went.
Batch ==
    [step    : {"idle", "deliver", "mark", "refresh"},
     id      : Nat,
     todo    : SUBSET Users,
     user    : SUBSET Users,
     outcome : {"none", "sent", "forbidden", "error"}]

NoBatch == [step |-> "idle", id |-> 0, todo |-> {}, user |-> {}, outcome |-> "none"]

Numbers == 1..MaxEvents

BroadcastsInit ==
    /\ broadcasts = <<>>
    /\ blocked = {}
    /\ batch = NoBatch
    /\ copies = [b \in Numbers |-> [u \in Users |-> 0]]
    /\ pauses = [b \in Numbers |-> [u \in Users |-> 0]]
    /\ uncounted = {}

BroadcastsTypes ==
    /\ broadcasts \in Seq(Broadcast) /\ Len(broadcasts) <= MaxEvents
    /\ blocked \subseteq Users
    /\ batch \in Batch
    /\ copies \in [Numbers -> [Users -> Nat]]
    /\ pauses \in [Numbers -> [Users -> Nat]]
    /\ uncounted \subseteq Numbers

Recipients(b, status) == {u \in Users : broadcasts[b].delivery[u] = status}

-----------------------------------------------------------------------------
\* A broadcast for some of the users; who has blocked the bot is left out.
Queue(targets) ==
    /\ Event
    /\ broadcasts' = Append(broadcasts,
          [status |-> "queued", sent_count |-> 0, failed_count |-> 0,
           delivery |-> [u \in Users |-> IF u \in targets \ blocked
                                         THEN "pending" ELSE "none"],
           attempts |-> [u \in Users |-> 0]])
    /\ UNCHANGED <<blocked, batch, copies, pauses, uncounted>>

Unfinished == {b \in DOMAIN broadcasts : broadcasts[b].status # "completed"}

\* The oldest unfinished broadcast.
Oldest(b) == b \in Unfinished /\ \A c \in Unfinished : b <= c

\* As many of these recipients as a batch holds.
BatchOf(some, of) ==
    /\ some \subseteq of
    /\ \/ Cardinality(some) = BatchSize
       \/ some = of /\ Cardinality(of) < BatchSize

\* Faulty variant: the batch is made up of those who have not got the message yet,
\* the ones who were given up among them.
ClaimBroadcastUnserved(b) ==
    /\ batch = NoBatch
    /\ Oldest(b)
    /\ Recipients(b, "pending") # {}
    /\ broadcasts' = [broadcasts EXCEPT ![b].status = "sending"]
    /\ \E some \in SUBSET Users :
          /\ BatchOf(some, Recipients(b, "pending") \cup Recipients(b, "failed"))
          /\ batch' = [NoBatch EXCEPT !.step = "deliver", !.id = b, !.todo = some]
    /\ Smooth
    /\ UNCHANGED <<blocked, copies, pauses, uncounted>>

\* It is sending from now on, and a batch of its pending recipients is read.
ClaimBroadcast(b) ==
    /\ batch = NoBatch
    /\ Oldest(b)
    /\ Recipients(b, "pending") # {}
    /\ broadcasts' = [broadcasts EXCEPT ![b].status = "sending"]
    /\ \E some \in SUBSET Users :
          /\ BatchOf(some, Recipients(b, "pending"))
          /\ batch' = [NoBatch EXCEPT !.step = "deliver", !.id = b, !.todo = some]
    /\ Smooth
    /\ UNCHANGED <<blocked, copies, pauses, uncounted>>

\* Faulty variant: only a broadcast that has begun can be completed.
CompleteBegun(b) ==
    /\ batch = NoBatch
    /\ Oldest(b)
    /\ broadcasts[b].status = "sending" /\ Recipients(b, "pending") = {}
    /\ broadcasts' = [broadcasts EXCEPT ![b].status = "completed"]
    /\ Smooth
    /\ UNCHANGED <<blocked, batch, copies, pauses, uncounted>>

\* Nobody is left: it is completed as it stands.
Complete(b) ==
    /\ batch = NoBatch
    /\ Oldest(b)
    /\ Recipients(b, "pending") = {}
    /\ broadcasts' = [broadcasts EXCEPT ![b].status = "completed"]
    /\ Smooth
    /\ UNCHANGED <<blocked, batch, copies, pauses, uncounted>>

Delivering(u) == batch.step = "deliver" /\ u \in batch.todo

Went(u, outcome) ==
    batch' = [batch EXCEPT !.step = "mark", !.todo = @ \ {u}, !.user = {u},
                           !.outcome = outcome]
Arrives(u) == copies' = [copies EXCEPT ![batch.id][u] = @ + 1]

DeliverCopy(u) ==
    /\ Delivering(u)
    /\ Arrives(u) /\ Went(u, "sent")
    /\ Smooth
    /\ UNCHANGED <<broadcasts, blocked, pauses, uncounted>>

\* The copy is one call and its buttons are a second one, which fails when the copy
\* has arrived.
ArrivesPerhaps(u) == Arrives(u) \/ UNCHANGED copies

\* The recipient has blocked the bot, or another error.
DeliveryFails(u) ==
    /\ Delivering(u)
    /\ Fails
    /\ ArrivesPerhaps(u)
    /\ \E outcome \in {"forbidden", "error"} : Went(u, outcome)
    /\ UNCHANGED <<broadcasts, blocked, pauses, uncounted>>

\* Telegram asks for a pause: the batch ends and nothing is recorded, so that a
\* later batch copies to the recipient again.
RetryAfter(u) ==
    /\ Delivering(u)
    /\ Fails
    /\ ArrivesPerhaps(u)
    /\ pauses' = [pauses EXCEPT ![batch.id][u] = @ + 1]
    /\ batch' = [batch EXCEPT !.step = "refresh", !.todo = {}]
    /\ UNCHANGED <<broadcasts, blocked, uncounted>>

\* Faulty variant: what happened is stored as it is.
OutcomeVerbatim(b, u) == batch.outcome

\* Faulty variant: the attempt that has just been made is not counted.
OutcomeUncounted(b, u) ==
    CASE batch.outcome = "sent" -> "sent"
      [] batch.outcome = "forbidden" -> "failed"
      [] broadcasts[b].attempts[u] >= MaxAttempts -> "failed"
      [] OTHER -> broadcasts[b].delivery[u]

\* The status of a recipient after the attempt that has just been made.
Outcome(b, u) ==
    CASE batch.outcome = "sent" -> "sent"
      [] batch.outcome = "forbidden" -> "failed"
      [] broadcasts[b].attempts[u] + 1 >= MaxAttempts -> "failed"
      [] OTHER -> broadcasts[b].delivery[u]

MarkDelivery(b, u) ==
    /\ batch.step = "mark" /\ batch.id = b /\ batch.user = {u}
    /\ broadcasts' = [broadcasts EXCEPT ![b].attempts[u] = @ + 1,
                                           ![b].delivery[u] = Outcome(b, u)]
    /\ blocked' = IF batch.outcome = "forbidden" THEN blocked \cup {u} ELSE blocked
    /\ batch' = [batch EXCEPT !.step = "deliver", !.user = {}, !.outcome = "none"]
    /\ Smooth
    /\ UNCHANGED <<copies, pauses, uncounted>>

\* Faulty variant: the end of the batch is taken for the end of the broadcast.
RefreshCountsHastily(b) ==
    /\ batch.id = b
    /\ batch.step = "refresh" \/ (batch.step = "deliver" /\ batch.todo = {})
    /\ broadcasts' = [broadcasts EXCEPT
          ![b].sent_count   = Cardinality(Recipients(b, "sent")),
          ![b].failed_count = Cardinality(Recipients(b, "failed")),
          ![b].status       = "completed"]
    /\ batch' = NoBatch
    /\ Smooth
    /\ UNCHANGED <<blocked, copies, pauses, uncounted>>

\* The batch is done: deliveries are counted, and without pending ones the
\* broadcast is completed.
RefreshCounts(b) ==
    /\ batch.id = b
    /\ batch.step = "refresh" \/ (batch.step = "deliver" /\ batch.todo = {})
    /\ broadcasts' = [broadcasts EXCEPT
          ![b].sent_count   = Cardinality(Recipients(b, "sent")),
          ![b].failed_count = Cardinality(Recipients(b, "failed")),
          ![b].status       = IF Recipients(b, "pending") = {} THEN "completed" ELSE @]
    /\ batch' = NoBatch
    /\ Smooth
    /\ UNCHANGED <<blocked, copies, pauses, uncounted>>

\* A batch that is lost leaves its last copy unrecorded and its marks uncounted.
BatchLost ==
    /\ uncounted' = IF batch = NoBatch THEN uncounted ELSE uncounted \cup {batch.id}
    /\ batch' = NoBatch
    /\ UNCHANGED <<broadcasts, blocked, copies, pauses>>

BatchSteps ==
    \/ \E b \in DOMAIN broadcasts :
          RefreshCounts(b) \/ \E u \in Users : MarkDelivery(b, u)
    \/ \E u \in Users : DeliverCopy(u) \/ DeliveryFails(u) \/ RetryAfter(u)

=============================================================================
