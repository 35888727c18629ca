----------------------------- MODULE WorkerProofs -----------------------------
(***************************************************************************)
(* What broadcasts record of themselves is what their recipients got,      *)
(* nobody is told twice of one incident, and nobody is marked as told      *)
(* without being so.                                                       *)
(***************************************************************************)
EXTENDS Worker, FiniteSetTheorems, TLAPS

-----------------------------------------------------------------------------
(***************************************************************************)
(* What moves a broadcast                                                  *)
(***************************************************************************)
BoundsGo == Event \/ Fails \/ Crashes \/ Smooth

\* The bounds keep their types, and events and crashes only grow.
LEMMA BoundsType ==
    ASSUME WorkerLoopTypes, BoundsGo
    PROVE  /\ WorkerLoopTypes'
           /\ events' \in Nat /\ crashes' \in Nat /\ events' <= MaxEvents
           /\ events' >= events /\ crashes' >= crashes
BY WorkerLoopAssumption
   DEF BoundsGo, Event, Fails, Crashes, Smooth, bounds, WorkerLoopTypes

BroadcastsWork ==
    \/ \E targets \in SUBSET Users : Queue(targets)
    \/ \E b \in DOMAIN broadcasts : ClaimBroadcast(b) \/ Complete(b)
    \/ BatchSteps
    \/ Crashes /\ BatchLost

\* The rest of the system leaves the broadcasts alone, and the bounds go on.
LEMMA BroadcastsMove ==
    ASSUME [Next]_vars
    PROVE  BroadcastsWork \/ (BoundsGo /\ UNCHANGED broadcastVars)
<1>1. ASSUME NEW p \in Processes, TaskSteps(p) PROVE BoundsGo
  BY <1>1 DEF TaskSteps, Verify, ListUnhealthy, Claim, ClaimRefused, Send, SendFails, Release,
     ListRefused, ListDeclined, BoundsGo
<1>2. ASSUME NEW p \in Processes, ErrandSteps(p) PROVE BoundsGo
  BY <1>2 DEF ErrandSteps, Alert, Resolve, Deliver, NothingToDeliver, ListResolutions, BoundsGo
<1>3. ASSUME NEW h \in Requests, Asks(h) \/ RequestWorks(h)
      PROVE  BoundsGo /\ UNCHANGED broadcastVars
  <2>1. CASE Asks(h)
    BY <2>1 DEF Asks, Renewed, Refused, GrantSucceeds, GrantFails, BoundsGo
  <2>2. CASE RequestWorks(h)
    BY <1>1, <1>2, <2>2 DEF RequestWorks, Processes
  <2> QED
    BY <1>3, <2>1, <2>2
<1>4. CASE AdministratorQueues
  BY <1>4 DEF AdministratorQueues, BroadcastsWork
<1>5. CASE Tick \/ UNCHANGED vars
  BY <1>5 DEF Tick, vars, BoundsGo, Smooth
<1>6. CASE AuditJob \/ ResolutionJob \/ OtherJob
  <2>1. CASE BroadcastJob
    BY <2>1 DEF BroadcastJob, BroadcastsWork
  <2>2. CASE AuditJob \/ ResolutionJob \/ ExpireJob \/ \E job \in Jobs : NoticeJob(job)
    BY <2>2 DEF AuditJob, ResolutionJob, ExpireJob, NoticeJob, BeginAudit, RetryResolutions,
       BeginExpire, ListDue, BoundsGo
  <2> QED
    BY <1>6, <2>1, <2>2 DEF OtherJob
<1>7. CASE WorkerWorks
  <2>1. Worker \in Processes
    BY DEF Processes
  <2>2. ASSUME ExpireSteps PROVE BoundsGo
    BY <2>2 DEF ExpireSteps, BeginStop, RuleStopped, RuleNotStopped, Revoke, RevokeFails,
       BoundsGo
  <2> QED
    BY <1>1, <1>2, <1>7, <2>1, <2>2 DEF WorkerWorks, BroadcastsWork
<1>8. ASSUME NEW p \in Processes,
             Lose(p) \/ (AlertSwallowed(p) /\ UNCHANGED <<notificationVars, broadcastVars>>)
      PROVE  BroadcastsWork \/ (BoundsGo /\ UNCHANGED broadcastVars)
  BY <1>8 DEF Lose, AlertSwallowed, BroadcastsWork, BoundsGo
<1> QED
  BY <1>3, <1>4, <1>5, <1>6, <1>7, <1>8 DEF Next

-----------------------------------------------------------------------------
(***************************************************************************)
(* Broadcasts                                                              *)
(***************************************************************************)
\* A batch belongs to a broadcast that is sending and is made up of recipients who are
\* pending; a copy is in hand only until it is recorded, and one that is recorded as sent
\* has arrived.
BatchSound ==
    /\ batch.step = "idle" => batch = NoBatch
    /\ batch.step # "idle" =>
          /\ batch.id \in DOMAIN broadcasts /\ broadcasts[batch.id].status = "sending"
          /\ \A u \in batch.todo \cup batch.user :
                broadcasts[batch.id].delivery[u] = "pending"
    /\ batch.todo \cap batch.user = {}
    /\ batch.step = "mark" =>
          \E u \in Users : /\ batch.user = {u}
                           /\ batch.outcome = "sent" => copies[batch.id][u] > 0
    /\ batch.step # "mark" => batch.user = {}

\* The counters are right when the worker has not a batch of it in hand.
CountsRight(b) ==
    /\ broadcasts[b].sent_count = Cardinality(Recipients(b, "sent"))
    /\ broadcasts[b].failed_count = Cardinality(Recipients(b, "failed"))

CountsSound ==
    \A b \in DOMAIN broadcasts :
        /\ broadcasts[b].status = "completed" => Recipients(b, "pending") = {}
        /\ b \notin uncounted /\ batch.id # b => CountsRight(b)

\* Nobody has got a copy of a broadcast that is not queued yet.
NoneAhead ==
    \A b \in Numbers, u \in Users : b > Len(broadcasts) => copies[b][u] = 0

BroadcastsInv ==
    /\ WorkerLoopTypes /\ BroadcastsTypes /\ Len(broadcasts) <= events
    /\ BatchSound /\ CountsSound /\ NoneAhead /\ CopiesAreAccounted /\ AttemptsAreLimited

\* The invariant of the broadcasts holds in the beginning.
LEMMA BroadcastsBegin == Init => BroadcastsInv
<1> SUFFICES ASSUME Init PROVE BroadcastsInv
  OBVIOUS
<1>1. /\ broadcasts = <<>> /\ batch = NoBatch /\ blocked = {} /\ uncounted = {}
      /\ copies = [b \in Numbers |-> [u \in Users |-> 0]]
      /\ pauses = [b \in Numbers |-> [u \in Users |-> 0]]
      /\ events = 0 /\ failures = 0 /\ crashes = 0
  BY DEF Init, BroadcastsInit, WorkerLoopInit
<1>2. WorkerLoopTypes /\ BroadcastsTypes /\ Len(broadcasts) <= events
  BY <1>1, WorkerLoopAssumption DEF WorkerLoopTypes, BroadcastsTypes, NoBatch, Batch
<1>3. BatchSound
  BY <1>1 DEF BatchSound, NoBatch
<1>4. CountsSound /\ NoneAhead /\ CopiesAreAccounted /\ AttemptsAreLimited
  BY <1>1 DEF CountsSound, NoneAhead, CopiesAreAccounted, AttemptsAreLimited
<1> QED
  BY <1>2, <1>3, <1>4 DEF BroadcastsInv

\* One row of the queue changes.
LEMMA RowChanged ==
    ASSUME broadcasts \in Seq(Broadcast), NEW b \in DOMAIN broadcasts, NEW r \in Broadcast,
           broadcasts' = [broadcasts EXCEPT ![b] = r]
    PROVE  /\ broadcasts' \in Seq(Broadcast)
           /\ DOMAIN broadcasts' = DOMAIN broadcasts /\ Len(broadcasts') = Len(broadcasts)
           /\ broadcasts'[b] = r
           /\ \A c \in DOMAIN broadcasts \ {b} : broadcasts'[c] = broadcasts[c]
OBVIOUS

\* The broadcasts of the queue are numbered.
LEMMA QueueNumbers ==
    ASSUME BroadcastsInv, NEW b \in DOMAIN broadcasts
    PROVE  b \in Numbers /\ b # 0 /\ broadcasts[b] \in Broadcast
BY WorkerLoopAssumption
   DEF BroadcastsInv, BroadcastsTypes, Numbers, WorkerLoopTypes

\* A broadcast that is queued has served nobody.
LEMMA QueueStep ==
    ASSUME BroadcastsInv, NEW targets \in SUBSET Users, Queue(targets)
    PROVE  BroadcastsInv'
<1> DEFINE r == [status |-> "queued", sent_count |-> 0, failed_count |-> 0,
                 delivery |-> [u \in Users |-> IF u \in targets \ blocked
                                               THEN "pending" ELSE "none"],
                 attempts |-> [u \in Users |-> 0]]
           n == Len(broadcasts) + 1
<1>1. /\ broadcasts' = Append(broadcasts, r) /\ Event
      /\ UNCHANGED <<blocked, batch, copies, pauses, uncounted>>
  BY DEF Queue
<1>2. r \in Broadcast
  BY DEF Broadcast, BroadcastStatus, DeliveryStatus
<1>r. /\ r.status = "queued" /\ r.sent_count = 0 /\ r.failed_count = 0
      /\ \A u \in Users : r.delivery[u] \in {"pending", "none"} /\ r.attempts[u] = 0
  OBVIOUS
<1> HIDE DEF r
<1>3. /\ WorkerLoopTypes' /\ crashes' = crashes /\ crashes \in Nat /\ MaxEvents \in Nat
      /\ events \in Nat /\ events' = events + 1 /\ events' <= MaxEvents
  BY <1>1, BoundsType, WorkerLoopAssumption DEF BoundsGo, BroadcastsInv, Event, WorkerLoopTypes
<1>4. broadcasts \in Seq(Broadcast) /\ Len(broadcasts) <= events
  BY DEF BroadcastsInv, BroadcastsTypes
<1>5. /\ broadcasts' \in Seq(Broadcast) /\ Len(broadcasts') = n
      /\ DOMAIN broadcasts' = DOMAIN broadcasts \cup {n}
      /\ broadcasts'[n] = r
      /\ \A b \in DOMAIN broadcasts : broadcasts'[b] = broadcasts[b] /\ b # n
  BY <1>1, <1>2, <1>4
<1>6. n \in Numbers /\ n <= MaxEvents /\ n <= events'
  BY <1>3, <1>4 DEF Numbers
<1>7. BroadcastsTypes' /\ Len(broadcasts') <= events'
  BY <1>1, <1>5, <1>6 DEF BroadcastsInv, BroadcastsTypes
<1>8. BatchSound'
  BY <1>1, <1>5 DEF BroadcastsInv, BatchSound
<1>9. \A b \in DOMAIN broadcasts : \A status :
         {u \in Users : broadcasts'[b].delivery[u] = status} = Recipients(b, status)
  BY <1>5 DEF Recipients
<1>10. CountsSound'
  <2>1. ASSUME NEW b \in DOMAIN broadcasts
        PROVE  /\ broadcasts'[b].status = "completed" => Recipients(b, "pending")' = {}
               /\ b \notin uncounted' /\ batch'.id # b => CountsRight(b)'
    BY <1>1, <1>5, <1>9, <2>1 DEF BroadcastsInv, CountsSound, CountsRight, Recipients
  <2>2. /\ broadcasts'[n].status # "completed"
        /\ Cardinality({u \in Users : broadcasts'[n].delivery[u] = "sent"}) = 0
        /\ Cardinality({u \in Users : broadcasts'[n].delivery[u] = "failed"}) = 0
    <3>1. /\ {u \in Users : r.delivery[u] = "sent"} = {}
          /\ {u \in Users : r.delivery[u] = "failed"} = {}
      BY <1>r
    <3> QED
      BY <1>5, <1>r, <3>1, FS_EmptySet
  <2>3. broadcasts'[n].sent_count = 0 /\ broadcasts'[n].failed_count = 0
    BY <1>5, <1>r
  <2> QED
    BY <1>5, <2>1, <2>2, <2>3 DEF CountsSound, CountsRight, Recipients
<1>11. NoneAhead'
  BY <1>1, <1>4, <1>5 DEF BroadcastsInv, NoneAhead, Numbers
<1>12. CopiesAreAccounted'
  <2>1. ASSUME NEW b \in DOMAIN broadcasts, NEW u \in Users
        PROVE  /\ broadcasts'[b].delivery[u] = "sent" => copies'[b][u] > 0
               /\ copies'[b][u] <= broadcasts'[b].attempts[u] + pauses'[b][u] + crashes'
                                   + (IF batch'.id = b /\ batch'.user = {u} THEN 1 ELSE 0)
    BY <1>1, <1>3, <1>5 DEF BroadcastsInv, CopiesAreAccounted, InFlight
  <2>2. ASSUME NEW u \in Users
        PROVE  /\ broadcasts'[n].delivery[u] # "sent"
               /\ copies'[n][u] = 0 /\ broadcasts'[n].attempts[u] = 0
               /\ pauses'[n][u] \in Nat
    <3>1. pauses' \in [Numbers -> [Users -> Nat]]
      BY <1>7 DEF BroadcastsTypes
    <3>2. broadcasts'[n].delivery[u] # "sent" /\ broadcasts'[n].attempts[u] = 0
      BY <1>5, <1>r
    <3>3. copies'[n][u] = 0
      BY <1>1, <1>4, <1>6 DEF BroadcastsInv, NoneAhead
    <3> QED
      BY <1>6, <3>1, <3>2, <3>3
  <2>3. ASSUME NEW u \in Users
        PROVE  copies'[n][u] <= broadcasts'[n].attempts[u] + pauses'[n][u] + crashes'
                                + (IF batch'.id = n /\ batch'.user = {u} THEN 1 ELSE 0)
    BY <1>3, <2>2
  <2>4. ASSUME NEW c \in DOMAIN broadcasts \cup {n}, NEW u \in Users
        PROVE  /\ broadcasts'[c].delivery[u] = "sent" => copies'[c][u] > 0
               /\ copies'[c][u] <= broadcasts'[c].attempts[u] + pauses'[c][u] + crashes'
                                   + (IF batch'.id = c /\ batch'.user = {u} THEN 1 ELSE 0)
    <3>1. CASE c \in DOMAIN broadcasts
      BY <2>1, <3>1
    <3>2. CASE c = n
      BY <2>2, <2>3, <3>2
    <3> QED
      BY <3>1, <3>2
  <2> QED
    BY <1>5, <2>4 DEF CopiesAreAccounted, InFlight
<1>13. AttemptsAreLimited'
  BY <1>5, <1>r, BroadcastsAssumption DEF BroadcastsInv, AttemptsAreLimited
<1> QED
  BY <1>3, <1>7, <1>8, <1>10, <1>11, <1>12, <1>13 DEF BroadcastsInv

\* What AttemptsAreLimited says of one recipient of this row.
TriesLeft(r, u) ==
    /\ r.attempts[u] <= MaxAttempts
    /\ r.delivery[u] = "pending" => r.attempts[u] < MaxAttempts

\* The other broadcasts, while the worker works on this one.
LEMMA OthersKept ==
    ASSUME BroadcastsInv, NEW b \in DOMAIN broadcasts, batch.id \in {0, b},
           NEW c \in DOMAIN broadcasts, c # b,
           broadcasts'[c] = broadcasts[c], copies'[c] = copies[c], pauses'[c] = pauses[c],
           UNCHANGED <<uncounted, crashes>>
    PROVE  /\ broadcasts'[c].status = "completed" => Recipients(c, "pending")' = {}
           /\ c \notin uncounted' => CountsRight(c)'
           /\ \A u \in Users :
                 /\ broadcasts'[c].delivery[u] = "sent" => copies'[c][u] > 0
                 /\ copies'[c][u] <= broadcasts'[c].attempts[u] + pauses'[c][u] + crashes'
                 /\ TriesLeft(broadcasts'[c], u)
<1>1. c # 0
  BY QueueNumbers
<1>2. c # batch.id
  BY <1>1
<1>3. \A status : Recipients(c, status)' = Recipients(c, status)
  BY DEF Recipients
<1>4. broadcasts'[c].status = "completed" => Recipients(c, "pending")' = {}
  BY <1>3 DEF BroadcastsInv, CountsSound
<1>5. c \notin uncounted' => CountsRight(c)'
  <2>1. c \notin uncounted => CountsRight(c)
    BY <1>2 DEF BroadcastsInv, CountsSound
  <2> QED
    BY <1>3, <2>1 DEF CountsRight
<1>6. ASSUME NEW u \in Users
      PROVE  /\ broadcasts'[c].delivery[u] = "sent" => copies'[c][u] > 0
             /\ copies'[c][u] <= broadcasts'[c].attempts[u] + pauses'[c][u] + crashes'
             /\ TriesLeft(broadcasts'[c], u)
  <2>1. ~InFlight(c, u)
    BY <1>2 DEF InFlight
  <2>2. broadcasts[c] \in Broadcast /\ crashes \in Nat /\ pauses[c][u] \in Nat
    BY QueueNumbers, WorkerLoopAssumption DEF BroadcastsInv, BroadcastsTypes, WorkerLoopTypes
  <2>3. broadcasts[c].attempts[u] \in Nat
    BY <2>2 DEF Broadcast
  <2>4. /\ broadcasts[c].delivery[u] = "sent" => copies[c][u] > 0
        /\ copies[c][u] <= broadcasts[c].attempts[u] + pauses[c][u] + crashes + 0
        /\ TriesLeft(broadcasts[c], u)
    BY <2>1 DEF BroadcastsInv, CopiesAreAccounted, AttemptsAreLimited, TriesLeft
  <2> QED
    BY <2>2, <2>3, <2>4
<1> QED
  BY <1>4, <1>5, <1>6

\* A step of the worker on one broadcast keeps all that is said of them, if it keeps
\* what is said of this one.
LEMMA OneBroadcast ==
    ASSUME BroadcastsInv, NEW b \in DOMAIN broadcasts, batch.id \in {0, b},
           NEW r \in Broadcast, broadcasts' = [broadcasts EXCEPT ![b] = r],
           UNCHANGED <<uncounted, crashes, events>>, WorkerLoopTypes', BroadcastsTypes',
           BatchSound',
           \A c \in Numbers : c # b => copies'[c] = copies[c] /\ pauses'[c] = pauses[c],
           r.status = "completed" => {u \in Users : r.delivery[u] = "pending"} = {},
           b \notin uncounted' /\ batch'.id # b =>
              /\ r.sent_count = Cardinality({u \in Users : r.delivery[u] = "sent"})
              /\ r.failed_count = Cardinality({u \in Users : r.delivery[u] = "failed"}),
           \A u \in Users :
              /\ r.delivery[u] = "sent" => copies'[b][u] > 0
              /\ copies'[b][u] <= r.attempts[u] + pauses'[b][u] + crashes'
                    + (IF batch'.id = b /\ batch'.user = {u} THEN 1 ELSE 0)
              /\ TriesLeft(r, u)
    PROVE  BroadcastsInv'
<1>0. broadcasts \in Seq(Broadcast) /\ Len(broadcasts) <= events /\ b \in Numbers
  BY QueueNumbers DEF BroadcastsInv, BroadcastsTypes
<1>1. /\ DOMAIN broadcasts' = DOMAIN broadcasts /\ Len(broadcasts') = Len(broadcasts)
      /\ broadcasts'[b] = r
      /\ \A c \in DOMAIN broadcasts : c # b => broadcasts'[c] = broadcasts[c]
  BY <1>0, RowChanged
<1>2. ASSUME NEW c \in DOMAIN broadcasts, c # b
      PROVE  /\ broadcasts'[c].status = "completed" => Recipients(c, "pending")' = {}
             /\ c \notin uncounted' => CountsRight(c)'
             /\ \A u \in Users :
                   /\ broadcasts'[c].delivery[u] = "sent" => copies'[c][u] > 0
                   /\ copies'[c][u] <= broadcasts'[c].attempts[u] + pauses'[c][u] + crashes'
                   /\ TriesLeft(broadcasts'[c], u)
  <2>1. copies'[c] = copies[c] /\ pauses'[c] = pauses[c]
    BY <1>2, QueueNumbers
  <2> QED
    BY <1>1, <1>2, <2>1, OthersKept
<1>3. CountsSound'
  <2>1. Recipients(b, "pending")' = {u \in Users : r.delivery[u] = "pending"}
    BY <1>1 DEF Recipients
  <2>2. b \notin uncounted' /\ batch'.id # b => CountsRight(b)'
    BY <1>1 DEF CountsRight, Recipients
  <2> QED
    BY <1>1, <1>2, <2>1, <2>2 DEF CountsSound
<1>4. NoneAhead'
  <2>1. ASSUME NEW c \in Numbers, NEW u \in Users, c > Len(broadcasts) PROVE copies'[c][u] = 0
    <3>1. c # b
      BY <1>0, <2>1
    <3> QED
      BY <2>1, <3>1 DEF BroadcastsInv, NoneAhead
  <2> QED
    BY <1>1, <2>1 DEF NoneAhead
<1>5. CopiesAreAccounted'
  <2>1. ASSUME NEW c \in DOMAIN broadcasts, NEW u \in Users, c # b
        PROVE  copies'[c][u] <= broadcasts'[c].attempts[u] + pauses'[c][u] + crashes'
                                + (IF batch'.id = c /\ batch'.user = {u} THEN 1 ELSE 0)
    <3>1. copies'[c][u] <= broadcasts'[c].attempts[u] + pauses'[c][u] + crashes'
      BY <1>2, <2>1
    <3>2. c \in Numbers /\ broadcasts'[c] \in Broadcast
      BY <1>1, <2>1, QueueNumbers
    <3>3. /\ copies'[c][u] \in Nat /\ pauses'[c][u] \in Nat /\ crashes' \in Nat
          /\ broadcasts'[c].attempts[u] \in Nat
      BY <3>2, WorkerLoopAssumption DEF BroadcastsTypes, Broadcast, WorkerLoopTypes
    <3> QED
      BY <3>1, <3>3
  <2> QED
    BY <1>1, <1>2, <2>1 DEF CopiesAreAccounted, InFlight
<1>6. AttemptsAreLimited'
  BY <1>1, <1>2 DEF AttemptsAreLimited, TriesLeft
<1> QED
  BY <1>0, <1>1, <1>3, <1>4, <1>5, <1>6 DEF BroadcastsInv

\* What the invariant says of one broadcast.
LEMMA RowSound ==
    ASSUME BroadcastsInv, NEW b \in DOMAIN broadcasts
    PROVE  /\ b \in Numbers /\ b # 0 /\ b \in Nat /\ broadcasts[b] \in Broadcast
           /\ broadcasts[b].delivery \in [Users -> DeliveryStatus]
           /\ broadcasts[b].attempts \in [Users -> Nat]
           /\ copies[b] \in [Users -> Nat] /\ pauses[b] \in [Users -> Nat] /\ crashes \in Nat
           /\ broadcasts[b].status = "completed" => Recipients(b, "pending") = {}
           /\ b \notin uncounted /\ batch.id # b => CountsRight(b)
           /\ \A u \in Users :
                 /\ broadcasts[b].delivery[u] = "sent" => copies[b][u] > 0
                 /\ copies[b][u] <= broadcasts[b].attempts[u] + pauses[b][u] + crashes
                                    + (IF InFlight(b, u) THEN 1 ELSE 0)
                 /\ TriesLeft(broadcasts[b], u)
<1>1. b \in Numbers /\ b # 0 /\ broadcasts[b] \in Broadcast
  BY QueueNumbers
<1>2. /\ b \in Nat /\ crashes \in Nat
      /\ copies[b] \in [Users -> Nat] /\ pauses[b] \in [Users -> Nat]
  BY <1>1, WorkerLoopAssumption
     DEF BroadcastsInv, BroadcastsTypes, WorkerLoopTypes, Numbers
<1>3. /\ broadcasts[b].delivery \in [Users -> DeliveryStatus]
      /\ broadcasts[b].attempts \in [Users -> Nat]
  BY <1>1 DEF Broadcast
<1> QED
  BY <1>1, <1>2, <1>3
     DEF BroadcastsInv, CountsSound, CopiesAreAccounted, AttemptsAreLimited, TriesLeft

\* The worker turns to a broadcast.
LEMMA ClaimStep ==
    ASSUME BroadcastsInv, NEW b \in DOMAIN broadcasts, ClaimBroadcast(b)
    PROVE  BroadcastsInv'
<1> DEFINE r == [broadcasts[b] EXCEPT !.status = "sending"]
<1>0. b \in Numbers /\ b # 0 /\ b \in Nat /\ broadcasts[b] \in Broadcast
  BY RowSound
<1>1. /\ broadcasts' = [broadcasts EXCEPT ![b] = r]
      /\ UNCHANGED <<blocked, copies, pauses, uncounted, events, failures, crashes>>
      /\ batch = NoBatch
  BY DEF ClaimBroadcast, Smooth, bounds
<1>2. /\ r \in Broadcast /\ r.status = "sending" /\ r.delivery = broadcasts[b].delivery
      /\ r.attempts = broadcasts[b].attempts
  BY <1>0 DEF Broadcast, BroadcastStatus
<1> HIDE DEF r
<1>3. broadcasts' \in Seq(Broadcast) /\ DOMAIN broadcasts' = DOMAIN broadcasts
      /\ Len(broadcasts') = Len(broadcasts) /\ broadcasts'[b] = r
  BY <1>1, <1>2, RowChanged DEF BroadcastsInv, BroadcastsTypes
<1>4. PICK some \in SUBSET Users :
         /\ some \subseteq Recipients(b, "pending")
         /\ batch' = [NoBatch EXCEPT !.step = "deliver", !.id = b, !.todo = some]
  BY DEF ClaimBroadcast, BatchOf
<1>5. /\ batch' \in Batch /\ batch'.step = "deliver" /\ batch'.id = b /\ batch'.user = {}
      /\ batch'.todo = some
  BY <1>0, <1>4 DEF NoBatch, Batch
<1>6. WorkerLoopTypes' /\ BroadcastsTypes'
  BY <1>1, <1>3, <1>5 DEF BroadcastsInv, BroadcastsTypes, WorkerLoopTypes
<1>7. BatchSound'
  BY <1>2, <1>3, <1>4, <1>5 DEF BatchSound, Recipients
<1>8. ASSUME NEW u \in Users
      PROVE  /\ r.delivery[u] = "sent" => copies'[b][u] > 0
             /\ copies'[b][u] <= r.attempts[u] + pauses'[b][u] + crashes'
                   + (IF batch'.id = b /\ batch'.user = {u} THEN 1 ELSE 0)
             /\ TriesLeft(r, u)
  <2>1. ~InFlight(b, u)
    BY <1>1 DEF InFlight, NoBatch
  <2> QED
    BY <1>1, <1>2, <1>5, <2>1, RowSound DEF TriesLeft
<1>9. batch.id = 0
  BY <1>1 DEF NoBatch
<1> QED
  BY <1>1, <1>2, <1>5, <1>6, <1>7, <1>8, <1>9, OneBroadcast

\* A broadcast without pending recipients is completed as it stands.
LEMMA CompleteStep ==
    ASSUME BroadcastsInv, NEW b \in DOMAIN broadcasts, Complete(b)
    PROVE  BroadcastsInv'
<1> DEFINE r == [broadcasts[b] EXCEPT !.status = "completed"]
<1>0. b \in Numbers /\ b # 0 /\ b \in Nat /\ broadcasts[b] \in Broadcast
  BY RowSound
<1>1. /\ broadcasts' = [broadcasts EXCEPT ![b] = r]
      /\ UNCHANGED <<blocked, batch, copies, pauses, uncounted, events, failures, crashes>>
      /\ batch = NoBatch /\ Recipients(b, "pending") = {}
  BY DEF Complete, Smooth, bounds
<1>2. /\ r \in Broadcast /\ r.delivery = broadcasts[b].delivery
      /\ r.attempts = broadcasts[b].attempts
      /\ r.sent_count = broadcasts[b].sent_count
      /\ r.failed_count = broadcasts[b].failed_count
  BY <1>0 DEF Broadcast, BroadcastStatus
<1> HIDE DEF r
<1>3. broadcasts' \in Seq(Broadcast) /\ Len(broadcasts') = Len(broadcasts)
  BY <1>1, <1>2, RowChanged DEF BroadcastsInv, BroadcastsTypes
<1>4. batch.id = 0 /\ batch.step = "idle" /\ batch.user = {}
  BY <1>1 DEF NoBatch
<1>5. WorkerLoopTypes' /\ BroadcastsTypes'
  BY <1>1, <1>3 DEF BroadcastsInv, BroadcastsTypes, WorkerLoopTypes
<1>6. BatchSound'
  BY <1>1, <1>4 DEF BatchSound, NoBatch
<1>7. {u \in Users : r.delivery[u] = "pending"} = {}
  BY <1>1, <1>2 DEF Recipients
<1>8. b \notin uncounted' =>
         /\ r.sent_count = Cardinality({u \in Users : r.delivery[u] = "sent"})
         /\ r.failed_count = Cardinality({u \in Users : r.delivery[u] = "failed"})
  <2>1. b \notin uncounted => CountsRight(b)
    BY <1>0, <1>4, RowSound
  <2> QED
    BY <1>1, <1>2, <2>1 DEF CountsRight, Recipients
<1>9. ASSUME NEW u \in Users
      PROVE  /\ r.delivery[u] = "sent" => copies'[b][u] > 0
             /\ copies'[b][u] <= r.attempts[u] + pauses'[b][u] + crashes'
                   + (IF batch'.id = b /\ batch'.user = {u} THEN 1 ELSE 0)
             /\ TriesLeft(r, u)
  <2>1. ~InFlight(b, u) /\ ~(batch'.user = {u})
    BY <1>1, <1>4 DEF InFlight
  <2> QED
    BY <1>1, <1>2, <2>1, RowSound DEF TriesLeft
<1> QED
  BY <1>1, <1>2, <1>4, <1>5, <1>6, <1>7, <1>8, <1>9, OneBroadcast

\* One copy, and what is left of a batch that Telegram has paused.
LEMMA DeliverStep ==
    ASSUME BroadcastsInv, NEW u \in Users, DeliverCopy(u) \/ DeliveryFails(u) \/ RetryAfter(u)
    PROVE  BroadcastsInv'
<1>0. /\ batch.step = "deliver" /\ batch.user = {} /\ batch.id \in DOMAIN broadcasts
      /\ broadcasts[batch.id].status = "sending" /\ batch \in Batch
      /\ u \in batch.todo
      /\ \A v \in batch.todo : broadcasts[batch.id].delivery[v] = "pending"
  BY DEF DeliverCopy, DeliveryFails, RetryAfter, Delivering, BroadcastsInv, BroadcastsTypes,
     BatchSound
<1> SUFFICES ASSUME NEW b \in DOMAIN broadcasts, b = batch.id PROVE BroadcastsInv'
  BY <1>0
<1> DEFINE r == broadcasts[b]
<1>1. /\ b \in Numbers /\ b # 0 /\ b \in Nat /\ r \in Broadcast
      /\ copies[b] \in [Users -> Nat] /\ pauses[b] \in [Users -> Nat] /\ crashes \in Nat
      /\ copies \in [Numbers -> [Users -> Nat]] /\ pauses \in [Numbers -> [Users -> Nat]]
  BY RowSound DEF BroadcastsInv, BroadcastsTypes
<1>2. /\ UNCHANGED <<broadcasts, blocked, uncounted>>
      /\ Smooth \/ Fails
  BY DEF DeliverCopy, DeliveryFails, RetryAfter
<1>3. /\ WorkerLoopTypes' /\ UNCHANGED <<broadcasts, blocked, uncounted, events, crashes>>
  BY <1>2, BoundsType DEF BoundsGo, BroadcastsInv, DeliverCopy, DeliveryFails, RetryAfter,
     Smooth, Fails, bounds
<1>4. broadcasts' = [broadcasts EXCEPT ![b] = r]
  BY <1>3 DEF BroadcastsInv, BroadcastsTypes
<1>5. ASSUME NEW v \in Users
      PROVE  /\ copies[b][v] \in Nat /\ r.attempts[v] \in Nat
             /\ pauses[b][v] \in Nat
             /\ copies[b][v] <= r.attempts[v] + pauses[b][v] + crashes
             /\ (r.delivery[v] = "sent" => copies[b][v] > 0)
             /\ TriesLeft(r, v)
  <2>1. ~InFlight(b, v)
    BY <1>0 DEF InFlight
  <2>2. /\ copies[b][v] <= r.attempts[v] + pauses[b][v] + crashes + 0
        /\ (r.delivery[v] = "sent" => copies[b][v] > 0) /\ TriesLeft(r, v)
    BY <2>1, RowSound
  <2> QED
    BY <1>1, <2>2 DEF Broadcast
<1>6. ASSUME BroadcastsTypes', BatchSound', batch'.id = b,
             \A c \in Numbers : c # b => copies'[c] = copies[c] /\ pauses'[c] = pauses[c],
             \A v \in Users : /\ copies[b][v] <= copies'[b][v]
                              /\ copies'[b][v] - pauses'[b][v] <= copies[b][v] - pauses[b][v]
                                    + (IF batch'.user = {v} THEN 1 ELSE 0)
      PROVE  BroadcastsInv'
  <2>1. ASSUME NEW v \in Users
        PROVE  /\ r.delivery[v] = "sent" => copies'[b][v] > 0
               /\ copies'[b][v] <= r.attempts[v] + pauses'[b][v] + crashes'
                     + (IF batch'.id = b /\ batch'.user = {v} THEN 1 ELSE 0)
               /\ TriesLeft(r, v)
    <3>1. copies'[b][v] \in Nat /\ pauses'[b][v] \in Nat
      BY <1>1, <1>6 DEF BroadcastsTypes
    <3> QED
      BY <1>1, <1>3, <1>5, <1>6, <3>1
  <2>2. r.status # "completed"
    BY <1>0
  <2> QED
    BY <1>1, <1>3, <1>4, <1>6, <2>1, <2>2, OneBroadcast
<1>7. /\ copies' \in [Numbers -> [Users -> Nat]]
      /\ \A c \in Numbers : c # b => copies'[c] = copies[c]
      /\ \A v \in Users : v # u => copies'[b][v] = copies[b][v]
      /\ copies'[b][u] \in {copies[b][u], copies[b][u] + 1}
      /\ Arrives(u) => copies'[b][u] = copies[b][u] + 1
  <2>1. CASE Arrives(u)
    <3> DEFINE k == copies[b][u] + 1
               row == [copies[b] EXCEPT ![u] = k]
    <3>1. row \in [Users -> Nat] /\ row[u] = k /\ \A v \in Users : v # u => row[v] = copies[b][v]
      BY <1>1
    <3>2. copies' = [copies EXCEPT ![b] = row]
      BY <2>1 DEF Arrives
    <3> HIDE DEF row
    <3> QED
      BY <1>1, <3>1, <3>2
  <2>2. CASE UNCHANGED copies /\ ~Arrives(u)
    BY <1>1, <2>2
  <2> QED
    BY <2>1, <2>2 DEF DeliverCopy, DeliveryFails, RetryAfter, ArrivesPerhaps
<1>8. ASSUME NEW outcome \in {"sent", "forbidden", "error"}, Went(u, outcome),
             outcome = "sent" => Arrives(u), UNCHANGED pauses
      PROVE  BroadcastsInv'
  <2>1. /\ batch' \in Batch /\ batch'.step = "mark" /\ batch'.id = b /\ batch'.user = {u}
        /\ batch'.outcome = outcome /\ batch'.todo = batch.todo \ {u}
    BY <1>0, <1>8 DEF Went, Batch
  <2>2. BroadcastsTypes'
    BY <1>3, <1>7, <1>8, <2>1 DEF BroadcastsInv, BroadcastsTypes
  <2>3. outcome = "sent" => copies'[b][u] > 0
    BY <1>1, <1>7, <1>8
  <2>4. BatchSound'
    BY <1>0, <1>3, <2>1, <2>3 DEF BatchSound
  <2>5. ASSUME NEW v \in Users
        PROVE  /\ copies[b][v] <= copies'[b][v]
               /\ copies'[b][v] - pauses'[b][v] <= copies[b][v] - pauses[b][v]
                     + (IF batch'.user = {v} THEN 1 ELSE 0)
    BY <1>1, <1>7, <1>8, <2>1
  <2> QED
    BY <1>6, <1>7, <1>8, <2>1, <2>2, <2>4, <2>5
<1>9. CASE RetryAfter(u)
  <2>1. /\ batch' \in Batch /\ batch'.step = "refresh" /\ batch'.id = b /\ batch'.user = {}
        /\ batch'.todo = {}
    BY <1>0, <1>9 DEF RetryAfter, Batch
  <2>2. /\ pauses' \in [Numbers -> [Users -> Nat]]
        /\ \A c \in Numbers : c # b => pauses'[c] = pauses[c]
        /\ \A v \in Users : v # u => pauses'[b][v] = pauses[b][v]
        /\ pauses'[b][u] = pauses[b][u] + 1
    <3> DEFINE k == pauses[b][u] + 1
               row == [pauses[b] EXCEPT ![u] = k]
    <3>1. row \in [Users -> Nat] /\ row[u] = k /\ \A v \in Users : v # u => row[v] = pauses[b][v]
      BY <1>1
    <3>2. pauses' = [pauses EXCEPT ![b] = row]
      BY <1>9 DEF RetryAfter
    <3> HIDE DEF row
    <3> QED
      BY <1>1, <3>1, <3>2
  <2>3. BroadcastsTypes'
    BY <1>3, <1>7, <2>1, <2>2 DEF BroadcastsInv, BroadcastsTypes
  <2>4. BatchSound'
    BY <1>0, <1>3, <2>1 DEF BatchSound
  <2>5. ASSUME NEW v \in Users
        PROVE  /\ copies[b][v] <= copies'[b][v]
               /\ copies'[b][v] - pauses'[b][v] <= copies[b][v] - pauses[b][v]
                     + (IF batch'.user = {v} THEN 1 ELSE 0)
    BY <1>1, <1>7, <2>1, <2>2
  <2> QED
    BY <1>6, <1>7, <2>1, <2>2, <2>3, <2>4, <2>5
<1> QED
  BY <1>8, <1>9 DEF DeliverCopy, DeliveryFails

\* The outcome of a copy is recorded.
LEMMA MarkStep ==
    ASSUME BroadcastsInv, NEW b \in DOMAIN broadcasts, NEW u \in Users, MarkDelivery(b, u)
    PROVE  BroadcastsInv'
<1> DEFINE status == Outcome(b, u)
           delivery == [broadcasts[b].delivery EXCEPT ![u] = status]
           attempts == [broadcasts[b].attempts EXCEPT ![u] = broadcasts[b].attempts[u] + 1]
           r == [broadcasts[b] EXCEPT !.attempts = attempts, !.delivery = delivery]
<1>0. /\ b \in Numbers /\ b # 0 /\ b \in Nat /\ broadcasts[b] \in Broadcast
      /\ broadcasts[b].delivery \in [Users -> DeliveryStatus]
      /\ broadcasts[b].attempts \in [Users -> Nat]
      /\ copies[b] \in [Users -> Nat] /\ pauses[b] \in [Users -> Nat] /\ crashes \in Nat
  BY RowSound
<1>1. /\ broadcasts' = [broadcasts EXCEPT ![b] = r]
      /\ UNCHANGED <<copies, pauses, uncounted, events, failures, crashes>>
      /\ batch.step = "mark" /\ batch.id = b /\ batch.user = {u}
      /\ batch' = [batch EXCEPT !.step = "deliver", !.user = {}, !.outcome = "none"]
      /\ blocked' = IF batch.outcome = "forbidden" THEN blocked \cup {u} ELSE blocked
  <2>1. broadcasts' = [broadcasts EXCEPT ![b] = r]
    BY <1>0, ZenonT(60) DEF MarkDelivery
  <2> QED
    BY <2>1 DEF MarkDelivery, Smooth, bounds
<1>2. /\ status \in DeliveryStatus
      /\ status = "sent" => batch.outcome = "sent" \/ broadcasts[b].delivery[u] = "sent"
      /\ status = "pending" => ~(broadcasts[b].attempts[u] + 1 >= MaxAttempts)
  BY <1>0 DEF Outcome, DeliveryStatus
<1>p. /\ broadcasts[b].delivery[u] = "pending" /\ u \notin batch.todo
      /\ \A v \in batch.todo : broadcasts[b].delivery[v] = "pending"
      /\ batch.todo \subseteq Users
  BY <1>1 DEF BroadcastsInv, BroadcastsTypes, BatchSound, Batch
<1>3. delivery \in [Users -> DeliveryStatus] /\ attempts \in [Users -> Nat]
  BY <1>0, <1>2
<1>4. /\ delivery[u] = status /\ \A v \in Users : v # u => delivery[v] = broadcasts[b].delivery[v]
      /\ attempts[u] = broadcasts[b].attempts[u] + 1
      /\ \A v \in Users : v # u => attempts[v] = broadcasts[b].attempts[v]
  BY <1>0
<1> HIDE DEF status, delivery, attempts
<1>5. /\ r \in Broadcast /\ r.delivery = delivery /\ r.attempts = attempts
      /\ r.status = broadcasts[b].status
  BY <1>0, <1>3 DEF Broadcast
<1> HIDE DEF r
<1>6. broadcasts' \in Seq(Broadcast) /\ DOMAIN broadcasts' = DOMAIN broadcasts
      /\ Len(broadcasts') = Len(broadcasts) /\ broadcasts'[b] = r
  BY <1>1, <1>5, RowChanged DEF BroadcastsInv, BroadcastsTypes
<1>7. /\ batch' \in Batch /\ batch'.step = "deliver" /\ batch'.id = b /\ batch'.user = {}
      /\ batch'.todo = batch.todo /\ broadcasts[b].status = "sending"
  BY <1>1 DEF BroadcastsInv, BroadcastsTypes, BatchSound, Batch
<1>8. blocked' \subseteq Users
  BY <1>1 DEF BroadcastsInv, BroadcastsTypes
<1>9. WorkerLoopTypes' /\ BroadcastsTypes'
  BY <1>1, <1>6, <1>7, <1>8 DEF BroadcastsInv, BroadcastsTypes, WorkerLoopTypes
<1>10. BatchSound'
  BY <1>p, <1>4, <1>5, <1>6, <1>7 DEF BatchSound
<1>11. batch.outcome = "sent" => copies[b][u] > 0
  BY <1>1 DEF BroadcastsInv, BatchSound
<1>12. ASSUME NEW v \in Users
       PROVE  /\ r.delivery[v] = "sent" => copies'[b][v] > 0
              /\ copies'[b][v] <= r.attempts[v] + pauses'[b][v] + crashes'
                    + (IF batch'.id = b /\ batch'.user = {v} THEN 1 ELSE 0)
              /\ TriesLeft(r, v)
  <2>1. /\ ~(batch'.user = {v}) /\ copies[b][v] \in Nat /\ pauses[b][v] \in Nat
        /\ broadcasts[b].attempts[v] \in Nat /\ MaxAttempts \in Nat
    BY <1>0, <1>7, BroadcastsAssumption
  <2>2. /\ broadcasts[b].delivery[v] = "sent" => copies[b][v] > 0
        /\ copies[b][v] <= broadcasts[b].attempts[v] + pauses[b][v] + crashes
                           + (IF InFlight(b, v) THEN 1 ELSE 0)
        /\ broadcasts[b].attempts[v] <= MaxAttempts
        /\ broadcasts[b].delivery[v] = "pending" => broadcasts[b].attempts[v] < MaxAttempts
    BY RowSound DEF TriesLeft
  <2>3. CASE v = u
    <3>1. TriesLeft(r, v)
      BY <1>p, <1>2, <1>4, <1>5, <2>1, <2>2, <2>3 DEF TriesLeft
    <3> QED
      BY <1>0, <1>1, <1>2, <1>4, <1>5, <1>11, <2>1, <2>2, <2>3, <3>1
  <2>4. CASE v # u
    <3>1. ~InFlight(b, v)
      BY <1>1, <2>4 DEF InFlight
    <3> QED
      BY <1>0, <1>1, <1>4, <1>5, <2>1, <2>2, <2>4, <3>1 DEF TriesLeft
  <2> QED
    BY <2>3, <2>4
<1>13. r.status # "completed"
  BY <1>5, <1>7
<1> QED
  BY <1>1, <1>5, <1>7, <1>9, <1>10, <1>12, <1>13, OneBroadcast

\* The end of a batch makes the counters right.
LEMMA RefreshStep ==
    ASSUME BroadcastsInv, NEW b \in DOMAIN broadcasts, RefreshCounts(b)
    PROVE  BroadcastsInv'
<1> DEFINE status == IF Recipients(b, "pending") = {} THEN "completed"
                     ELSE broadcasts[b].status
           sent   == Cardinality(Recipients(b, "sent"))
           failed == Cardinality(Recipients(b, "failed"))
           r == [broadcasts[b] EXCEPT !.sent_count = sent, !.failed_count = failed,
                                      !.status = status]
<1>0. b \in Numbers /\ b # 0 /\ b \in Nat /\ broadcasts[b] \in Broadcast
  BY RowSound
<1>1. /\ broadcasts' = [broadcasts EXCEPT ![b] = r]
      /\ UNCHANGED <<blocked, copies, pauses, uncounted, events, failures, crashes>>
      /\ batch.id = b /\ batch.user = {} /\ batch' = NoBatch
  <2>1. broadcasts' = [broadcasts EXCEPT ![b] = r]
    BY DEF RefreshCounts
  <2>2. /\ UNCHANGED <<blocked, copies, pauses, uncounted, events, failures, crashes>>
        /\ batch.id = b /\ batch' = NoBatch /\ batch.step \in {"refresh", "deliver"}
    BY DEF RefreshCounts, Smooth, bounds
  <2>3. batch.user = {}
    BY <2>2 DEF BroadcastsInv, BatchSound
  <2> QED
    BY <2>1, <2>2, <2>3
<1>2. sent \in Nat /\ failed \in Nat
  <2>1. IsFiniteSet(Recipients(b, "sent")) /\ IsFiniteSet(Recipients(b, "failed"))
    BY WorkerLoopAssumption, FS_Subset DEF Recipients
  <2> QED
    BY <2>1, FS_CardinalityType
<1>3. status \in BroadcastStatus /\ (status = "completed" /\ broadcasts[b].status # "completed" =>
         Recipients(b, "pending") = {})
  BY <1>0 DEF Broadcast, BroadcastStatus
<1> HIDE DEF status, sent, failed
<1>4. /\ r \in Broadcast /\ r.delivery = broadcasts[b].delivery
      /\ r.attempts = broadcasts[b].attempts
      /\ r.sent_count = sent /\ r.failed_count = failed /\ r.status = status
  BY <1>0, <1>2, <1>3 DEF Broadcast
<1> HIDE DEF r
<1>5. broadcasts' \in Seq(Broadcast) /\ Len(broadcasts') = Len(broadcasts)
  BY <1>1, <1>4, RowChanged DEF BroadcastsInv, BroadcastsTypes
<1>6. /\ batch' \in Batch /\ batch'.step = "idle" /\ batch'.id = 0 /\ batch'.user = {}
  BY <1>1 DEF NoBatch, Batch
<1>7. WorkerLoopTypes' /\ BroadcastsTypes'
  BY <1>1, <1>5, <1>6 DEF BroadcastsInv, BroadcastsTypes, WorkerLoopTypes
<1>8. BatchSound'
  BY <1>1, <1>6 DEF BatchSound, NoBatch
<1>9. \A s : {u \in Users : r.delivery[u] = s} = Recipients(b, s)
  BY <1>4 DEF Recipients
<1>10. r.status = "completed" => {u \in Users : r.delivery[u] = "pending"} = {}
  BY <1>3, <1>4, <1>9, RowSound
<1>11. /\ r.sent_count = Cardinality({u \in Users : r.delivery[u] = "sent"})
       /\ r.failed_count = Cardinality({u \in Users : r.delivery[u] = "failed"})
  BY <1>4, <1>9 DEF sent, failed
<1>12. ASSUME NEW u \in Users
       PROVE  /\ r.delivery[u] = "sent" => copies'[b][u] > 0
              /\ copies'[b][u] <= r.attempts[u] + pauses'[b][u] + crashes'
                    + (IF batch'.id = b /\ batch'.user = {u} THEN 1 ELSE 0)
              /\ TriesLeft(r, u)
  <2>1. ~InFlight(b, u) /\ ~(batch'.user = {u})
    BY <1>1, <1>6 DEF InFlight
  <2> QED
    BY <1>1, <1>4, <2>1, RowSound DEF TriesLeft
<1> QED
  BY <1>1, <1>4, <1>7, <1>8, <1>10, <1>11, <1>12, OneBroadcast

\* A lost batch leaves the copy in hand to the bound on the crashes, and its
\* broadcast uncounted.
LEMMA LostStep ==
    ASSUME BroadcastsInv, Crashes, BatchLost
    PROVE  BroadcastsInv'
<1>1. /\ UNCHANGED <<broadcasts, blocked, copies, pauses, events>> /\ batch' = NoBatch
      /\ uncounted' = IF batch = NoBatch THEN uncounted ELSE uncounted \cup {batch.id}
      /\ crashes' = crashes + 1 /\ crashes \in Nat
  BY WorkerLoopAssumption
     DEF Crashes, BatchLost, BroadcastsInv, WorkerLoopTypes
<1>2. batch # NoBatch => batch.id \in DOMAIN broadcasts
  BY DEF BroadcastsInv, BatchSound
<1>3. batch' \in Batch /\ batch'.step = "idle" /\ batch'.user = {} /\ batch'.id = 0
  BY <1>1 DEF NoBatch, Batch
<1>4. WorkerLoopTypes'
  BY BoundsType DEF BoundsGo, BroadcastsInv
<1>5. uncounted' \subseteq Numbers
  BY <1>1, <1>2, QueueNumbers DEF BroadcastsInv, BroadcastsTypes
<1>6. BroadcastsTypes' /\ Len(broadcasts') <= events'
  BY <1>1, <1>3, <1>5 DEF BroadcastsInv, BroadcastsTypes
<1>7. BatchSound'
  BY <1>1, <1>3 DEF BatchSound, NoBatch
<1>8. CountsSound'
  <2>1. ASSUME NEW b \in DOMAIN broadcasts
        PROVE  /\ broadcasts[b].status = "completed" => Recipients(b, "pending") = {}
               /\ b \notin uncounted' => CountsRight(b)
    <3>1. b \notin uncounted' => b \notin uncounted /\ batch.id # b
      <4>1. CASE batch = NoBatch
        BY <1>1, <4>1, RowSound DEF NoBatch
      <4>2. CASE batch # NoBatch
        BY <1>1, <4>2
      <4> QED
        BY <4>1, <4>2
    <3> QED
      BY <3>1, RowSound
  <2> QED
    BY <1>1, <2>1 DEF CountsSound, CountsRight, Recipients
<1>9. NoneAhead'
  BY <1>1 DEF BroadcastsInv, NoneAhead
<1>10. CopiesAreAccounted'
  <2>1. ASSUME NEW b \in DOMAIN broadcasts, NEW u \in Users
        PROVE  /\ broadcasts[b].delivery[u] = "sent" => copies[b][u] > 0
               /\ copies[b][u] <= broadcasts[b].attempts[u] + pauses[b][u] + crashes'
                                  + (IF batch'.id = b /\ batch'.user = {u} THEN 1 ELSE 0)
    <3>1. /\ copies[b][u] \in Nat /\ pauses[b][u] \in Nat
          /\ broadcasts[b].attempts[u] \in Nat
      BY RowSound
    <3>2. /\ broadcasts[b].delivery[u] = "sent" => copies[b][u] > 0
          /\ copies[b][u] <= broadcasts[b].attempts[u] + pauses[b][u] + crashes
                             + (IF InFlight(b, u) THEN 1 ELSE 0)
      BY RowSound
    <3> QED
      BY <1>1, <3>1, <3>2
  <2> QED
    BY <1>1, <2>1 DEF CopiesAreAccounted, InFlight
<1>11. AttemptsAreLimited'
  BY <1>1 DEF BroadcastsInv, AttemptsAreLimited
<1> QED
  BY <1>4, <1>6, <1>7, <1>8, <1>9, <1>10, <1>11 DEF BroadcastsInv

\* The invariant of the broadcasts is inductive.
LEMMA BroadcastsStep ==
    ASSUME BroadcastsInv, [Next]_vars
    PROVE  BroadcastsInv'
<1>1. CASE BroadcastsWork
  BY <1>1, QueueStep, ClaimStep, CompleteStep, DeliverStep, MarkStep, RefreshStep, LostStep
     DEF BroadcastsWork, BatchSteps
<1>2. CASE BoundsGo /\ UNCHANGED broadcastVars
  <2>1. /\ WorkerLoopTypes' /\ events' >= events /\ crashes' >= crashes
        /\ events \in Nat /\ events' \in Nat /\ crashes \in Nat /\ crashes' \in Nat
    BY <1>2, BoundsType, WorkerLoopAssumption DEF BroadcastsInv, WorkerLoopTypes
  <2>2. UNCHANGED <<broadcasts, blocked, batch, copies, pauses, uncounted>>
    BY <1>2 DEF broadcastVars
  <2>3. BroadcastsTypes' /\ BatchSound' /\ CountsSound' /\ NoneAhead' /\ AttemptsAreLimited'
    <3>1. BroadcastsTypes' /\ NoneAhead' /\ AttemptsAreLimited'
      BY <2>2 DEF BroadcastsInv, BroadcastsTypes, NoneAhead, AttemptsAreLimited
    <3>2. BatchSound'
      BY <2>2 DEF BroadcastsInv, BatchSound
    <3>3. CountsSound'
      BY <2>2 DEF BroadcastsInv, CountsSound, CountsRight, Recipients
    <3> QED
      BY <3>1, <3>2, <3>3
  <2>4. Len(broadcasts') <= events'
    BY <2>1, <2>2 DEF BroadcastsInv, BroadcastsTypes
  <2>5. CopiesAreAccounted'
    <3>1. ASSUME NEW b \in DOMAIN broadcasts, NEW u \in Users
          PROVE  /\ broadcasts[b].delivery[u] = "sent" => copies[b][u] > 0
                 /\ copies[b][u] <= broadcasts[b].attempts[u] + pauses[b][u] + crashes'
                                    + (IF batch.id = b /\ batch.user = {u} THEN 1 ELSE 0)
      <4>1. /\ copies[b][u] \in Nat /\ pauses[b][u] \in Nat
            /\ broadcasts[b].attempts[u] \in Nat
        BY RowSound
      <4>2. /\ broadcasts[b].delivery[u] = "sent" => copies[b][u] > 0
            /\ copies[b][u] <= broadcasts[b].attempts[u] + pauses[b][u] + crashes
                               + (IF InFlight(b, u) THEN 1 ELSE 0)
        BY RowSound
      <4> QED
        BY <2>1, <4>1, <4>2 DEF InFlight
    <3> QED
      BY <2>2, <3>1 DEF CopiesAreAccounted, InFlight
  <2> QED
    BY <2>1, <2>3, <2>4, <2>5 DEF BroadcastsInv
<1> QED
  BY <1>1, <1>2, BroadcastsMove

\* The invariant of the broadcasts.
THEOREM BroadcastsCorrect == Spec => []BroadcastsInv
BY BroadcastsBegin, BroadcastsStep, PTL DEF Spec

\* What a broadcast records of itself is what its recipients got: whoever is
\* recorded as served has it, nobody gets more copies than attempts and pauses were
\* counted and workers lost, nobody is tried more often than the limit says, and the
\* counters of a finished broadcast are right unless a batch of it was lost.
THEOREM BroadcastsAlwaysAddUp == Spec => []BroadcastsAddUp
<1>1. BroadcastsInv => BroadcastsAddUp
  <2> SUFFICES ASSUME BroadcastsInv PROVE FinishedMeansCounted
    BY DEF BroadcastsInv, BroadcastsAddUp
  <2> SUFFICES ASSUME NEW b \in DOMAIN broadcasts, broadcasts[b].status = "completed"
               PROVE  /\ Recipients(b, "pending") = {}
                      /\ b \notin uncounted => CountsRight(b)
    BY DEF FinishedMeansCounted, CountsRight
  <2>1. batch.id # b
    <3>1. CASE batch.step = "idle"
      BY <3>1, RowSound DEF BroadcastsInv, BatchSound, NoBatch
    <3>2. CASE batch.step # "idle"
      BY <3>2 DEF BroadcastsInv, BatchSound
    <3> QED
      BY <3>1, <3>2
  <2> QED
    BY <2>1, RowSound
<1> QED
  BY <1>1, BroadcastsCorrect, PTL

\* Whoever is recorded as served or given up gets no further copy, in whichever batch,
\* after whatever pauses and losses: a copy goes to a member of the batch, and these
\* are pending as long as it lasts.
THEOREM ServedAlwaysLeftAlone == Spec => ServedAreLeftAlone
<1>1. ASSUME BroadcastsInv, [Next]_vars,
             NEW b \in DOMAIN broadcasts, NEW u \in Users,
             broadcasts[b].delivery[u] # "pending"
      PROVE  copies'[b][u] = copies[b][u]
  <2>1. CASE UNCHANGED copies
    BY <2>1
  <2>2. ASSUME NEW v \in Users, DeliverCopy(v) \/ DeliveryFails(v) \/ RetryAfter(v), Arrives(v)
        PROVE  copies'[b][u] = copies[b][u]
    <3>1. /\ batch.step = "deliver" /\ v \in batch.todo
      BY <2>2 DEF DeliverCopy, DeliveryFails, RetryAfter, Delivering
    <3>2. batch.id \in DOMAIN broadcasts /\ broadcasts[batch.id].delivery[v] = "pending"
      BY <1>1, <3>1 DEF BroadcastsInv, BatchSound
    <3>3. ~(b = batch.id /\ u = v)
      BY <1>1, <3>2
    <3>4. copies' = [copies EXCEPT ![batch.id] = [copies[batch.id] EXCEPT ![v] =
                                                     copies[batch.id][v] + 1]]
      BY <2>2 DEF Arrives
    <3>5. copies \in [Numbers -> [Users -> Nat]] /\ b \in Numbers /\ batch.id \in Numbers
      BY <1>1, <3>2, QueueNumbers DEF BroadcastsInv, BroadcastsTypes
    <3> QED
      BY <3>3, <3>4, <3>5
  <2>3. CASE BroadcastsWork
    <3>1. CASE UNCHANGED copies
      BY <3>1
    <3>2. CASE BatchSteps
      BY <2>1, <2>2, <3>2 DEF BatchSteps, DeliverCopy, DeliveryFails, RetryAfter,
         ArrivesPerhaps, RefreshCounts, MarkDelivery
    <3> QED
      BY <2>3, <3>1, <3>2 DEF BroadcastsWork, Queue, ClaimBroadcast, Complete, BatchLost
  <2> QED
    BY <1>1, <2>1, <2>3, BroadcastsMove DEF broadcastVars
<1>2. BroadcastsInv /\ [Next]_vars =>
         [\A b \in DOMAIN broadcasts, u \in Users :
             broadcasts[b].delivery[u] # "pending" => copies'[b][u] = copies[b][u]]_vars
  BY <1>1
<1> QED
  BY <1>2, BroadcastsCorrect, PTL DEF Spec, ServedAreLeftAlone


-----------------------------------------------------------------------------
(***************************************************************************)
(* Notices: the state they are told from                                   *)
(***************************************************************************)
SubjectsOf(job) == IF job = "declined" THEN Payments ELSE Subs

\* A task that claims, sends or releases has subjects of its job in hand, and so
\* has one that asks for the answers of STATUS.
Fits(t) ==
    /\ t.step = "verify" => t.job = "rule"
    /\ t.step \in {"claim", "send", "release"} =>
          t.job \in Jobs /\ t.todo \subseteq SubjectsOf(t.job)
    /\ t.step \in {"send", "release"} => t.subject \in SubjectsOf(t.job)

Quiet(t) == t.step \notin {"send", "release"}

TasksFit == \A p \in Processes : Fits(task[p])

\* Who is about to send a message that counts for the present incident.
Sends(t, n) == t.step = "send" /\ <<t.job, t.subject>> = n /\ n[2] \in t.current
Senders(n) == {p \in Processes : Sends(task[p], n)}

\* Every message that arrived or is about to was claimed under a mark that was
\* released since, or that is still in the row.
Tally ==
    \A n \in Notices :
        heard[n].told + Cardinality(Senders(n))
           <= heard[n].released + (IF Marked(n[1], n[2]) THEN 1 ELSE 0)

NoticesInv == NotificationsTypes /\ TasksFit /\ Tally /\ MarksAreTrue

\* A notice is of a job and of a subject of that job.
LEMMA NoticeShape ==
    ASSUME NEW n \in Notices
    PROVE  n[1] \in Jobs /\ n[2] \in SubjectsOf(n[1]) /\ n = <<n[1], n[2]>>
BY DEF Notices, Jobs, MemberJobs, AdminJobs, SubjectsOf

\* And every such pair is a notice.
LEMMA ShapeIsNotice ==
    ASSUME NEW job \in Jobs, NEW x \in SubjectsOf(job)
    PROVE  <<job, x>> \in Notices /\ x \in Subject /\ <<job, x>>[1] = job /\ <<job, x>>[2] = x
BY DEF Notices, Jobs, SubjectsOf, Subject

\* An idle process has nothing in hand.
LEMMA IdleTaskFits == IdleTask \in Task /\ Fits(IdleTask) /\ Quiet(IdleTask)
BY DEF IdleTask, Task, Fits, Quiet

\* A task that goes on is about to claim, or idle.
LEMMA OnwardFits ==
    ASSUME NEW p, NEW t \in Task, t.job \in Jobs, t.todo \subseteq SubjectsOf(t.job)
    PROVE  Onward(p, t) \in Task /\ Fits(Onward(p, t)) /\ Quiet(Onward(p, t))
<1>1. [t EXCEPT !.step = "claim", !.subject = None] \in Task
  BY DEF Task
<1> QED
  BY <1>1, IdleTaskFits DEF Onward, Fits, Quiet, Task

\* Finitely many processes are about to send.
LEMMA SendersFinite ==
    ASSUME NEW n
    PROVE  IsFiniteSet(Senders(n)) /\ Cardinality(Senders(n)) \in Nat
<1>1. IsFiniteSet(Processes)
  BY WorkerLoopAssumption, FS_AddElement DEF Processes
<1>2. IsFiniteSet(Senders(n))
  BY <1>1, FS_Subset DEF Senders
<1> QED
  BY <1>2, FS_CardinalityType

\* One process takes a step: who sends n changes by it at most.
LEMMA SendersChange ==
    ASSUME NEW p \in Processes, NEW t, NEW n, task \in [Processes -> Task],
           task' = [task EXCEPT ![p] = t]
    PROVE  /\ Cardinality(Senders(n)') \in Nat
           /\ Cardinality(Senders(n)') <= Cardinality(Senders(n)) + 1
           /\ ~Sends(t, n) => Cardinality(Senders(n)') <= Cardinality(Senders(n))
           /\ Sends(task[p], n) /\ ~Sends(t, n)
                 => Cardinality(Senders(n)') + 1 = Cardinality(Senders(n))
<1>1. Senders(n)' = IF Sends(t, n) THEN Senders(n) \cup {p} ELSE Senders(n) \ {p}
  <2>1. \A q \in Processes : task'[q] = IF q = p THEN t ELSE task[q]
    OBVIOUS
  <2>2. Senders(n)' = {q \in Processes : Sends(task'[q], n)}
    BY DEF Senders, Sends
  <2> QED
    BY <2>1, <2>2 DEF Senders
<1>2. p \in Senders(n) <=> Sends(task[p], n)
  BY DEF Senders
<1>3. /\ IsFiniteSet(Senders(n)) /\ Cardinality(Senders(n)) \in Nat
  BY SendersFinite
<1>4. /\ Cardinality(Senders(n) \cup {p})
            = IF p \in Senders(n) THEN Cardinality(Senders(n)) ELSE Cardinality(Senders(n)) + 1
      /\ Cardinality(Senders(n) \ {p})
            = IF p \in Senders(n) THEN Cardinality(Senders(n)) - 1 ELSE Cardinality(Senders(n))
      /\ Cardinality(Senders(n) \ {p}) \in Nat
  BY <1>3, FS_AddElement, FS_RemoveElement, FS_CardinalityType
<1> QED
  BY <1>1, <1>2, <1>3, <1>4

-----------------------------------------------------------------------------
(***************************************************************************)
(* Notices: the ways a step may change what they are told from             *)
(***************************************************************************)
SameAlerts == \A q \in Payments : payment'[q] = "alerted" <=> payment[q] = "alerted"

\* One process goes on to something else than sending; the marks stay.
LEMMA QuietStep ==
    ASSUME NoticesInv, NEW p \in Processes, NEW t \in Task, Fits(t), Quiet(t), Quiet(task[p]),
           task' = [task EXCEPT ![p] = t], UNCHANGED <<sub, heard>>, clock' \in Nat,
           payment' \in [Payments -> PaymentState], SameAlerts
    PROVE  NoticesInv'
<1>1. task \in [Processes -> Task] /\ \A q \in Processes : task'[q] = IF q = p THEN t ELSE task[q]
  BY DEF NoticesInv, NotificationsTypes
<1>2. NotificationsTypes'
  BY <1>1 DEF NoticesInv, NotificationsTypes
<1>3. TasksFit'
  BY <1>1 DEF NoticesInv, TasksFit, Fits
<1>4. \A n \in Notices : Marked(n[1], n[2])' = Marked(n[1], n[2])
  BY NoticeShape DEF Marked, SameAlerts, SubjectsOf
<1>5. ASSUME NEW n \in Notices
      PROVE  heard'[n].told + Cardinality(Senders(n)')
                <= heard'[n].released + (IF Marked(n[1], n[2])' THEN 1 ELSE 0)
  <2>1. ~Sends(t, n)
    BY DEF Sends, Quiet
  <2>2. Cardinality(Senders(n)') \in Nat /\ Cardinality(Senders(n)') <= Cardinality(Senders(n))
    BY <1>1, <2>1, SendersChange
  <2>3. heard[n].told \in Nat /\ heard[n].released \in Nat /\ Cardinality(Senders(n)) \in Nat
    BY SendersFinite DEF NoticesInv, NotificationsTypes, Heard
  <2>4. heard[n].told + Cardinality(Senders(n))
           <= heard[n].released + (IF Marked(n[1], n[2]) THEN 1 ELSE 0)
    BY DEF NoticesInv, Tally
  <2> QED
    BY <1>4, <2>2, <2>3, <2>4
<1>6. ASSUME NEW n \in Notices, InHand(n) PROVE InHand(n)'
  <2>1. PICK q \in Processes : task[q].step \in {"send", "release"}
                               /\ Hand(q) = n /\ n[2] \in task[q].current
    BY <1>6 DEF InHand
  <2>2. q # p
    BY <2>1 DEF Quiet
  <2> QED
    BY <1>1, <2>1, <2>2 DEF InHand, Hand
<1>7. MarksAreTrue'
  BY <1>4, <1>6 DEF NoticesInv, MarksAreTrue
<1>8. Tally'
  BY <1>5 DEF Tally
<1> QED
  BY <1>2, <1>3, <1>7, <1>8 DEF NoticesInv

\* Only time passes.
LEMMA QuietStutter ==
    ASSUME NoticesInv, UNCHANGED <<sub, payment, task, heard>>, clock' \in Nat
    PROVE  NoticesInv'
<1>1. NotificationsTypes' /\ TasksFit'
  BY DEF NoticesInv, NotificationsTypes, TasksFit, Fits
<1>2. Tally'
  BY DEF NoticesInv, Tally, Senders, Sends, Marked
<1>3. MarksAreTrue'
  BY DEF NoticesInv, MarksAreTrue, Marked, InHand, Hand
<1> QED
  BY <1>1, <1>2, <1>3 DEF NoticesInv

\* The mark of a job as a field of a row.
Mark(row, job) == row[MarkOf[job]]

\* Which field is the mark of which job.
LEMMA MarkFields ==
    ASSUME NEW row
    PROVE  /\ Mark(row, "failed")   = row.payment_failed_user_notified_at
           /\ Mark(row, "reminder") = row.grace_reminder_notified_at
           /\ Mark(row, "revoked")  = row.access_revoked_notified_at
           /\ Mark(row, "rule")     = row.provider_recurring_alerted_at
           /\ Mark(row, "shutdown") = row.shutdown_alerted_at
BY DEF Mark, MarkOf

\* A row is rewritten: the marks of the given jobs are cleared and begin anew, the
\* others stay.
LEMMA RewriteStep ==
    ASSUME NoticesInv, NEW p \in Processes, NEW t \in Task, Fits(t), Quiet(t), Quiet(task[p]),
           NEW s \in Subs, NEW row \in SubscriptionRow, NEW jobs \in SUBSET (Jobs \ {"declined"}),
           Rewrites(s, row, jobs, [task EXCEPT ![p] = t]), clock' = clock,
           payment' \in [Payments -> PaymentState], SameAlerts,
           \A job \in jobs : ~Mark(row, job),
           \A job \in Jobs \ (jobs \cup {"declined"}) : Mark(row, job) = Mark(sub[s], job)
    PROVE  NoticesInv'
<1> DEFINE tasks == [task EXCEPT ![p] = t]
           Reset(n) == n[1] \in jobs /\ n[2] = s
<1>1. /\ sub' = [sub EXCEPT ![s] = row]
      /\ heard' = [n \in Notices |-> IF Reset(n) THEN Unheard ELSE heard[n]]
      /\ task' = [q \in Processes |->
            IF tasks[q].job \in jobs
            THEN [tasks[q] EXCEPT !.current = tasks[q].current \ {s}] ELSE tasks[q]]
  BY DEF Rewrites
<1>2. /\ task \in [Processes -> Task] /\ tasks \in [Processes -> Task]
      /\ \A q \in Processes : tasks[q] = IF q = p THEN t ELSE task[q]
  BY DEF NoticesInv, NotificationsTypes
<1>3. \A q \in Processes :
          /\ task'[q] \in Task /\ task'[q].job = tasks[q].job /\ task'[q].step = tasks[q].step
          /\ task'[q].todo = tasks[q].todo /\ task'[q].subject = tasks[q].subject
          /\ task'[q].current = IF tasks[q].job \in jobs THEN tasks[q].current \ {s}
                                ELSE tasks[q].current
  <2>1. ASSUME NEW u \in Task, NEW v, v = [u EXCEPT !.current = u.current \ {s}]
        PROVE  /\ v \in Task /\ v.job = u.job /\ v.step = u.step /\ v.todo = u.todo
               /\ v.subject = u.subject /\ v.current = u.current \ {s}
    BY <2>1 DEF Task
  <2> QED
    BY <1>1, <1>2, <2>1
<1>4. TasksFit'
  BY <1>2, <1>3 DEF NoticesInv, TasksFit, Fits
<1>5. NotificationsTypes'
  <2>1. heard' \in [Notices -> Heard]
    BY <1>1 DEF NoticesInv, NotificationsTypes, Unheard, Heard
  <2>2. task' \in [Processes -> Task]
    BY <1>1, <1>3
  <2>3. sub' \in [Subs -> SubscriptionRow]
    BY <1>1 DEF NoticesInv, NotificationsTypes
  <2> QED
    BY <2>1, <2>2, <2>3 DEF NoticesInv, NotificationsTypes
<1>6. \A n \in Notices : /\ Reset(n) => ~Marked(n[1], n[2])'
                         /\ ~Reset(n) => Marked(n[1], n[2])' = Marked(n[1], n[2])
  <2> SUFFICES ASSUME NEW n \in Notices
               PROVE  /\ Reset(n) => ~Marked(n[1], n[2])'
                      /\ ~Reset(n) => Marked(n[1], n[2])' = Marked(n[1], n[2])
    OBVIOUS
  <2>1. n[1] \in Jobs /\ n[2] \in SubjectsOf(n[1])
    BY NoticeShape
  <2>2. CASE n[1] = "declined"
    BY <2>1, <2>2 DEF Marked, SameAlerts, SubjectsOf
  <2>3. CASE n[1] # "declined"
    <3>1. n[2] \in Subs /\ sub'[n[2]] = IF n[2] = s THEN row ELSE sub[n[2]]
      BY <1>1, <2>1, <2>3 DEF SubjectsOf, NoticesInv, NotificationsTypes
    <3>2. /\ Marked(n[1], n[2])' = Mark(sub'[n[2]], n[1])
          /\ Marked(n[1], n[2]) = Mark(sub[n[2]], n[1])
      BY <2>3 DEF Marked, Mark
    <3>3. CASE n[2] # s
      BY <3>1, <3>2, <3>3
    <3>4. CASE n[2] = s
      BY <2>1, <2>3, <3>1, <3>2, <3>4
    <3> QED
      BY <3>3, <3>4
  <2> QED
    BY <2>2, <2>3
<1>7. \A n \in Notices : heard'[n] = IF Reset(n) THEN Unheard ELSE heard[n]
  BY <1>1
<1>8. ASSUME NEW n \in Notices
      PROVE  heard'[n].told + Cardinality(Senders(n)')
                <= heard'[n].released + (IF Marked(n[1], n[2])' THEN 1 ELSE 0)
  <2>1. CASE Reset(n)
    <3>1. ASSUME NEW q \in Processes, Sends(task[q], n)' PROVE FALSE
      <4>1. task'[q].job = n[1] /\ n[2] \in task'[q].current
        BY <3>1 DEF Sends
      <4> QED
        BY <1>3, <2>1, <4>1
    <3>2. Senders(n)' = {}
      BY <3>1 DEF Senders
    <3> QED
      BY <1>6, <1>7, <2>1, <3>2, FS_EmptySet DEF Unheard
  <2>2. CASE ~Reset(n)
    <3>1. Senders(n)' \subseteq Senders(n)
      BY <1>2, <1>3 DEF Senders, Sends, Quiet
    <3>2. Cardinality(Senders(n)') \in Nat /\ Cardinality(Senders(n)') <= Cardinality(Senders(n))
      BY <3>1, SendersFinite, FS_Subset, FS_CardinalityType
    <3>3. heard[n].told \in Nat /\ heard[n].released \in Nat /\ Cardinality(Senders(n)) \in Nat
      BY SendersFinite DEF NoticesInv, NotificationsTypes, Heard
    <3>4. heard[n].told + Cardinality(Senders(n))
             <= heard[n].released + (IF Marked(n[1], n[2]) THEN 1 ELSE 0)
      BY DEF NoticesInv, Tally
    <3> QED
      BY <1>6, <1>7, <2>2, <3>2, <3>3, <3>4
  <2> QED
    BY <2>1, <2>2
<1>9. ASSUME NEW n \in Notices, ~Reset(n), InHand(n) PROVE InHand(n)'
  <2>1. PICK q \in Processes : task[q].step \in {"send", "release"}
                               /\ Hand(q) = n /\ n[2] \in task[q].current
    BY <1>9 DEF InHand
  <2>2. q # p
    BY <2>1 DEF Quiet
  <2>3. n[2] \in task'[q].current
    BY <1>2, <1>3, <1>9, <2>1, <2>2 DEF Hand
  <2> QED
    BY <1>2, <1>3, <2>1, <2>2, <2>3 DEF InHand, Hand
<1>10. MarksAreTrue'
  BY <1>6, <1>7, <1>9 DEF NoticesInv, MarksAreTrue, Unheard
<1>11. Tally'
  BY <1>8 DEF Tally
<1> QED
  BY <1>4, <1>5, <1>10, <1>11 DEF NoticesInv

-----------------------------------------------------------------------------
(***************************************************************************)
(* Notices: claim, send, release                                           *)
(***************************************************************************)
\* Setting the mark of a notice sets that one and no other.
LEMMA MarkSet ==
    ASSUME NotificationsTypes, NEW job \in Jobs, NEW x \in SubjectsOf(job),
           NEW value \in BOOLEAN, SetMark(job, x, value)
    PROVE  /\ sub' \in [Subs -> SubscriptionRow] /\ payment' \in [Payments -> PaymentState]
           /\ \A n \in Notices :
                 Marked(n[1], n[2])' = IF n = <<job, x>> THEN value ELSE Marked(n[1], n[2])
<1>1. CASE job = "declined"
  <2>1. /\ payment' = [payment EXCEPT ![x] = IF value THEN "alerted" ELSE "unalerted"]
        /\ sub' = sub /\ x \in Payments
    BY <1>1 DEF SetMark, SubjectsOf
  <2>2. payment \in [Payments -> PaymentState] /\ sub \in [Subs -> SubscriptionRow]
    BY DEF NotificationsTypes
  <2>3. payment' \in [Payments -> PaymentState]
    BY <2>1, <2>2 DEF PaymentState
  <2>4. \A q \in Payments : payment'[q] = "alerted" <=>
           IF q = x THEN value ELSE payment[q] = "alerted"
    BY <2>1, <2>2
  <2>5. ASSUME NEW n \in Notices
        PROVE  Marked(n[1], n[2])' = IF n = <<job, x>> THEN value ELSE Marked(n[1], n[2])
    BY <1>1, <2>1, <2>4, NoticeShape DEF Marked, SubjectsOf
  <2> QED
    BY <2>1, <2>2, <2>3, <2>5
<1>2. CASE job # "declined"
  <2>1. /\ sub' = [sub EXCEPT ![x][MarkOf[job]] = value]
        /\ payment' = payment /\ x \in Subs
    BY <1>2 DEF SetMark, SubjectsOf
  <2>2. payment \in [Payments -> PaymentState] /\ sub \in [Subs -> SubscriptionRow]
    BY DEF NotificationsTypes
  <2> DEFINE row == [sub[x] EXCEPT ![MarkOf[job]] = value]
  <2>3. sub' = [sub EXCEPT ![x] = row]
    BY <2>1
  <2>4. /\ row \in SubscriptionRow
        /\ \A j \in Jobs \ {"declined"} :
              Mark(row, j) = IF j = job THEN value ELSE Mark(sub[x], j)
    <3>1. sub[x] \in SubscriptionRow
      BY <2>1, <2>2
    <3>2. CASE job = "failed"
      <4>1. row = [sub[x] EXCEPT !.payment_failed_user_notified_at = value]
        BY <3>2 DEF MarkOf
      <4> HIDE DEF row
      <4> QED
        BY <3>1, <3>2, <4>1, MarkFields DEF SubscriptionRow, Jobs, MemberJobs, AdminJobs
    <3>3. CASE job = "reminder"
      <4>1. row = [sub[x] EXCEPT !.grace_reminder_notified_at = value]
        BY <3>3 DEF MarkOf
      <4> HIDE DEF row
      <4> QED
        BY <3>1, <3>3, <4>1, MarkFields DEF SubscriptionRow, Jobs, MemberJobs, AdminJobs
    <3>4. CASE job = "revoked"
      <4>1. row = [sub[x] EXCEPT !.access_revoked_notified_at = value]
        BY <3>4 DEF MarkOf
      <4> HIDE DEF row
      <4> QED
        BY <3>1, <3>4, <4>1, MarkFields DEF SubscriptionRow, Jobs, MemberJobs, AdminJobs
    <3>5. CASE job = "rule"
      <4>1. row = [sub[x] EXCEPT !.provider_recurring_alerted_at = value]
        BY <3>5 DEF MarkOf
      <4> HIDE DEF row
      <4> QED
        BY <3>1, <3>5, <4>1, MarkFields DEF SubscriptionRow, Jobs, MemberJobs, AdminJobs
    <3>6. CASE job = "shutdown"
      <4>1. row = [sub[x] EXCEPT !.shutdown_alerted_at = value]
        BY <3>6 DEF MarkOf
      <4> HIDE DEF row
      <4> QED
        BY <3>1, <3>6, <4>1, MarkFields DEF SubscriptionRow, Jobs, MemberJobs, AdminJobs
    <3> QED
      BY <1>2, <3>2, <3>3, <3>4, <3>5, <3>6 DEF Jobs, MemberJobs, AdminJobs
  <2> HIDE DEF row
  <2>5. sub' \in [Subs -> SubscriptionRow]
        /\ \A s \in Subs : sub'[s] = IF s = x THEN row ELSE sub[s]
    BY <2>1, <2>2, <2>3, <2>4
  <2>6. ASSUME NEW n \in Notices
        PROVE  Marked(n[1], n[2])' = IF n = <<job, x>> THEN value ELSE Marked(n[1], n[2])
    <3>1. n[1] \in Jobs /\ n[2] \in SubjectsOf(n[1]) /\ n = <<n[1], n[2]>>
      BY NoticeShape
    <3>2. CASE n[1] = "declined"
      BY <1>2, <2>1, <3>1, <3>2 DEF Marked
    <3>3. CASE n[1] # "declined"
      <4>1. /\ Marked(n[1], n[2])' = Mark(sub'[n[2]], n[1])
            /\ Marked(n[1], n[2]) = Mark(sub[n[2]], n[1])
            /\ n[2] \in Subs
        BY <3>1, <3>3 DEF Marked, Mark, SubjectsOf
      <4> QED
        BY <2>4, <2>5, <3>1, <3>3, <4>1
    <3> QED
      BY <3>2, <3>3
  <2> QED
    BY <2>1, <2>2, <2>5, <2>6
<1> QED
  BY <1>1, <1>2

\* What a process has in hand when it claims, sends or releases.
LEMMA TaskInHand ==
    ASSUME NoticesInv, NEW p \in Processes, task[p].step \in {"claim", "send", "release"}
    PROVE  /\ task \in [Processes -> Task] /\ task[p] \in Task
           /\ task[p].job \in Jobs /\ task[p].todo \subseteq SubjectsOf(task[p].job)
           /\ task[p].step \in {"send", "release"} =>
                 /\ task[p].subject \in SubjectsOf(task[p].job)
                 /\ Hand(p) \in Notices /\ Hand(p)[2] = task[p].subject
BY ShapeIsNotice DEF NoticesInv, NotificationsTypes, TasksFit, Fits, Hand

\* A process that goes on leaves what the others have in hand.
LEMMA OthersInHand ==
    ASSUME NEW p \in Processes, NEW t, task \in [Processes -> Task],
           task' = [task EXCEPT ![p] = t], NEW n, InHand(n),
           /\ Hand(p) = n /\ n[2] \in task[p].current /\ task[p].step \in {"send", "release"}
           => /\ <<t.job, t.subject>> = n /\ n[2] \in t.current /\ t.step \in {"send", "release"}
    PROVE  InHand(n)'
<1>1. \A q \in Processes : task'[q] = IF q = p THEN t ELSE task[q]
  OBVIOUS
<1>2. PICK q \in Processes : task[q].step \in {"send", "release"}
                             /\ Hand(q) = n /\ n[2] \in task[q].current
  BY DEF InHand
<1> QED
  BY <1>1, <1>2 DEF InHand, Hand

\* A claim sets a mark that was not set, and announces one message.
LEMMA NoticeClaimed ==
    ASSUME NoticesInv, NEW p \in Processes, NEW x \in Subject, Claim(p, x)
    PROVE  NoticesInv'
<1> DEFINE job == task[p].job
           m   == <<job, x>>
           t   == [task[p] EXCEPT !.step = "send", !.todo = task[p].todo \ {x},
                                  !.subject = x, !.current = task[p].current \cup {x}]
<1>1. /\ task[p].step = "claim" /\ x \in task[p].todo /\ ~Marked(job, x)
      /\ SetMark(job, x, TRUE) /\ UNCHANGED <<clock, heard>>
  BY DEF Claim, At, MayClaim
<1>2. /\ task \in [Processes -> Task] /\ task[p] \in Task /\ job \in Jobs
      /\ x \in SubjectsOf(job) /\ task[p].todo \subseteq SubjectsOf(job)
  BY <1>1, TaskInHand
<1>3. task' = [task EXCEPT ![p] = t]
  BY <1>2 DEF Claim, Task
<1>4. /\ t \in Task /\ t.step = "send" /\ t.job = job /\ t.subject = x
      /\ t.todo \subseteq SubjectsOf(job) /\ x \in t.current
  BY <1>2 DEF Task
<1>5. Fits(t)
  BY <1>2, <1>4 DEF Fits
<1> HIDE DEF t
<1>6. \A q \in Processes : task'[q] = IF q = p THEN t ELSE task[q]
  BY <1>2, <1>3
<1>7. /\ sub' \in [Subs -> SubscriptionRow] /\ payment' \in [Payments -> PaymentState]
      /\ \A n \in Notices : Marked(n[1], n[2])' = IF n = m THEN TRUE ELSE Marked(n[1], n[2])
  BY <1>1, <1>2, MarkSet DEF NoticesInv
<1>8. NotificationsTypes' /\ TasksFit'
  <2>1. NotificationsTypes'
    BY <1>1, <1>2, <1>3, <1>4, <1>7 DEF NoticesInv, NotificationsTypes
  <2>2. TasksFit'
    BY <1>5, <1>6 DEF NoticesInv, TasksFit, Fits
  <2> QED
    BY <2>1, <2>2
<1>9. ASSUME NEW n \in Notices
      PROVE  heard'[n].told + Cardinality(Senders(n)')
                <= heard'[n].released + (IF Marked(n[1], n[2])' THEN 1 ELSE 0)
  <2>1. heard[n].told \in Nat /\ heard[n].released \in Nat /\ Cardinality(Senders(n)) \in Nat
    BY SendersFinite DEF NoticesInv, NotificationsTypes, Heard
  <2>2. heard[n].told + Cardinality(Senders(n))
           <= heard[n].released + (IF Marked(n[1], n[2]) THEN 1 ELSE 0)
    BY DEF NoticesInv, Tally
  <2>3. /\ Cardinality(Senders(n)') \in Nat
        /\ Cardinality(Senders(n)') <= Cardinality(Senders(n)) + 1
        /\ ~Sends(t, n) => Cardinality(Senders(n)') <= Cardinality(Senders(n))
    BY <1>2, <1>3, SendersChange
  <2>4. CASE n = m
    <3>1. ~Marked(n[1], n[2]) /\ Marked(n[1], n[2])'
      BY <1>1, <1>7, <2>4
    <3> QED
      BY <1>1, <2>1, <2>2, <2>3, <3>1
  <2>5. CASE n # m
    <3>1. ~Sends(t, n)
      BY <1>4, <2>5 DEF Sends
    <3>2. Marked(n[1], n[2])' = Marked(n[1], n[2]) /\ heard' = heard
      BY <1>1, <1>7, <2>5
    <3> QED
      BY <2>1, <2>2, <2>3, <3>1, <3>2
  <2> QED
    BY <2>4, <2>5
<1>10. MarksAreTrue'
  <2>1. ASSUME NEW n \in Notices, n = m PROVE InHand(n)'
    <3>1. n = <<t.job, t.subject>> /\ n[2] \in t.current
      BY <1>4, <2>1
    <3> QED
      BY <1>4, <1>6, <3>1 DEF InHand, Hand
  <2>2. ASSUME NEW n \in Notices, InHand(n) PROVE InHand(n)'
    BY <1>1, <1>2, <1>3, <2>2, OthersInHand
  <2>3. ASSUME NEW n \in Notices, Marked(n[1], n[2])', ~heard'[n].lost
        PROVE  heard'[n].told > 0 \/ InHand(n)'
    <3>1. CASE n = m
      BY <2>1, <3>1
    <3>2. CASE n # m
      <4>1. Marked(n[1], n[2]) /\ heard' = heard
        BY <1>1, <1>7, <2>3, <3>2
      <4>2. heard[n].told > 0 \/ InHand(n)
        BY <2>3, <4>1 DEF NoticesInv, MarksAreTrue
      <4> QED
        BY <2>2, <4>1, <4>2
    <3> QED
      BY <3>1, <3>2
  <2> QED
    BY <2>3 DEF MarksAreTrue
<1>11. Tally'
  BY <1>9 DEF Tally
<1> QED
  BY <1>8, <1>10, <1>11 DEF NoticesInv

\* A delivery that succeeds, or fails with or without having arrived.
LEMMA NoticeSent ==
    ASSUME NoticesInv, NEW p \in Processes, At(p, "send"), NEW k \in {0, 1}, Counted(p, k),
           UNCHANGED <<clock, sub, payment>>, NEW t \in Task, Fits(t),
           task' = [task EXCEPT ![p] = t],
           \/ k = 1 /\ Quiet(t)
           \/ /\ t.step = "release" /\ t.job = task[p].job /\ t.subject = task[p].subject
              /\ t.current = task[p].current
    PROVE  NoticesInv'
<1> DEFINE m == Hand(p)
           counts == task[p].subject \in task[p].current
<1>1. /\ task \in [Processes -> Task] /\ task[p] \in Task /\ task[p].step = "send"
      /\ m \in Notices /\ m[2] = task[p].subject /\ m = <<task[p].job, task[p].subject>>
  BY TaskInHand DEF At, Hand
<1>2. heard \in [Notices -> Heard]
  BY DEF NoticesInv, NotificationsTypes
<1>3. /\ heard' \in [Notices -> Heard]
      /\ \A n \in Notices :
            /\ heard'[n].released = heard[n].released /\ heard'[n].lost = heard[n].lost
            /\ heard'[n].told = IF counts /\ n = m THEN heard[n].told + k ELSE heard[n].told
  <2>1. CASE ~counts
    BY <1>2, <2>1 DEF Counted
  <2>2. CASE counts
    <3> DEFINE h == [heard[m] EXCEPT !.told = heard[m].told + k]
    <3>1. heard' = [heard EXCEPT ![m] = h]
      BY <1>1, <1>2, <2>2 DEF Counted
    <3>2. /\ h \in Heard /\ h.told = heard[m].told + k
          /\ h.released = heard[m].released /\ h.lost = heard[m].lost
      BY <1>1, <1>2 DEF Heard
    <3> HIDE DEF h
    <3> QED
      BY <1>1, <1>2, <2>2, <3>1, <3>2
  <2> QED
    BY <2>1, <2>2
<1>4. \A q \in Processes : task'[q] = IF q = p THEN t ELSE task[q]
  BY <1>1
<1>5. \A n \in Notices : Marked(n[1], n[2])' = Marked(n[1], n[2])
  BY DEF Marked
<1>6. NotificationsTypes' /\ TasksFit'
  BY <1>1, <1>3, <1>4 DEF NoticesInv, NotificationsTypes, TasksFit, Fits
<1>7. ASSUME NEW n \in Notices
      PROVE  heard'[n].told + Cardinality(Senders(n)')
                <= heard'[n].released + (IF Marked(n[1], n[2])' THEN 1 ELSE 0)
  <2>1. heard[n].told \in Nat /\ heard[n].released \in Nat /\ Cardinality(Senders(n)) \in Nat
    BY SendersFinite DEF NoticesInv, NotificationsTypes, Heard
  <2>2. heard[n].told + Cardinality(Senders(n))
           <= heard[n].released + (IF Marked(n[1], n[2]) THEN 1 ELSE 0)
    BY DEF NoticesInv, Tally
  <2>3. ~Sends(t, n)
    BY DEF Sends, Quiet
  <2>4. /\ Cardinality(Senders(n)') \in Nat /\ Cardinality(Senders(n)') <= Cardinality(Senders(n))
        /\ Sends(task[p], n) => Cardinality(Senders(n)') + 1 = Cardinality(Senders(n))
    BY <1>1, <2>3, SendersChange
  <2>5. counts /\ n = m => Sends(task[p], n)
    BY <1>1 DEF Sends
  <2> QED
    BY <1>3, <1>5, <2>1, <2>2, <2>4, <2>5
<1>8. MarksAreTrue'
  <2>1. ASSUME NEW n \in Notices, InHand(n), ~(n = m /\ counts /\ k = 1) PROVE InHand(n)'
    <3>1. CASE t.step = "release" /\ t.job = task[p].job /\ t.subject = task[p].subject
               /\ t.current = task[p].current
      BY <1>1, <2>1, <3>1, OthersInHand
    <3>2. CASE k = 1
      BY <1>1, <2>1, <3>2, OthersInHand
    <3> QED
      BY <3>1, <3>2
  <2>2. \A n \in Notices : heard[n].told \in Nat
    BY <1>2 DEF Heard
  <2> QED
    BY <1>3, <1>5, <2>1, <2>2 DEF NoticesInv, MarksAreTrue
<1>9. Tally'
  BY <1>7 DEF Tally
<1> QED
  BY <1>6, <1>8, <1>9 DEF NoticesInv

\* A release removes the mark, whoever has set it, and is counted.
LEMMA NoticeReleased ==
    ASSUME NoticesInv, NEW p \in Processes, Release(p)
    PROVE  NoticesInv'
<1> DEFINE job == task[p].job
           x   == task[p].subject
           t   == Onward(p, task[p])
           h   == [heard[<<job, x>>] EXCEPT !.released = heard[<<job, x>>].released + 1]
<1>1. /\ task[p].step = "release" /\ SetMark(job, x, FALSE) /\ clock' = clock
      /\ task' = [task EXCEPT ![p] = t]
  BY DEF Release, At
<1>2. /\ task \in [Processes -> Task] /\ task[p] \in Task /\ job \in Jobs
      /\ x \in SubjectsOf(job) /\ task[p].todo \subseteq SubjectsOf(job)
      /\ Hand(p) = <<job, x>> /\ <<job, x>> \in Notices
      /\ heard \in [Notices -> Heard] /\ NotificationsTypes
  BY <1>1, TaskInHand DEF Hand, NoticesInv, NotificationsTypes
<1>3. t \in Task /\ Fits(t) /\ Quiet(t)
  BY <1>2, OnwardFits
<1>4. heard' = [heard EXCEPT ![<<job, x>>] = h]
  BY <1>2 DEF Release
<1>5. /\ h \in Heard /\ h.told = heard[<<job, x>>].told /\ h.lost = heard[<<job, x>>].lost
      /\ h.released = heard[<<job, x>>].released + 1
  BY <1>2 DEF Heard
<1>6. /\ sub' \in [Subs -> SubscriptionRow] /\ payment' \in [Payments -> PaymentState]
      /\ \A n \in Notices :
            Marked(n[1], n[2])' = IF n = <<job, x>> THEN FALSE ELSE Marked(n[1], n[2])
  BY <1>1, <1>2, MarkSet
<1> HIDE DEF h, t
<1>7. \A q \in Processes : task'[q] = IF q = p THEN t ELSE task[q]
  BY <1>1, <1>2
<1>8. NotificationsTypes' /\ TasksFit'
  <2>1. NotificationsTypes'
    BY <1>1, <1>2, <1>3, <1>4, <1>5, <1>6 DEF NotificationsTypes
  <2>2. TasksFit'
    BY <1>3, <1>7 DEF NoticesInv, TasksFit, Fits
  <2> QED
    BY <2>1, <2>2
<1>9. ASSUME NEW n \in Notices
      PROVE  heard'[n].told + Cardinality(Senders(n)')
                <= heard'[n].released + (IF Marked(n[1], n[2])' THEN 1 ELSE 0)
  <2>1. heard[n].told \in Nat /\ heard[n].released \in Nat /\ Cardinality(Senders(n)) \in Nat
    BY SendersFinite DEF NoticesInv, NotificationsTypes, Heard
  <2>2. heard[n].told + Cardinality(Senders(n))
           <= heard[n].released + (IF Marked(n[1], n[2]) THEN 1 ELSE 0)
    BY DEF NoticesInv, Tally
  <2>3. ~Sends(t, n)
    BY <1>3 DEF Sends, Quiet
  <2>4. Cardinality(Senders(n)') \in Nat /\ Cardinality(Senders(n)') <= Cardinality(Senders(n))
    BY <1>1, <1>2, <2>3, SendersChange
  <2>5. CASE n = <<job, x>>
    <3>1. /\ heard'[n].told = heard[n].told /\ heard'[n].released = heard[n].released + 1
          /\ Marked(n[1], n[2])' = FALSE
      BY <1>2, <1>4, <1>5, <1>6, <2>5
    <3> QED
      BY <2>1, <2>2, <2>4, <3>1
  <2>6. CASE n # <<job, x>>
    <3>1. heard'[n] = heard[n] /\ Marked(n[1], n[2])' = Marked(n[1], n[2])
      BY <1>2, <1>4, <1>6, <2>6
    <3> QED
      BY <2>1, <2>2, <2>4, <3>1
  <2> QED
    BY <2>5, <2>6
<1>10. MarksAreTrue'
  <2>1. ASSUME NEW n \in Notices, Marked(n[1], n[2])', ~heard'[n].lost
        PROVE  heard'[n].told > 0 \/ InHand(n)'
    <3>1. n # <<job, x>>
      BY <1>6, <2>1
    <3>2. heard'[n] = heard[n] /\ Marked(n[1], n[2])
      BY <1>2, <1>4, <1>6, <2>1, <3>1
    <3>3. heard[n].told > 0 \/ InHand(n)
      BY <2>1, <3>2 DEF NoticesInv, MarksAreTrue
    <3>4. InHand(n) => InHand(n)'
      BY <1>1, <1>2, <3>1, OthersInHand
    <3> QED
      BY <3>2, <3>3, <3>4
  <2> QED
    BY <2>1 DEF MarksAreTrue
<1>11. Tally'
  BY <1>9 DEF Tally
<1> QED
  BY <1>8, <1>10, <1>11 DEF NoticesInv

\* A process that is lost takes its message with it, and that is counted.
LEMMA NoticeLost ==
    ASSUME NoticesInv, NEW p \in Processes, TaskLost(p)
    PROVE  NoticesInv'
<1> DEFINE m == Hand(p)
           loses == task[p].step \in {"send", "release"} /\ task[p].subject \in task[p].current
           h == [heard[m] EXCEPT !.lost = TRUE]
<1>1. /\ heard' = IF loses THEN [heard EXCEPT ![m] = h] ELSE heard
      /\ task' = [task EXCEPT ![p] = IdleTask] /\ UNCHANGED <<clock, sub, payment>>
  BY DEF TaskLost
<1>2. /\ task \in [Processes -> Task] /\ heard \in [Notices -> Heard]
      /\ loses => m \in Notices /\ m[2] = task[p].subject
  BY TaskInHand DEF NoticesInv, NotificationsTypes
<1>3. /\ heard' \in [Notices -> Heard]
      /\ \A n \in Notices :
            /\ heard'[n].told = heard[n].told /\ heard'[n].released = heard[n].released
            /\ heard'[n].lost = IF loses /\ n = m THEN TRUE ELSE heard[n].lost
  <2>1. CASE ~loses
    BY <1>1, <1>2, <2>1
  <2>2. CASE loses
    <3>1. /\ h \in Heard /\ h.told = heard[m].told /\ h.released = heard[m].released
          /\ h.lost = TRUE
      BY <1>2, <2>2 DEF Heard
    <3> HIDE DEF h
    <3> QED
      BY <1>1, <1>2, <2>2, <3>1
  <2> QED
    BY <2>1, <2>2
<1>4. \A q \in Processes : task'[q] = IF q = p THEN IdleTask ELSE task[q]
  BY <1>1, <1>2
<1>5. \A n \in Notices : Marked(n[1], n[2])' = Marked(n[1], n[2])
  BY <1>1 DEF Marked
<1>6. NotificationsTypes' /\ TasksFit'
  BY <1>1, <1>3, <1>4, IdleTaskFits DEF NoticesInv, NotificationsTypes, TasksFit, Fits
<1>7. ASSUME NEW n \in Notices
      PROVE  heard'[n].told + Cardinality(Senders(n)')
                <= heard'[n].released + (IF Marked(n[1], n[2])' THEN 1 ELSE 0)
  <2>1. heard[n].told \in Nat /\ heard[n].released \in Nat /\ Cardinality(Senders(n)) \in Nat
    BY SendersFinite DEF NoticesInv, NotificationsTypes, Heard
  <2>2. heard[n].told + Cardinality(Senders(n))
           <= heard[n].released + (IF Marked(n[1], n[2]) THEN 1 ELSE 0)
    BY DEF NoticesInv, Tally
  <2>3. ~Sends(IdleTask, n)
    BY IdleTaskFits DEF Sends, Quiet
  <2>4. Cardinality(Senders(n)') \in Nat /\ Cardinality(Senders(n)') <= Cardinality(Senders(n))
    BY <1>1, <1>2, <2>3, SendersChange
  <2>5. /\ heard'[n].told = heard[n].told /\ heard'[n].released = heard[n].released
        /\ Marked(n[1], n[2])' = Marked(n[1], n[2])
    BY <1>3, <1>5
  <2> QED
    BY <2>1, <2>2, <2>4, <2>5
<1>8. MarksAreTrue'
  <2>1. ASSUME NEW n \in Notices, Marked(n[1], n[2])', ~heard'[n].lost
        PROVE  heard'[n].told > 0 \/ InHand(n)'
    <3>1. ~(loses /\ n = m) /\ ~heard[n].lost /\ Marked(n[1], n[2])
      BY <1>3, <1>5, <2>1
    <3>2. heard[n].told > 0 \/ InHand(n)
      BY <3>1 DEF NoticesInv, MarksAreTrue
    <3>3. ~(Hand(p) = n /\ n[2] \in task[p].current /\ task[p].step \in {"send", "release"})
      BY <3>1 DEF Hand
    <3>4. InHand(n) => InHand(n)'
      BY <1>1, <1>2, <3>3, OthersInHand
    <3> QED
      BY <1>3, <3>2, <3>4
  <2> QED
    BY <2>1 DEF MarksAreTrue
<1>9. Tally'
  BY <1>7 DEF Tally
<1> QED
  BY <1>6, <1>8, <1>9 DEF NoticesInv

-----------------------------------------------------------------------------
(***************************************************************************)
(* Notices: the functions that rewrite a row                               *)
(***************************************************************************)
Clears(row, jobs) == \A job \in jobs : ~Mark(row, job)
Keeps(new, old, jobs) ==
    \A job \in Jobs \ (jobs \cup {"declined"}) : Mark(new, job) = Mark(old, job)

\* The marks of the given jobs are cleared, and the others are kept.
RowMarks(new, old, jobs) ==
    /\ new.payment_failed_user_notified_at =
          IF "failed" \in jobs THEN FALSE ELSE old.payment_failed_user_notified_at
    /\ new.grace_reminder_notified_at =
          IF "reminder" \in jobs THEN FALSE ELSE old.grace_reminder_notified_at
    /\ new.access_revoked_notified_at =
          IF "revoked" \in jobs THEN FALSE ELSE old.access_revoked_notified_at
    /\ new.provider_recurring_alerted_at =
          IF "rule" \in jobs THEN FALSE ELSE old.provider_recurring_alerted_at
    /\ new.shutdown_alerted_at =
          IF "shutdown" \in jobs THEN FALSE ELSE old.shutdown_alerted_at

\* Field by field is job by job.
LEMMA MarksOfRow ==
    ASSUME NEW new, NEW old, NEW jobs \in SUBSET (Jobs \ {"declined"}), RowMarks(new, old, jobs)
    PROVE  Clears(new, jobs) /\ Keeps(new, old, jobs)
<1>1. ASSUME NEW job \in Jobs \ {"declined"}
      PROVE  Mark(new, job) = IF job \in jobs THEN FALSE ELSE Mark(old, job)
  <2>1. CASE job = "failed"
    BY <2>1, MarkFields DEF RowMarks
  <2>2. CASE job = "reminder"
    BY <2>2, MarkFields DEF RowMarks
  <2>3. CASE job = "revoked"
    BY <2>3, MarkFields DEF RowMarks
  <2>4. CASE job = "rule"
    BY <2>4, MarkFields DEF RowMarks
  <2>5. CASE job = "shutdown"
    BY <2>5, MarkFields DEF RowMarks
  <2> QED
    BY <2>1, <2>2, <2>3, <2>4, <2>5 DEF Jobs, MemberJobs, AdminJobs
<1> QED
  BY <1>1 DEF Clears, Keeps

\* A renewal clears the marks of the member and of the shutdown.
LEMMA RowRenewed ==
    ASSUME NEW row \in SubscriptionRow, clock \in Nat
    PROVE  LET new  == ExtendSubscription(row, BillingMonths, clock)
               jobs == RenewalResets
           IN  /\ new \in SubscriptionRow /\ jobs \in SUBSET (Jobs \ {"declined"})
               /\ Clears(new, jobs) /\ Keeps(new, row, jobs)
<1> DEFINE new  == ExtendSubscription(row, BillingMonths, clock)
           jobs == RenewalResets
<1>0. BillingMonths \in Nat
  BY NotificationsAssumption
<1>1. new \in SubscriptionRow
  <2> DEFINE base == IF row.current_period_end < clock THEN clock ELSE row.current_period_end
  <2>1. base \in Nat /\ base + BillingMonths \in Nat
    BY <1>0 DEF SubscriptionRow
  <2>2. new = [row EXCEPT !.current_period_start            = base,
                          !.current_period_end              = base + BillingMonths,
                          !.status                          = "active",
                          !.cancel_at_period_end            = FALSE,
                          !.payment_failed_at               = FALSE,
                          !.payment_failed_user_notified_at = FALSE,
                          !.grace_reminder_notified_at      = FALSE,
                          !.access_revoked_at               = FALSE,
                          !.access_revoked_notified_at      = FALSE,
                          !.shutdown_at                     = FALSE,
                          !.shutdown_error                  = FALSE,
                          !.shutdown_alerted_at             = FALSE]
    BY DEF ExtendSubscription
  <2> HIDE DEF base
  <2> QED
    BY <2>1, <2>2 DEF SubscriptionRow, SubscriptionStatus
<1>2. RowMarks(new, row, jobs)
  BY DEF ExtendSubscription, RenewalResets, MemberJobs, SubscriptionRow, RowMarks
<1>3. jobs \in SUBSET (Jobs \ {"declined"})
  BY DEF ExtendSubscription, RenewalResets, MemberJobs, Jobs, AdminJobs
<1> HIDE DEF new, jobs
<1>4. Clears(new, jobs) /\ Keeps(new, row, jobs)
  BY <1>2, <1>3, MarksOfRow
<1> QED
  BY <1>1, <1>3, <1>4 DEF new, jobs

\* A refused payment clears the marks of the member if it is the first.
LEMMA RowRefused ==
    ASSUME NEW s \in Subs, sub[s] \in SubscriptionRow
    PROVE  LET new  == ApplyFailedPayment(sub[s])
               jobs == RefusalResets(s)
           IN  /\ new \in SubscriptionRow /\ jobs \in SUBSET (Jobs \ {"declined"})
               /\ Clears(new, jobs) /\ Keeps(new, sub[s], jobs)
<1> DEFINE new  == ApplyFailedPayment(sub[s])
           jobs == RefusalResets(s)
<1>1. new \in SubscriptionRow
  BY DEF ApplyFailedPayment, SubscriptionRow, SubscriptionStatus
<1>2. RowMarks(new, sub[s], jobs)
  BY DEF ApplyFailedPayment, RefusalResets, MemberJobs, SubscriptionRow, RowMarks
<1>3. jobs \in SUBSET (Jobs \ {"declined"})
  BY DEF ApplyFailedPayment, RefusalResets, MemberJobs, Jobs, AdminJobs
<1> HIDE DEF new, jobs
<1>4. Clears(new, jobs) /\ Keeps(new, sub[s], jobs)
  BY <1>2, <1>3, MarksOfRow
<1> QED
  BY <1>1, <1>3, <1>4 DEF new, jobs

\* A healthy answer clears the mark of the rule.
LEMMA RowVerified ==
    ASSUME NEW row \in SubscriptionRow, NEW answer \in Answers
    PROVE  LET new  == RecordVerified(row, answer)
               jobs == IF answer = "active" THEN {"rule"} ELSE {}
           IN  /\ new \in SubscriptionRow /\ jobs \in SUBSET (Jobs \ {"declined"})
               /\ Clears(new, jobs) /\ Keeps(new, row, jobs)
<1> DEFINE new  == RecordVerified(row, answer)
           jobs == IF answer = "active" THEN {"rule"} ELSE {}
<1>0. answer \in RecurringStatus
  BY NotificationsAssumption
<1>1. new \in SubscriptionRow
  <2> DEFINE alerted == row.provider_recurring_alerted_at /\ answer # "active"
  <2>1. alerted \in BOOLEAN
    OBVIOUS
  <2>2. new = [row EXCEPT !.provider_recurring_status = answer,
                          !.provider_recurring_alerted_at = alerted]
    BY DEF RecordVerified
  <2> HIDE DEF alerted
  <2> QED
    BY <1>0, <2>1, <2>2 DEF SubscriptionRow
<1>2. RowMarks(new, row, jobs)
  BY DEF RecordVerified, SubscriptionRow, RowMarks
<1>3. jobs \in SUBSET (Jobs \ {"declined"})
  BY DEF Jobs, MemberJobs, AdminJobs
<1> HIDE DEF new, jobs
<1>4. Clears(new, jobs) /\ Keeps(new, row, jobs)
  BY <1>2, <1>3, MarksOfRow
<1> QED
  BY <1>1, <1>3, <1>4 DEF new, jobs

\* A rule that was stopped clears the mark of the shutdown.
LEMMA RowStopped ==
    ASSUME NEW row \in SubscriptionRow
    PROVE  LET new  == RecordShutdown(row, "suspended")
               jobs == {"shutdown"}
           IN  /\ new \in SubscriptionRow /\ jobs \in SUBSET (Jobs \ {"declined"})
               /\ Clears(new, jobs) /\ Keeps(new, row, jobs)
<1> DEFINE new  == RecordShutdown(row, "suspended")
           jobs == {"shutdown"}
<1>1. new \in SubscriptionRow
  BY DEF RecordShutdown, SubscriptionRow, SubscriptionStatus, RecurringStatus
<1>2. RowMarks(new, row, jobs)
  BY DEF RecordShutdown, SubscriptionRow, RowMarks
<1>3. jobs \in SUBSET (Jobs \ {"declined"})
  BY DEF Jobs, MemberJobs, AdminJobs
<1> HIDE DEF new, jobs
<1>4. Clears(new, jobs) /\ Keeps(new, row, jobs)
  BY <1>2, <1>3, MarksOfRow
<1> QED
  BY <1>1, <1>3, <1>4 DEF new, jobs

\* One that was not stopped clears none.
LEMMA RowNotStopped ==
    ASSUME NEW row \in SubscriptionRow
    PROVE  LET new  == RecordShutdownFailure(row, "check_failed")
               jobs == {}
           IN  /\ new \in SubscriptionRow /\ jobs \in SUBSET (Jobs \ {"declined"})
               /\ Clears(new, jobs) /\ Keeps(new, row, jobs)
<1> DEFINE new  == RecordShutdownFailure(row, "check_failed")
           jobs == {}
<1>1. new \in SubscriptionRow
  BY DEF RecordShutdownFailure, SubscriptionRow, SubscriptionStatus, RecurringStatus
<1>2. RowMarks(new, row, jobs)
  BY DEF RecordShutdownFailure, SubscriptionRow, RowMarks
<1>3. jobs \in SUBSET (Jobs \ {"declined"})
  BY DEF Jobs, MemberJobs, AdminJobs
<1> HIDE DEF new, jobs
<1>4. Clears(new, jobs) /\ Keeps(new, row, jobs)
  BY <1>2, <1>3, MarksOfRow
<1> QED
  BY <1>1, <1>3, <1>4 DEF new, jobs

\* Nor does the expiration itself.
LEMMA RowExpired ==
    ASSUME NEW row \in SubscriptionRow, NEW fully \in BOOLEAN
    PROVE  LET new  == ExpireSubscription(row, fully)
               jobs == {}
           IN  /\ new \in SubscriptionRow /\ jobs \in SUBSET (Jobs \ {"declined"})
               /\ Clears(new, jobs) /\ Keeps(new, row, jobs)
<1> DEFINE new  == ExpireSubscription(row, fully)
           jobs == {}
<1>1. new \in SubscriptionRow
  BY DEF ExpireSubscription, SubscriptionRow, SubscriptionStatus, RecurringStatus
<1>2. RowMarks(new, row, jobs)
  BY DEF ExpireSubscription, SubscriptionRow, RowMarks
<1>3. jobs \in SUBSET (Jobs \ {"declined"})
  BY DEF Jobs, MemberJobs, AdminJobs
<1> HIDE DEF new, jobs
<1>4. Clears(new, jobs) /\ Keeps(new, row, jobs)
  BY <1>2, <1>3, MarksOfRow
<1> QED
  BY <1>1, <1>3, <1>4 DEF new, jobs

-----------------------------------------------------------------------------
(***************************************************************************)
(* Notices: one step of the system                                         *)
(***************************************************************************)
LEMMA NoticesBegin == Init => NoticesInv
<1> SUFFICES ASSUME Init PROVE NoticesInv
  OBVIOUS
<1>1. /\ clock = 0 /\ sub = [s \in Subs |-> NewSubscription(0, BillingMonths, "active")]
      /\ payment = [q \in Payments |-> "none"] /\ task = [p \in Processes |-> IdleTask]
      /\ heard = [n \in Notices |-> Unheard]
  BY DEF Init, NotificationsInit
<1> DEFINE row == NewSubscription(0, BillingMonths, "active")
<1>2. row \in SubscriptionRow
  BY NotificationsAssumption
     DEF NewSubscription, SubscriptionRow, SubscriptionStatus, RecurringStatus
<1>3. \A job \in Jobs \ {"declined"} : ~Mark(row, job)
  BY MarkFields DEF NewSubscription, Jobs, MemberJobs, AdminJobs
<1> HIDE DEF row
<1>4. NotificationsTypes
  BY <1>1, <1>2, IdleTaskFits DEF NotificationsTypes, PaymentState, Unheard, Heard, row
<1>5. TasksFit
  BY <1>1, IdleTaskFits DEF TasksFit
<1>6. \A n \in Notices : ~Marked(n[1], n[2]) /\ heard[n] = Unheard /\ Senders(n) = {}
  <2>1. ASSUME NEW n \in Notices PROVE ~Marked(n[1], n[2])
    <3>1. n[1] \in Jobs /\ n[2] \in SubjectsOf(n[1])
      BY NoticeShape
    <3>2. CASE n[1] = "declined"
      BY <1>1, <3>1, <3>2 DEF Marked, SubjectsOf
    <3>3. CASE n[1] # "declined"
      <4>1. Marked(n[1], n[2]) = Mark(sub[n[2]], n[1]) /\ sub[n[2]] = row
        BY <1>1, <3>1, <3>3 DEF Marked, Mark, SubjectsOf, row
      <4> QED
        BY <1>3, <3>1, <3>3, <4>1
    <3> QED
      BY <3>2, <3>3
  <2>2. ASSUME NEW n \in Notices PROVE Senders(n) = {}
    BY <1>1, IdleTaskFits DEF Senders, Sends, Quiet
  <2> QED
    BY <1>1, <2>1, <2>2
<1>7. Tally /\ MarksAreTrue
  BY <1>6, FS_EmptySet DEF Tally, MarksAreTrue, Unheard
<1> QED
  BY <1>4, <1>5, <1>7 DEF NoticesInv

\* A job lists what it is about to do.
LEMMA FindsStep ==
    ASSUME NoticesInv, NEW p \in Processes, Quiet(task[p]), NEW job \in Jobs,
           NEW found \in SUBSET SubjectsOf(job), Finds(p, job, found),
           UNCHANGED <<clock, sub, payment, heard>>
    PROVE  NoticesInv'
<1> DEFINE u == [task[p] EXCEPT !.job = job, !.todo = found, !.current = found]
           t == Onward(p, u)
<1>1. task[p] \in Task /\ found \subseteq Subject
  BY DEF NoticesInv, NotificationsTypes, SubjectsOf, Subject
<1>2. u \in Task /\ u.job = job /\ u.todo = found
  BY <1>1 DEF Task
<1>3. task' = [task EXCEPT ![p] = t]
  BY DEF Finds
<1> HIDE DEF u
<1>4. t \in Task /\ Fits(t) /\ Quiet(t)
  BY <1>2, OnwardFits
<1> HIDE DEF t
<1>5. clock' \in Nat /\ payment' \in [Payments -> PaymentState] /\ SameAlerts
  BY DEF NoticesInv, NotificationsTypes, SameAlerts
<1> QED
  BY <1>3, <1>4, <1>5, QuietStep

\* A renewal begins a new incident.
LEMMA RenewedStep ==
    ASSUME NoticesInv, NEW h \in Processes, NEW s \in Subs, Renewed(h, s)
    PROVE  NoticesInv'
<1> DEFINE t == [IdleTask EXCEPT !.job = "rule", !.step = "verify", !.todo = {s}]
           row == ExtendSubscription(sub[s], BillingMonths, clock)
<1>1. t \in Task /\ Fits(t) /\ Quiet(t)
  <2>1. IdleTask \in Task
    BY IdleTaskFits
  <2>2. t \in Task /\ t.job = "rule" /\ t.step = "verify"
    BY <2>1 DEF Task, Subject, Jobs, MemberJobs, AdminJobs
  <2> QED
    BY <2>2 DEF Fits, Quiet
<1>2. /\ Rewrites(s, row, RenewalResets, [task EXCEPT ![h] = t])
      /\ UNCHANGED <<clock, payment>> /\ task[h] = IdleTask
  BY DEF Renewed, Idle
<1>3. sub[s] \in SubscriptionRow /\ clock \in Nat
  BY DEF NoticesInv, NotificationsTypes
<1>4. /\ row \in SubscriptionRow /\ RenewalResets \in SUBSET (Jobs \ {"declined"})
      /\ Clears(row, RenewalResets) /\ Keeps(row, sub[s], RenewalResets)
  BY <1>3, RowRenewed
<1>5. payment' \in [Payments -> PaymentState] /\ SameAlerts
  BY <1>2 DEF NoticesInv, NotificationsTypes, SameAlerts
<1> HIDE DEF t, row
<1> QED
  BY <1>1, <1>2, <1>4, <1>5, IdleTaskFits, RewriteStep DEF Clears, Keeps

\* A refused payment begins one too, or only a new alert.
LEMMA RefusedStep ==
    ASSUME NoticesInv, NEW h \in Processes, NEW s \in Subs, NEW p \in Payments, Refused(h, s, p)
    PROVE  NoticesInv'
<1> DEFINE t == [IdleTask EXCEPT !.job = "failed", !.step = "list", !.subject = s, !.payment = p]
           row == ApplyFailedPayment(sub[s])
<1>1. t \in Task /\ Fits(t) /\ Quiet(t)
  <2>1. IdleTask \in Task
    BY IdleTaskFits
  <2>2. t \in Task /\ t.job = "failed" /\ t.step = "list"
    BY <2>1 DEF Task, Subject, Jobs, MemberJobs, AdminJobs
  <2> QED
    BY <2>2 DEF Fits, Quiet
<1>2. /\ task[h] = IdleTask /\ payment[p] = "none"
      /\ payment' = [payment EXCEPT ![p] = "unalerted"] /\ clock' = clock
  BY DEF Refused, Idle
<1>3. \/ Rewrites(s, row, RefusalResets(s), [task EXCEPT ![h] = t])
      \/ task' = [task EXCEPT ![h] = t] /\ UNCHANGED <<sub, heard>>
  BY DEF Refused
<1>4. sub[s] \in SubscriptionRow /\ clock \in Nat /\ payment \in [Payments -> PaymentState]
  BY DEF NoticesInv, NotificationsTypes
<1>5. /\ row \in SubscriptionRow /\ RefusalResets(s) \in SUBSET (Jobs \ {"declined"})
      /\ Clears(row, RefusalResets(s)) /\ Keeps(row, sub[s], RefusalResets(s))
  BY <1>4, RowRefused
<1>6. payment' \in [Payments -> PaymentState] /\ SameAlerts
  BY <1>2, <1>4 DEF PaymentState, SameAlerts
<1> HIDE DEF t, row
<1>7. CASE Rewrites(s, row, RefusalResets(s), [task EXCEPT ![h] = t])
  BY <1>1, <1>2, <1>5, <1>6, <1>7, IdleTaskFits, RewriteStep DEF Clears, Keeps
<1>8. CASE task' = [task EXCEPT ![h] = t] /\ UNCHANGED <<sub, heard>>
  BY <1>1, <1>2, <1>4, <1>6, <1>8, IdleTaskFits, QuietStep
<1> QED
  BY <1>3, <1>7, <1>8

\* Every step of a task keeps the invariant.
LEMMA TaskStep ==
    ASSUME NoticesInv, NEW p \in Processes, TaskSteps(p)
    PROVE  NoticesInv'
<1>1. /\ clock \in Nat /\ sub \in [Subs -> SubscriptionRow]
      /\ payment \in [Payments -> PaymentState] /\ task \in [Processes -> Task]
      /\ task[p] \in Task /\ Fits(task[p])
  BY DEF NoticesInv, NotificationsTypes, TasksFit
<1>2. payment' = payment => payment' \in [Payments -> PaymentState] /\ SameAlerts
  BY <1>1 DEF SameAlerts
<1>3. ASSUME NEW s \in Subs, NEW answer \in Answers, Verify(p, s, answer) PROVE NoticesInv'
  <2> DEFINE t == [task[p] EXCEPT !.todo = task[p].todo \ {s},
                                  !.answer = [task[p].answer EXCEPT ![s] = answer]]
             row == RecordVerified(sub[s], answer)
             jobs == IF answer = "active" THEN {"rule"} ELSE {}
  <2>1. t \in Task /\ t.step = task[p].step /\ t.job = task[p].job
    BY <1>1 DEF Task
  <2>2. task[p].step = "verify" /\ task[p].job = "rule"
    BY <1>1, <1>3 DEF Verify, At, Fits
  <2>3. [task EXCEPT ![p].todo = @ \ {s}, ![p].answer[s] = answer] = [task EXCEPT ![p] = t]
    BY <1>1 DEF Task
  <2>4. Rewrites(s, row, jobs, [task EXCEPT ![p] = t]) /\ UNCHANGED <<clock, payment>>
    BY <1>3, <2>3 DEF Verify
  <2>5. /\ row \in SubscriptionRow /\ jobs \in SUBSET (Jobs \ {"declined"})
        /\ Clears(row, jobs) /\ Keeps(row, sub[s], jobs)
    BY <1>1, RowVerified
  <2>6. Fits(t) /\ Quiet(t) /\ Quiet(task[p])
    BY <2>1, <2>2 DEF Fits, Quiet
  <2> HIDE DEF t, row, jobs
  <2> QED
    BY <1>2, <2>1, <2>4, <2>5, <2>6, RewriteStep DEF Clears, Keeps
<1>4. CASE ListUnhealthy(p)
  <2> DEFINE found == {s \in Subs : RequiresAlert(task[p].answer[s])}
  <2>1. Finds(p, "rule", found) /\ UNCHANGED <<clock, sub, payment, heard>>
    BY <1>4 DEF ListUnhealthy
  <2>2. Quiet(task[p]) /\ found \subseteq SubjectsOf("rule") /\ "rule" \in Jobs
    BY <1>4 DEF ListUnhealthy, At, Quiet, SubjectsOf, Jobs, AdminJobs
  <2> HIDE DEF found
  <2> QED
    BY <2>1, <2>2, FindsStep
<1>5. ASSUME NEW x \in Subject, ClaimRefused(p, x) PROVE NoticesInv'
  <2> DEFINE u == [task[p] EXCEPT !.todo = task[p].todo \ {x}]
             t == Onward(p, u)
  <2>1. /\ task' = [task EXCEPT ![p] = t] /\ UNCHANGED <<clock, sub, payment, heard>>
        /\ task[p].step = "claim"
    BY <1>5 DEF ClaimRefused, At
  <2>2. task[p].job \in Jobs /\ task[p].todo \subseteq SubjectsOf(task[p].job)
    BY <2>1, TaskInHand
  <2>3. u \in Task /\ u.job = task[p].job /\ u.todo \subseteq SubjectsOf(u.job)
    BY <1>1, <2>2 DEF Task
  <2> HIDE DEF u
  <2>4. t \in Task /\ Fits(t) /\ Quiet(t)
    BY <2>2, <2>3, OnwardFits
  <2> HIDE DEF t
  <2>5. Quiet(task[p])
    BY <2>1 DEF Quiet
  <2> QED
    BY <1>1, <1>2, <2>1, <2>4, <2>5, QuietStep
<1>6. CASE Send(p)
  <2>1. Onward(p, task[p]) \in Task /\ Fits(Onward(p, task[p])) /\ Quiet(Onward(p, task[p]))
    BY <1>6, TaskInHand, OnwardFits DEF Send, At
  <2>2. /\ At(p, "send") /\ Counted(p, 1) /\ UNCHANGED <<clock, sub, payment>>
        /\ task' = [task EXCEPT ![p] = Onward(p, task[p])]
    BY <1>6 DEF Send
  <2> QED
    BY <2>1, <2>2, NoticeSent
<1>7. CASE SendFails(p)
  <2> DEFINE t == [task[p] EXCEPT !.step = "release"]
  <2>1. /\ At(p, "send") /\ UNCHANGED <<clock, sub, payment>>
        /\ task' = [task EXCEPT ![p] = t]
    BY <1>7 DEF SendFails
  <2>2. PICK k \in {0, 1} : Counted(p, k)
    BY <1>7 DEF SendFails
  <2>3. /\ t \in Task /\ t.step = "release" /\ t.job = task[p].job /\ t.todo = task[p].todo
        /\ t.subject = task[p].subject /\ t.current = task[p].current
    BY <1>1 DEF Task
  <2>4. Fits(t)
    BY <1>1, <2>1, <2>3 DEF Fits, At
  <2> HIDE DEF t
  <2> QED
    BY <2>1, <2>2, <2>3, <2>4, NoticeSent
<1>8. CASE ListRefused(p)
  <2> DEFINE found == {task[p].subject} \cap Listed("failed")
  <2>1. Finds(p, "failed", found) /\ UNCHANGED <<clock, sub, payment, heard>>
    BY <1>8 DEF ListRefused
  <2>2. Quiet(task[p]) /\ found \subseteq SubjectsOf("failed") /\ "failed" \in Jobs
    BY <1>8 DEF ListRefused, At, Quiet, SubjectsOf, Listed, Due, Jobs, MemberJobs
  <2> HIDE DEF found
  <2> QED
    BY <2>1, <2>2, FindsStep
<1>9. CASE ListDeclined(p)
  <2> DEFINE found == {task[p].payment} \cap Listed("declined")
  <2>1. Finds(p, "declined", found) /\ UNCHANGED <<clock, sub, payment, heard>>
    BY <1>9 DEF ListDeclined
  <2>2. Quiet(task[p]) /\ found \subseteq SubjectsOf("declined") /\ "declined" \in Jobs
    BY <1>9 DEF ListDeclined, At, Quiet, SubjectsOf, Listed, Due, Jobs, AdminJobs
  <2> HIDE DEF found
  <2> QED
    BY <2>1, <2>2, FindsStep
<1> QED
  BY <1>3, <1>4, <1>5, <1>6, <1>7, <1>8, <1>9, NoticeClaimed, NoticeReleased DEF TaskSteps

\* So does a job of the worker that begins.
LEMMA ListDueStep ==
    ASSUME NoticesInv, NEW job \in Jobs \ {"rule"}, ListDue(job)
    PROVE  NoticesInv'
<1>1. Worker \in Processes /\ Quiet(task[Worker])
  BY IdleTaskFits DEF Processes, ListDue, Idle
<1>2. Listed(job) \subseteq SubjectsOf(job)
  BY DEF Listed, Due, SubjectsOf, Jobs, MemberJobs, AdminJobs
<1>3. Finds(Worker, job, Listed(job)) /\ UNCHANGED <<clock, sub, payment, heard>>
  BY DEF ListDue
<1> QED
  BY <1>1, <1>2, <1>3, FindsStep

\* So does the audit that begins.
LEMMA BeginAuditStep ==
    ASSUME NoticesInv, BeginAudit
    PROVE  NoticesInv'
<1> DEFINE t == [IdleTask EXCEPT !.job = "rule", !.step = "verify", !.todo = Unverified]
<1>1. /\ task' = [task EXCEPT ![Worker] = t] /\ UNCHANGED <<clock, sub, payment, heard>>
      /\ task[Worker] = IdleTask /\ Worker \in Processes
  BY DEF BeginAudit, Idle, Processes
<1>2. t \in Task /\ t.step = "verify" /\ t.job = "rule"
  <2>1. IdleTask \in Task /\ Unverified \subseteq Subject
    BY IdleTaskFits DEF Unverified, Subject
  <2> QED
    BY <2>1 DEF Task, Jobs, AdminJobs
<1>3. Fits(t) /\ Quiet(t)
  BY <1>2 DEF Fits, Quiet
<1>4. clock' \in Nat /\ payment' \in [Payments -> PaymentState] /\ SameAlerts
  BY <1>1 DEF NoticesInv, NotificationsTypes, SameAlerts
<1> HIDE DEF t
<1> QED
  BY <1>1, <1>2, <1>3, <1>4, IdleTaskFits, QuietStep

\* The worker goes on with an expiration.
ExpiresOn(tasks) ==
    \E t \in Task : Fits(t) /\ Quiet(t) /\ tasks = [task EXCEPT ![Worker] = t]

\* The worker turns to the next stage of an expiration.
LEMMA TurnedOn ==
    ASSUME NoticesInv, task[Worker].job = "expire",
           NEW step \in {"due", "stop", "revoke"}, NEW s \in Subject \cup {None},
           NEW todo \in SUBSET Subject
    PROVE  ExpiresOn(Turned(step, s, todo))
<1> DEFINE t == [task[Worker] EXCEPT !.step = step, !.subject = s, !.todo = todo]
<1>1. task[Worker] \in Task
  BY DEF NoticesInv, NotificationsTypes, Processes
<1>2. t \in Task /\ t.step = step
  BY <1>1 DEF Task
<1>3. Fits(t) /\ Quiet(t)
  BY <1>2 DEF Fits, Quiet
<1>4. Turned(step, s, todo) = [task EXCEPT ![Worker] = t]
  BY DEF Turned
<1> QED
  BY <1>2, <1>3, <1>4 DEF ExpiresOn

\* The worker is done with a row.
LEMMA ExpiredOn ==
    ASSUME NoticesInv, task[Worker].job = "expire", NEW s
    PROVE  ExpiresOn(Expired(s))
<1>1. task[Worker].todo \ {s} \in SUBSET Subject
  BY DEF NoticesInv, NotificationsTypes, Processes, Task
<1>2. ExpiresOn([task EXCEPT ![Worker] = IdleTask])
  BY IdleTaskFits DEF ExpiresOn
<1>3. ExpiresOn(Turned("due", None, task[Worker].todo \ {s}))
  BY <1>1, TurnedOn
<1> QED
  BY <1>2, <1>3 DEF Expired

\* What the worker does of an expiration leaves the marks, or clears those of the
\* row it rewrites.
LEMMA ExpiresQuietly ==
    ASSUME NoticesInv, Quiet(task[Worker]), ExpiresOn(task'),
           UNCHANGED <<clock, sub, payment, heard>>
    PROVE  NoticesInv'
<1>1. PICK t \in Task : Fits(t) /\ Quiet(t) /\ task' = [task EXCEPT ![Worker] = t]
  BY DEF ExpiresOn
<1>2. /\ Worker \in Processes /\ clock' \in Nat
      /\ payment' \in [Payments -> PaymentState] /\ SameAlerts
  BY DEF NoticesInv, NotificationsTypes, SameAlerts, Processes
<1> QED
  BY <1>1, <1>2, QuietStep

\* A row is rewritten on the way.
LEMMA ExpiresRewriting ==
    ASSUME NoticesInv, Quiet(task[Worker]), NEW tasks, ExpiresOn(tasks), NEW s \in Subs,
           NEW row \in SubscriptionRow, NEW jobs \in SUBSET (Jobs \ {"declined"}),
           Rewrites(s, row, jobs, tasks), Clears(row, jobs), Keeps(row, sub[s], jobs),
           UNCHANGED <<clock, payment>>
    PROVE  NoticesInv'
<1>1. PICK t \in Task : Fits(t) /\ Quiet(t) /\ tasks = [task EXCEPT ![Worker] = t]
  BY DEF ExpiresOn
<1>2. Worker \in Processes /\ payment' \in [Payments -> PaymentState] /\ SameAlerts
  BY DEF NoticesInv, NotificationsTypes, SameAlerts, Processes
<1>3. Rewrites(s, row, jobs, [task EXCEPT ![Worker] = t])
  BY <1>1
<1> QED
  BY <1>1, <1>2, <1>3, RewriteStep DEF Clears, Keeps

\* The expiration begins.
LEMMA BeginExpireStep ==
    ASSUME NoticesInv, BeginExpire
    PROVE  NoticesInv'
<1> DEFINE cutoff == clock - Grace
           found  == {s \in Subs : IsDueForExpiration(sub[s], cutoff)}
           t == [IdleTask EXCEPT !.job = "expire", !.step = "due", !.todo = found,
                                 !.cutoff = cutoff]
<1>1. task[Worker] = IdleTask /\ UNCHANGED <<clock, sub, payment, heard>>
  BY DEF BeginExpire, Idle
<1>2. task' = [task EXCEPT ![Worker] = t]
  BY <1>1 DEF BeginExpire
<1>3. t \in Task /\ t.step = "due"
  <2>1. IdleTask \in Task /\ found \subseteq Subject
    BY IdleTaskFits DEF Subject
  <2>2. cutoff \in Int
    BY NotificationsAssumption DEF NoticesInv, NotificationsTypes
  <2> HIDE DEF found, cutoff
  <2> QED
    BY <2>1, <2>2 DEF Task
<1> HIDE DEF t
<1>4. Fits(t) /\ Quiet(t)
  BY <1>3 DEF Fits, Quiet
<1>5. ExpiresOn(task')
  BY <1>2, <1>3, <1>4 DEF ExpiresOn
<1> QED
  BY <1>1, <1>5, IdleTaskFits, ExpiresQuietly

\* Every step of the expiration keeps the invariant.
LEMMA ExpireStep ==
    ASSUME NoticesInv, ExpireSteps
    PROVE  NoticesInv'
<1>1. PICK s \in Subs : \/ BeginStop(s) \/ RuleStopped(s) \/ RuleNotStopped(s)
                        \/ \E fully \in BOOLEAN : Revoke(s, fully)
                        \/ RevokeFails(s)
  BY DEF ExpireSteps
<1>2. /\ task[Worker].job = "expire" /\ Quiet(task[Worker])
  BY <1>1 DEF BeginStop, RuleStopped, RuleNotStopped, Revoke, RevokeFails, Expiring, At, Quiet
<1>3. /\ s \in Subject /\ sub[s] \in SubscriptionRow /\ task[Worker].todo \in SUBSET Subject
  BY DEF Subject, NoticesInv, NotificationsTypes, Task, Processes
<1>4. /\ ExpiresOn(Expired(s)) /\ ExpiresOn(Turned("stop", s, task[Worker].todo))
      /\ ExpiresOn(Turned("revoke", s, task[Worker].todo))
  BY <1>2, <1>3, ExpiredOn, TurnedOn
<1>5. CASE BeginStop(s)
  <2>1. ExpiresOn(task') /\ UNCHANGED <<clock, sub, payment, heard>>
    BY <1>4, <1>5 DEF BeginStop
  <2> QED
    BY <1>2, <2>1, ExpiresQuietly
<1>6. CASE RuleStopped(s)
  <2> DEFINE row == RecordShutdown(sub[s], "suspended")
             tasks == Turned("revoke", s, task[Worker].todo)
  <2>1. UNCHANGED <<clock, payment>>
        /\ \/ Rewrites(s, row, {"shutdown"}, tasks)
           \/ task' = Expired(s) /\ UNCHANGED <<sub, heard>>
    BY <1>6 DEF RuleStopped
  <2>2. /\ row \in SubscriptionRow /\ {"shutdown"} \in SUBSET (Jobs \ {"declined"})
        /\ Clears(row, {"shutdown"}) /\ Keeps(row, sub[s], {"shutdown"})
    BY <1>3, RowStopped
  <2> HIDE DEF row, tasks
  <2>3. CASE Rewrites(s, row, {"shutdown"}, tasks)
    <3>1. ExpiresOn(tasks)
      BY <1>4 DEF tasks
    <3> QED
      BY <1>2, <2>1, <2>2, <2>3, <3>1, ExpiresRewriting
  <2>4. CASE task' = Expired(s) /\ UNCHANGED <<sub, heard>>
    <3>1. ExpiresOn(task')
      BY <1>4, <2>4
    <3> QED
      BY <1>2, <2>1, <2>4, <3>1, ExpiresQuietly
  <2> QED
    BY <2>1, <2>3, <2>4
<1>7. CASE RuleNotStopped(s)
  <2> DEFINE row == RecordShutdownFailure(sub[s], "check_failed")
  <2>1. UNCHANGED <<clock, payment>> /\ Rewrites(s, row, {}, Expired(s))
    BY <1>7 DEF RuleNotStopped
  <2>2. /\ row \in SubscriptionRow /\ {} \in SUBSET (Jobs \ {"declined"})
        /\ Clears(row, {}) /\ Keeps(row, sub[s], {})
    BY <1>3, RowNotStopped
  <2> HIDE DEF row
  <2> QED
    BY <1>2, <1>4, <2>1, <2>2, ExpiresRewriting
<1>8. ASSUME NEW fully \in BOOLEAN, Revoke(s, fully) PROVE NoticesInv'
  <2> DEFINE row == ExpireSubscription(sub[s], fully)
  <2>1. UNCHANGED <<clock, payment>>
        /\ \/ Rewrites(s, row, {}, Expired(s))
           \/ task' = Expired(s) /\ UNCHANGED <<sub, heard>>
    BY <1>8 DEF Revoke
  <2>2. /\ row \in SubscriptionRow /\ {} \in SUBSET (Jobs \ {"declined"})
        /\ Clears(row, {}) /\ Keeps(row, sub[s], {})
    BY <1>3, RowExpired
  <2> HIDE DEF row
  <2>3. CASE Rewrites(s, row, {}, Expired(s))
    BY <1>2, <1>4, <2>1, <2>2, <2>3, ExpiresRewriting
  <2>4. CASE task' = Expired(s) /\ UNCHANGED <<sub, heard>>
    <3>1. ExpiresOn(task')
      BY <1>4, <2>4
    <3> QED
      BY <1>2, <2>1, <2>4, <3>1, ExpiresQuietly
  <2> QED
    BY <2>1, <2>3, <2>4
<1>9. CASE RevokeFails(s)
  <2>1. ExpiresOn(task') /\ UNCHANGED <<clock, sub, payment, heard>>
    BY <1>4, <1>9 DEF RevokeFails
  <2> QED
    BY <1>2, <2>1, ExpiresQuietly
<1> QED
  BY <1>1, <1>5, <1>6, <1>7, <1>8, <1>9

\* The invariant of the notices is inductive.
LEMMA NoticesStep == NoticesInv /\ [Next]_vars => NoticesInv'
<1> SUFFICES ASSUME NoticesInv, [Next]_vars PROVE NoticesInv'
  OBVIOUS
<1>1. Worker \in Processes /\ Requests \subseteq Processes /\ clock \in Nat
  BY DEF Processes, NoticesInv, NotificationsTypes
<1>2. CASE UNCHANGED notificationVars
  BY <1>1, <1>2, QuietStutter DEF notificationVars
<1>3. ASSUME NEW h \in Requests, Asks(h) \/ RequestWorks(h) PROVE NoticesInv'
  <2>1. CASE Asks(h)
    BY <1>1, <1>2, <2>1, RenewedStep, RefusedStep DEF Asks
  <2>2. CASE RequestWorks(h)
    BY <1>1, <1>2, <2>2, TaskStep DEF RequestWorks
  <2> QED
    BY <1>3, <2>1, <2>2
<1>4. CASE AdministratorQueues
  BY <1>2, <1>4 DEF AdministratorQueues
<1>5. CASE Tick
  BY <1>1, <1>5, QuietStutter DEF Tick
<1>6. CASE AuditJob \/ ResolutionJob
  BY <1>2, <1>6, BeginAuditStep DEF AuditJob, ResolutionJob
<1>7. CASE OtherJob
  BY <1>2, <1>7, BeginExpireStep, ListDueStep DEF OtherJob, ExpireJob, BroadcastJob, NoticeJob
<1>8. CASE WorkerWorks
  BY <1>1, <1>2, <1>8, TaskStep, ExpireStep DEF WorkerWorks
<1>9. ASSUME NEW p \in Processes,
             Lose(p) \/ (AlertSwallowed(p) /\ UNCHANGED <<notificationVars, broadcastVars>>)
      PROVE  NoticesInv'
  BY <1>2, <1>9, NoticeLost DEF Lose
<1>10. CASE UNCHANGED vars
  BY <1>2, <1>10 DEF vars
<1> QED
  BY <1>3, <1>4, <1>5, <1>6, <1>7, <1>8, <1>9, <1>10 DEF Next

-----------------------------------------------------------------------------
(***************************************************************************)
(* The alerts of failed grants and revocations, and their resolutions      *)
(***************************************************************************)
ErrandTypes ==
    /\ notice' \in [Scope -> Notice]
    /\ errand' \in [Processes -> Errand]
    /\ trouble' \in [Scope -> BOOLEAN]
    /\ informed' \in [Scope -> SUBSET Admins]
    /\ mislaid' \in [Scope -> BOOLEAN]

\* A process that goes on has an errand.
LEMMA ErrandGoes ==
    ASSUME NoticesTypes, NEW p \in Processes,
           NEW step \in {"idle", "alert", "resolve", "list", "deliver"},
           NEW scopes \in SUBSET Scope, Goes(p, step, scopes)
    PROVE  errand' \in [Processes -> Errand]
BY DEF Goes, NoticesTypes, Errand

\* So has one that delivers resolutions.
LEMMA DeliversOn ==
    ASSUME NoticesTypes, NEW p \in Processes, NEW scopes \in SUBSET Scope, Delivers(p, scopes)
    PROVE  errand' \in [Processes -> Errand]
<1>1. Goes(p, "idle", scopes) \/ Goes(p, "deliver", scopes)
  BY DEF Delivers
<1> QED
  BY <1>1, ErrandGoes

\* Alerts, marks and deliveries keep the types.
LEMMA ErrandStep ==
    ASSUME NoticesTypes, NEW p \in Processes, ErrandSteps(p)
    PROVE  ErrandTypes
<1>1. /\ notice \in [Scope -> Notice] /\ errand \in [Processes -> Errand]
      /\ trouble \in [Scope -> BOOLEAN] /\ informed \in [Scope -> SUBSET Admins]
      /\ mislaid \in [Scope -> BOOLEAN]
      /\ errand[p].scopes \subseteq Scope
  BY DEF NoticesTypes, Errand
<1>2. ASSUME NEW sc \in Scope, Alert(p, sc) PROVE ErrandTypes
  <2>1. PICK got \in SUBSET (Admins \ notice[sc].notified) :
           /\ notice' = [notice EXCEPT ![sc].open = TRUE, ![sc].notified = @ \cup got]
           /\ informed' = [informed EXCEPT ![sc] = @ \cup got]
    BY <1>2 DEF Alert
  <2> DEFINE n == [notice[sc] EXCEPT !.open = TRUE, !.notified = notice[sc].notified \cup got]
  <2>2. notice[sc] \in Notice
    BY <1>1
  <2>3. n \in Notice
    BY <2>2 DEF Notice
  <2>4. notice' = [notice EXCEPT ![sc] = n]
    BY <1>1, <2>1
  <2> HIDE DEF n
  <2>5. Goes(p, "idle", {}) /\ UNCHANGED <<trouble, mislaid>>
    BY <1>2 DEF Alert
  <2>6. errand' \in [Processes -> Errand]
    BY <2>5, ErrandGoes
  <2> QED
    BY <1>1, <2>1, <2>3, <2>4, <2>5, <2>6 DEF ErrandTypes
<1>3. ASSUME NEW sc \in Scope, Resolve(p, sc) PROVE ErrandTypes
  <2>1. Goes(p, "list", {})
    BY <1>3 DEF Resolve
  <2>2. errand' \in [Processes -> Errand]
    BY <2>1, ErrandGoes
  <2>3. MarkedResolved(notice[sc]) \in Notice
    BY <1>1 DEF MarkedResolved, Notice
  <2> QED
    BY <1>1, <1>3, <2>2, <2>3 DEF Resolve, ErrandTypes
<1>4. ASSUME NEW sc \in Scope, Deliver(p, sc) PROVE ErrandTypes
  <2>1. PICK got \in SUBSET notice[sc].notified :
           /\ notice' = [notice EXCEPT ![sc] = Delivered(@, got)]
           /\ informed' = [informed EXCEPT ![sc] = @ \ got]
    BY <1>4 DEF Deliver
  <2>2. Delivered(notice[sc], got) \in Notice
    BY <1>1 DEF Delivered, NoNotice, Notice
  <2>3. Delivers(p, errand[p].scopes \ {sc}) /\ UNCHANGED <<trouble, mislaid>>
    BY <1>4 DEF Deliver
  <2>4. errand' \in [Processes -> Errand]
    BY <1>1, <2>3, DeliversOn
  <2>5. notice' \in [Scope -> Notice] /\ informed' \in [Scope -> SUBSET Admins]
    BY <1>1, <2>1, <2>2
  <2> QED
    BY <1>1, <2>3, <2>4, <2>5 DEF ErrandTypes
<1>5. ASSUME NEW sc \in Scope, NothingToDeliver(p, sc) PROVE ErrandTypes
  <2>1. /\ Delivers(p, errand[p].scopes \ {sc})
        /\ UNCHANGED <<notice, trouble, informed, mislaid>>
    BY <1>5 DEF NothingToDeliver
  <2>2. errand' \in [Processes -> Errand]
    BY <1>1, <2>1, DeliversOn
  <2> QED
    BY <1>1, <2>1, <2>2 DEF ErrandTypes
<1>6. CASE ListResolutions(p)
  <2>1. Delivers(p, OpenNotices) /\ UNCHANGED <<notice, trouble, informed, mislaid>>
    BY <1>6 DEF ListResolutions
  <2>2. errand' \in [Processes -> Errand]
    BY <2>1, DeliversOn DEF OpenNotices
  <2> QED
    BY <1>1, <2>1, <2>2 DEF ErrandTypes
<1> QED
  BY <1>2, <1>3, <1>4, <1>5, <1>6 DEF ErrandSteps

\* So does an errand that is lost.
LEMMA ErrandLostStep ==
    ASSUME NoticesTypes, NEW p \in Processes, ErrandLost(p)
    PROVE  ErrandTypes
<1>1. /\ notice \in [Scope -> Notice] /\ informed \in [Scope -> SUBSET Admins]
      /\ mislaid \in [Scope -> BOOLEAN] /\ trouble \in [Scope -> BOOLEAN]
  BY DEF NoticesTypes
<1>2. errand' \in [Processes -> Errand] /\ UNCHANGED <<notice, trouble>>
  BY ErrandGoes DEF ErrandLost
<1>3. informed' \in [Scope -> SUBSET Admins] /\ mislaid' \in [Scope -> BOOLEAN]
  <2>1. CASE AtErrand(p, "alert")
    <3>1. \E sc \in errand[p].scopes, got \in SUBSET Admins :
             /\ informed' = [informed EXCEPT ![sc] = @ \cup got]
             /\ mislaid' = [mislaid EXCEPT ![sc] = TRUE]
      <4>1. \E sc \in errand[p].scopes, got \in SUBSET Admins :
               /\ got \cap notice[sc].notified = {}
               /\ informed' = [informed EXCEPT ![sc] = @ \cup got]
               /\ mislaid' = [mislaid EXCEPT ![sc] = TRUE]
        BY <2>1 DEF ErrandLost, AtErrand
      <4> QED
        BY <4>1
    <3> QED
      BY <1>1, <3>1
  <2>2. CASE AtErrand(p, "resolve")
    <3>1. /\ mislaid' = [sc \in Scope |-> mislaid[sc] \/ sc \in errand[p].scopes]
          /\ UNCHANGED informed
      BY <2>2 DEF ErrandLost, AtErrand
    <3> QED
      BY <1>1, <3>1
  <2>3. CASE AtErrand(p, "deliver")
    <3>1. /\ UNCHANGED mislaid
          /\ \/ UNCHANGED informed
             \/ \E sc \in errand[p].scopes, got \in SUBSET Admins :
                   informed' = [informed EXCEPT ![sc] = @ \ got]
      BY <2>3 DEF ErrandLost, AtErrand
    <3> QED
      BY <1>1, <3>1
  <2>4. CASE ~AtErrand(p, "alert") /\ ~AtErrand(p, "resolve") /\ ~AtErrand(p, "deliver")
    <3>1. UNCHANGED <<informed, mislaid>>
      BY <2>4 DEF ErrandLost
    <3> QED
      BY <1>1, <3>1
  <2> QED
    BY <2>1, <2>2, <2>3, <2>4
<1> QED
  BY <1>1, <1>2, <1>3 DEF ErrandTypes

\* The types of the alerts hold in the beginning.
LEMMA NoticesTypesBegin == Init => NoticesTypes
BY DEF Init, NoticesInit, NoticesTypes, NoNotice, Notice, NoErrand, Errand

\* Every step keeps the types of the alerts.
LEMMA NoticesTypesStep == NoticesTypes /\ [Next]_vars => NoticesTypes'
<1> SUFFICES ASSUME NoticesTypes, [Next]_vars PROVE ErrandTypes
  BY DEF ErrandTypes, NoticesTypes
<1>1. /\ notice \in [Scope -> Notice] /\ trouble \in [Scope -> BOOLEAN]
      /\ informed \in [Scope -> SUBSET Admins] /\ mislaid \in [Scope -> BOOLEAN]
      /\ Worker \in Processes /\ Requests \subseteq Processes
  BY DEF NoticesTypes, Processes
<1>2. CASE UNCHANGED noticeVars
  BY <1>2 DEF noticeVars, NoticesTypes, ErrandTypes
<1>3. ASSUME NEW h \in Processes, NEW u \in Users, GrantSucceeds(h, u) \/ GrantFails(h, u)
      PROVE  ErrandTypes
  <2>1. /\ UNCHANGED <<notice, informed, mislaid>>
        /\ Goes(h, "resolve", {u}) \/ Goes(h, "alert", {u})
        /\ \E b \in BOOLEAN : trouble' = [trouble EXCEPT ![u] = b]
    BY <1>3 DEF GrantSucceeds, GrantFails
  <2>2. errand' \in [Processes -> Errand]
    BY <2>1, ErrandGoes DEF Scope
  <2> QED
    BY <1>1, <2>1, <2>2 DEF ErrandTypes
<1>4. ASSUME NEW h \in Requests, Asks(h) \/ RequestWorks(h) PROVE ErrandTypes
  BY <1>1, <1>2, <1>3, <1>4, ErrandStep DEF Asks, RequestWorks
<1>5. CASE AdministratorQueues \/ Tick
  BY <1>2, <1>5 DEF AdministratorQueues, Tick
<1>6. CASE ResolutionJob
  <2>1. Delivers(Worker, OpenNotices) /\ UNCHANGED <<notice, trouble, informed, mislaid>>
    BY <1>6 DEF ResolutionJob, RetryResolutions
  <2>2. errand' \in [Processes -> Errand]
    BY <1>1, <2>1, DeliversOn DEF OpenNotices
  <2> QED
    BY <1>1, <2>1, <2>2 DEF ErrandTypes
<1>7. CASE AuditJob \/ OtherJob
  BY <1>2, <1>7 DEF AuditJob, OtherJob, ExpireJob, BeginExpire, BroadcastJob, NoticeJob
<1>8. ASSUME NEW s \in Subs,
             \/ BeginStop(s) \/ RuleStopped(s) \/ RuleNotStopped(s)
             \/ \E fully \in BOOLEAN : Revoke(s, fully)
             \/ RevokeFails(s)
      PROVE  ErrandTypes
  <2>0. s \in Scope
    BY DEF Scope
  <2>1. CASE BeginStop(s) \/ RuleStopped(s) \/ RuleNotStopped(s)
    BY <1>2, <2>1 DEF BeginStop, RuleStopped, RuleNotStopped
  <2>2. ASSUME NEW fully \in BOOLEAN, Revoke(s, fully) PROVE ErrandTypes
    <3>1. /\ UNCHANGED <<errand, informed, mislaid>>
          /\ \/ UNCHANGED <<notice, trouble>>
             \/ /\ notice' = [notice EXCEPT ![s] = MarkedResolved(@)]
                /\ trouble' = [trouble EXCEPT ![s] = FALSE]
      BY <2>2 DEF Revoke
    <3>2. MarkedResolved(notice[s]) \in Notice
      BY <1>1, <2>0 DEF MarkedResolved, Notice
    <3>3. errand' \in [Processes -> Errand]
      BY <3>1 DEF NoticesTypes
    <3> QED
      BY <1>1, <3>1, <3>2, <3>3 DEF ErrandTypes
  <2>3. CASE RevokeFails(s)
    <3>1. /\ UNCHANGED <<notice, informed, mislaid>> /\ Goes(Worker, "alert", {s})
          /\ trouble' = [trouble EXCEPT ![s] = TRUE]
      BY <2>3 DEF RevokeFails
    <3>2. errand' \in [Processes -> Errand]
      BY <1>1, <2>0, <3>1, ErrandGoes
    <3> QED
      BY <1>1, <3>1, <3>2 DEF ErrandTypes
  <2> QED
    BY <1>8, <2>1, <2>2, <2>3
<1>9. CASE WorkerWorks
  BY <1>1, <1>2, <1>8, <1>9, ErrandStep DEF WorkerWorks, ExpireSteps
<1>10. ASSUME NEW p \in Processes,
              Lose(p) \/ (AlertSwallowed(p) /\ UNCHANGED <<notificationVars, broadcastVars>>)
       PROVE  ErrandTypes
  BY <1>10, ErrandLostStep DEF Lose, AlertSwallowed
<1>11. CASE UNCHANGED vars
  BY <1>2, <1>11 DEF vars
<1> QED
  BY <1>4, <1>5, <1>6, <1>7, <1>9, <1>10, <1>11 DEF Next

-----------------------------------------------------------------------------
(***************************************************************************)
(* What holds of the worker and the requests                               *)
(***************************************************************************)
\* Every variable keeps its type: the rows stay rows of the database, a task has
\* only subscriptions and payments in hand, and the bounds are kept.
THEOREM TypeCorrect == Spec => []TypeOK
<1>1. Init => BroadcastsInv /\ NoticesInv /\ NoticesTypes
  BY BroadcastsBegin, NoticesBegin, NoticesTypesBegin
<1>2. BroadcastsInv /\ NoticesInv /\ NoticesTypes /\ [Next]_vars
         => (BroadcastsInv /\ NoticesInv /\ NoticesTypes)'
  BY BroadcastsStep, NoticesStep, NoticesTypesStep
<1>3. BroadcastsInv /\ NoticesInv /\ NoticesTypes => TypeOK
  BY DEF BroadcastsInv, NoticesInv, TypeOK
<1> QED
  BY <1>1, <1>2, <1>3, PTL DEF Spec

\* A member, and the administrators, hear of an incident once unless a delivery of
\* it was reported to have failed, and a row is marked only if they have heard, if
\* somebody is about to tell them, or if who claimed it was lost.
THEOREM NoticesAlwaysTold == Spec => []NoticesAreTold
<1>1. NoticesInv => NoticesAreTold
  <2> SUFFICES ASSUME NoticesInv, NEW n \in Notices
               PROVE  heard[n].told <= 1 + heard[n].released
    BY DEF NoticesInv, NoticesAreTold, ToldOnce
  <2>1. heard[n].told \in Nat /\ heard[n].released \in Nat /\ Cardinality(Senders(n)) \in Nat
    BY SendersFinite DEF NoticesInv, NotificationsTypes, Heard
  <2>2. heard[n].told + Cardinality(Senders(n))
           <= heard[n].released + (IF Marked(n[1], n[2]) THEN 1 ELSE 0)
    BY DEF NoticesInv, Tally
  <2> QED
    BY <2>1, <2>2
<1> QED
  BY <1>1, NoticesBegin, NoticesStep, PTL DEF Spec

=============================================================================
