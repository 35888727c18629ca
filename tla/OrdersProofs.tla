---------------------------- MODULE OrdersProofs ----------------------------
(***************************************************************************)
(* What the payments of Billing buy: which checkouts become subscriptions, *)
(* whose renewals extend them, and that no renewal is forgotten.           *)
(***************************************************************************)
EXTENDS BillingProofs

-----------------------------------------------------------------------------
(***************************************************************************)
(* The invariant                                                           *)
(***************************************************************************)
\* A checkout has the prices it was created with, was paid before it became a
\* subscription, and becomes one for its owner.
CheckoutsSound ==
    \A c \in Checkouts :
        /\ checkout[c].status # "none" =>
              /\ checkout[c].recurring_amount = Price
              /\ checkout[c].amount \in {Price, TrialPrice}
        /\ checkout[c].status \in {"paid", "claimed"} => FirstPaymentRecorded(c)
        /\ Exists(c) <=> checkout[c].status = "claimed"
        /\ Exists(c) => checkout[c].owner # None

\* Only a paid checkout is claimed this way, by the account that may own it.
ClaimsSound ==
    \A c \in Checkouts : Claiming(c) =>
        /\ checkout[c].status \in {"paid", "claimed"}
        /\ checkout[c].owner \in {None, claim[c].user}
        /\ claim[c].base.status # "none" /\ claim[c].work.status # "none"

\* The reconciliation works on subscriptions, with payments of their price.
ReconSound ==
    /\ \A c \in recon.locked : Exists(c) /\ recon.work[c].status # "none"
    /\ \A e \in recon.done : e.amount = Price /\ e.ref \in recon.locked

\* The provider knows only orders that were created.
SentSound ==
    /\ \A h \in Handlers : handler[h].event # None => handler[h].event \in sent
    /\ \A e \in sent : e.ref \in Checkouts => checkout[e.ref].status # "none"

\* What is kept for a checkout is of its own reference and of its price.
StoredSound ==
    \A e \in Events : Stored(e) =>
        /\ e \in sent
        /\ payment[e].checkout \in {None, e.ref}
        /\ (/\ payment[e].checkout # None /\ ~KnownPlain(e)
            /\ e.approved /\ ~payment[e].failed) => e.amount = Price

\* What has moved a date was an approval of the price of a subscription.
GrantsSound ==
    \A e \in Events : grants[e] > 0 =>
        /\ e.approved /\ ~payment[e].failed /\ e.amount = Price
        /\ payment[e].subscription \in Checkouts
        /\ Exists(payment[e].subscription)

Orders ==
    /\ CheckoutsSound /\ ClaimsSound /\ ReconSound
    /\ SentSound /\ StoredSound /\ GrantsSound

-----------------------------------------------------------------------------
(***************************************************************************)
(* What every step keeps                                                   *)
(***************************************************************************)
\* No statement un-stores a payment, forgets its checkout or refuses it later.
PaymentsStay ==
    \A e \in Events : Stored(e) =>
        /\ Stored(e)' /\ payment'[e].checkout = payment[e].checkout
        /\ ~payment[e].failed => ~payment'[e].failed

\* The approval of the first amount stays on record.
LEMMA RecordStays ==
    ASSUME TypeOK, PaymentsStay, CheckoutsStay, NEW c \in Checkouts,
           checkout[c].status # "none", FirstPaymentRecorded(c)
    PROVE  FirstPaymentRecorded(c)'
<1>1. PICK e \in Events : /\ FirstCharge(e, c) /\ Stored(e)
                          /\ payment[e].checkout = c /\ ~payment[e].failed
  BY DEF FirstPaymentRecorded
<1>2. FirstCharge(e, c)'
  BY <1>1 DEF CheckoutsStay, FirstCharge, KnownPlain
<1> QED
  BY <1>1, <1>2 DEF PaymentsStay, FirstPaymentRecorded

\* No payment makes a row disappear.
LEMMA ExtendedStatus ==
    ASSUME NEW s \in SubscriptionRow, NEW m, NEW t
    PROVE  ExtendSubscription(s, m, t).status = "active"
  BY DEF ExtendSubscription, SubscriptionRow

\* A refused payment leaves the row past due.
LEMMA FailedStatus ==
    ASSUME NEW s \in SubscriptionRow
    PROVE  ApplyFailedPayment(s).status = "past_due"
  BY DEF ApplyFailedPayment, SubscriptionRow

\* Deferred payments are applied to a row that exists, and it goes on existing.
LEMMA AppliedStatus ==
    ASSUME NEW s \in SubscriptionRow, NEW e, s.status # "none"
    PROVE  ApplyDeferred(s, e).status # "none"
  BY ExtendedStatus, FailedStatus DEF ApplyDeferred

\* What a step that writes neither the payments nor the checkouts has to show.
LEMMA UnwrittenStay ==
    ASSUME UNCHANGED <<payment, checkout>>
    PROVE  PaymentsStay /\ CheckoutsStay
  BY DEF PaymentsStay, CheckoutsStay, Stored

-----------------------------------------------------------------------------
(***************************************************************************)
(* The steps                                                               *)
(***************************************************************************)
\* A new checkout has its prices and nobody has paid it.
LEMMA CreateKeepsOrders ==
    ASSUME TypeOK, PaymentsInv, Orders, NEW c \in Checkouts, NEW u \in Users \cup {None},
           NEW r \in Users \cup {None}, CreateCheckout(c, u, r)
    PROVE  Orders' /\ PaymentsStay /\ CheckoutsStay
<1>1. /\ UNCHANGED <<sub, payment, sent, handler, claim, recon, grants>>
      /\ checkout[c].status = "none"
      /\ checkout'[c].status = "created"
      /\ checkout'[c].recurring_amount = Price
      /\ checkout'[c].amount \in {Price, TrialPrice}
      /\ \A d \in Checkouts : d # c => checkout'[d] = checkout[d]
  BY DEF CreateCheckout, TypeOK
<1>2. PaymentsStay /\ CheckoutsStay
  BY <1>1 DEF PaymentsStay, CheckoutsStay, Stored
<1>3. CheckoutsSound'
  <2> SUFFICES ASSUME NEW d \in Checkouts
               PROVE  /\ checkout'[d].status # "none" =>
                            /\ checkout'[d].recurring_amount = Price
                            /\ checkout'[d].amount \in {Price, TrialPrice}
                      /\ checkout'[d].status \in {"paid", "claimed"} =>
                            FirstPaymentRecorded(d)'
                      /\ Exists(d)' <=> checkout'[d].status = "claimed"
                      /\ Exists(d)' => checkout'[d].owner # None
    BY DEF CheckoutsSound
  <2>1. CASE d = c
    BY <1>1, <2>1 DEF Orders, CheckoutsSound, Exists
  <2>2. CASE d # c
    BY <1>1, <1>2, <2>2, RecordStays DEF Orders, CheckoutsSound, Exists
  <2> QED
    BY <2>1, <2>2
<1>4. ClaimsSound' /\ ReconSound'
  BY <1>1 DEF Orders, ClaimsSound, ReconSound, Claiming, Exists
<1>5. SentSound' /\ StoredSound'
  BY <1>1 DEF Orders, SentSound, StoredSound, Stored, KnownPlain
<1>6. GrantsSound'
  BY <1>1 DEF Orders, GrantsSound, Exists
<1> QED
  BY <1>2, <1>3, <1>4, <1>5, <1>6 DEF Orders

\* A link that is opened binds an account to an unpaid checkout.
LEMMA ClaimUnpaidKeepsOrders ==
    ASSUME TypeOK, PaymentsInv, Orders, NEW c \in Checkouts, NEW u \in Users,
           ClaimUnpaid(c, u)
    PROVE  Orders' /\ PaymentsStay /\ CheckoutsStay
<1>1. /\ UNCHANGED <<sub, payment, sent, handler, claim, recon, grants>>
      /\ checkout[c].status = "created" /\ ~Claiming(c)
      /\ checkout[c].owner \in {None, u}
      /\ checkout'[c] = [checkout[c] EXCEPT !.owner = u]
      /\ \A d \in Checkouts : d # c => checkout'[d] = checkout[d]
  BY DEF ClaimUnpaid, MayClaim, TypeOK
<1>2. /\ checkout'[c].status = checkout[c].status
      /\ checkout'[c].amount = checkout[c].amount
      /\ checkout'[c].recurring_amount = checkout[c].recurring_amount
      /\ checkout'[c].owner = u
  BY <1>1 DEF TypeOK, CheckoutRow
<1>3. PaymentsStay /\ CheckoutsStay
  BY <1>1, <1>2 DEF PaymentsStay, CheckoutsStay, Stored
<1>4. CheckoutsSound'
  BY <1>1, <1>2, <1>3, RecordStays, ZenonT(60) DEF Orders, CheckoutsSound, Exists
<1>5. ClaimsSound' /\ ReconSound'
  BY <1>1 DEF Orders, ClaimsSound, ReconSound, Claiming, Exists
<1>6. SentSound' /\ StoredSound'
  BY <1>1, <1>2 DEF Orders, SentSound, StoredSound, Stored, KnownPlain
<1>7. GrantsSound'
  BY <1>1 DEF Orders, GrantsSound, Exists
<1> QED
  BY <1>3, <1>4, <1>5, <1>6, <1>7 DEF Orders

\* A claim works on a row that exists or on the one it will insert.
LEMMA ClaimingKeepsOrders ==
    ASSUME TypeOK, PaymentsInv, Orders, NEW c \in Checkouts,
           \/ \E u \in Users : BeginClaim(c, u)
           \/ DrainDeferred(c)
           \/ CrashClaim(c)
    PROVE  Orders' /\ PaymentsStay /\ CheckoutsStay
<1>1. UNCHANGED <<checkout, sub, payment, sent, handler, recon, grants>>
  BY DEF BeginClaim, DrainDeferred, CrashClaim
<1>2. \A d \in Checkouts : d # c => claim'[d] = claim[d]
  BY DEF BeginClaim, DrainDeferred, CrashClaim, TypeOK
<1>3. claim'[c].user # None =>
          /\ checkout[c].status \in {"paid", "claimed"}
          /\ checkout[c].owner \in {None, claim'[c].user}
          /\ claim'[c].base.status # "none" /\ claim'[c].work.status # "none"
  <2>1. CASE \E u \in Users : BeginClaim(c, u)
    <3>1. PICK u \in Users : BeginClaim(c, u)
      BY <2>1
    <3> DEFINE row == IF Exists(c) THEN sub[c] ELSE ActivatedRow(c, checkout[c].paid_at)
    <3>2. row.status # "none"
      BY DEF Exists, ActivatedRow, NewSubscription
    <3>3. claim'[c] = [user |-> u, base |-> row, work |-> row,
                       held |-> Deferred(c), todo |-> Deferred(c)]
      BY <3>1 DEF BeginClaim, TypeOK
    <3> QED
      BY <3>1, <3>2, <3>3 DEF BeginClaim, MayClaim
  <2>2. CASE DrainDeferred(c)
    <3>1. PICK e \in claim[c].todo : claim' = [claim EXCEPT
              ![c].work = ApplyDeferred(@, e),
              ![c].todo = @ \ {e}]
      BY <2>2 DEF DrainDeferred, Earliest
    <3>2. /\ claim'[c].user = claim[c].user /\ claim'[c].base = claim[c].base
          /\ claim'[c].work = ApplyDeferred(claim[c].work, e)
      BY <3>1 DEF TypeOK, ClaimState
    <3>3. claim[c].work.status # "none" => ApplyDeferred(claim[c].work, e).status # "none"
      BY AppliedStatus DEF TypeOK, ClaimState
    <3> QED
      BY <3>2, <3>3 DEF Orders, ClaimsSound, Claiming
  <2>3. CASE CrashClaim(c)
    BY <2>3 DEF CrashClaim, IdleClaim, TypeOK
  <2> QED
    BY <2>1, <2>2, <2>3
<1>4. ClaimsSound'
  BY <1>1, <1>2, <1>3 DEF Orders, ClaimsSound, Claiming
<1>5. CheckoutsSound'
  BY <1>1 DEF Orders, CheckoutsSound, Exists, FirstPaymentRecorded, FirstCharge,
              KnownPlain, Stored
<1>6. ReconSound' /\ SentSound' /\ StoredSound' /\ GrantsSound'
  BY <1>1 DEF Orders, ReconSound, SentSound, StoredSound, GrantsSound, Exists, Stored,
              KnownPlain
<1> QED
  BY <1>1, <1>4, <1>5, <1>6, UnwrittenStay DEF Orders

\* The commit of a claim opens the subscription for the account that claims; what
\* it links had moved no date, and what it applies was kept for the price.
LEMMA CommitClaimKeepsOrders ==
    ASSUME TypeOK, PaymentsInv, Orders, NEW c \in Checkouts, CommitClaim(c)
    PROVE  Orders' /\ PaymentsStay /\ CheckoutsStay
<1> DEFINE u      == claim[c].user
           linked == {e \in Events : Stored(e) /\ payment[e].subscription = None
                        /\ payment[e].checkout = c
                        /\ \/ e \in claim[c].held /\ Settles(e)
                           \/ e.approved /\ ~payment[e].failed}
           paying == {e \in claim[c].held : e.approved /\ Settles(e)}
<1>1. /\ UNCHANGED <<sent, handler, recon>>
      /\ sub' = [sub EXCEPT ![c] =
              IF Exists(c) THEN Flush(claim[c].base, claim[c].work, @)
              ELSE claim[c].work]
      /\ checkout' = [checkout EXCEPT ![c] =
              [@ EXCEPT !.owner = u, !.status = "claimed"]]
      /\ payment' = [e \in Events |->
              IF e \in linked THEN [payment[e] EXCEPT !.subscription = c]
              ELSE payment[e]]
      /\ grants' = [e \in Events |->
              IF e \in paying THEN grants[e] + 1 ELSE grants[e]]
      /\ claim' = [claim EXCEPT ![c] = IdleClaim]
      /\ Claiming(c)
  BY DEF CommitClaim
<1>2. claim[c].held = Deferred(c)
  BY <1>1 DEF PaymentsInv, ClaimsHoldDeferred
<1>3. \A e \in paying : /\ e \in linked /\ e \in Events /\ e.approved
                        /\ ~payment[e].failed /\ Stored(e)
                        /\ payment[e].checkout = c /\ ~KnownPlain(e)
  BY <1>2 DEF Deferred, Settles
<1>4. \A e \in Events :
          /\ Stored(e)' = Stored(e)
          /\ payment'[e].checkout = payment[e].checkout
          /\ payment'[e].failed = payment[e].failed
          /\ payment'[e].subscription = IF e \in linked THEN c
                                        ELSE payment[e].subscription
  BY <1>1 DEF Stored, TypeOK, PaymentRow
<1>5. \A e \in Events : e \notin paying => grants'[e] = grants[e]
  BY <1>1
<1>6. \A e \in linked : payment[e].subscription = None
  OBVIOUS
<1> HIDE DEF linked, paying
<1>7. /\ checkout'[c].owner = u /\ checkout'[c].status = "claimed"
      /\ checkout'[c].amount = checkout[c].amount
      /\ checkout'[c].recurring_amount = checkout[c].recurring_amount
      /\ checkout'[c].paid_at = checkout[c].paid_at
      /\ \A d \in Checkouts : d # c =>
            checkout'[d] = checkout[d] /\ claim'[d] = claim[d] /\ sub'[d] = sub[d]
      /\ claim'[c].user = None
  BY <1>1 DEF TypeOK, CheckoutRow, IdleClaim
<1>8. /\ checkout[c].status \in {"paid", "claimed"} /\ checkout[c].owner \in {None, u}
      /\ claim[c].base.status # "none" /\ claim[c].work.status # "none" /\ u # None
  BY <1>1 DEF Orders, ClaimsSound, Claiming
<1>9. Exists(c)'
  <2>1. CASE Exists(c)
    <3>1. /\ sub'[c].status = IF claim[c].work.status # claim[c].base.status
                              THEN claim[c].work.status ELSE sub[c].status
      BY <1>1, <2>1 DEF TypeOK, SubscriptionRow, Flush
    <3> QED
      BY <1>8, <2>1, <3>1 DEF Exists
  <2>2. CASE ~Exists(c)
    BY <1>1, <1>8, <2>2 DEF TypeOK, Exists
  <2> QED
    BY <2>1, <2>2
<1>10. \A d \in Checkouts : Exists(d) => Exists(d)'
  BY <1>7, <1>9 DEF Exists
<1>11. PaymentsStay
  BY <1>4 DEF PaymentsStay
<1>12. CheckoutsStay
  BY <1>7, <1>8 DEF CheckoutsStay
<1>13. CheckoutsSound'
  <2>1. \A d \in Checkouts : checkout'[d].status \in {"paid", "claimed"} =>
                FirstPaymentRecorded(d)'
    <3> SUFFICES ASSUME NEW d \in Checkouts, checkout'[d].status \in {"paid", "claimed"}
                 PROVE  FirstPaymentRecorded(d)'
      OBVIOUS
    <3>1. checkout[d].status \in {"paid", "claimed"}
      BY <1>7, <1>8
    <3> QED
      BY <1>11, <1>12, <3>1, RecordStays DEF Orders, CheckoutsSound
  <2> QED
    BY <1>7, <1>8, <1>9, <2>1 DEF Orders, CheckoutsSound, Exists
<1>14. ClaimsSound'
  BY <1>7 DEF Orders, ClaimsSound, Claiming
<1>15. ReconSound'
  <2>1. recon.locked \subseteq Checkouts
    BY DEF TypeOK, ReconState
  <2> QED
    BY <1>1, <1>10, <2>1 DEF Orders, ReconSound
<1>16. SentSound'
  BY <1>1, <1>7 DEF Orders, SentSound
<1>17. StoredSound'
  BY <1>1, <1>4 DEF Orders, StoredSound, KnownPlain
<1>18. GrantsSound'
  <2> SUFFICES ASSUME NEW e \in Events, grants'[e] > 0
               PROVE  /\ e.approved /\ ~payment'[e].failed /\ e.amount = Price
                      /\ payment'[e].subscription \in Checkouts
                      /\ Exists(payment[e].subscription)'
    BY DEF GrantsSound, Exists
  <2>1. CASE e \in paying
    <3>1. e.amount = Price
      BY <1>3, <2>1, BillingAssumption DEF Orders, StoredSound
    <3> QED
      BY <1>3, <1>4, <1>9, <2>1, <3>1
  <2>2. CASE e \notin paying
    <3>1. grants[e] > 0
      BY <1>5, <2>2
    <3>2. payment[e].subscription # None
      BY <3>1 DEF PaymentsInv, GrantedAreLinked
    <3>3. e \notin linked
      BY <1>6, <3>2
    <3> QED
      BY <1>4, <1>10, <3>1, <3>3 DEF Orders, GrantsSound
  <2> QED
    BY <2>1, <2>2
<1> QED
  BY <1>11, <1>12, <1>13, <1>14, <1>15, <1>16, <1>17, <1>18 DEF Orders

\* The reconciliation and its commit.
LEMMA ReconcilingKeepsOrders ==
    ASSUME TypeOK, PaymentsInv, Orders,
           BeginReconcile \/ ReconcileNext \/ CrashReconcile
    PROVE  Orders' /\ PaymentsStay /\ CheckoutsStay
<1>1. UNCHANGED <<checkout, sub, payment, sent, handler, claim, grants>>
  BY DEF BeginReconcile, ReconcileNext, ReconcileOne, CrashReconcile
<1>2. ReconSound'
  <2>1. CASE BeginReconcile \/ CrashReconcile
    <3>1. CASE BeginReconcile
      <4>1. PICK free : recon' = [IdleRecon EXCEPT !.running = TRUE, !.held = free,
                                                   !.todo = free]
        BY <3>1 DEF BeginReconcile
      <4> QED
        BY <4>1 DEF IdleRecon, ReconSound, Exists
    <3>2. CASE CrashReconcile
      BY <3>2 DEF CrashReconcile, IdleRecon, ReconSound, Exists
    <3> QED
      BY <2>1, <3>1, <3>2
  <2>2. CASE ReconcileNext
    <3>1. PICK e \in Earliest(recon.todo) : ReconcileOne(e)
      BY <2>2 DEF ReconcileNext
    <3>2. e \in Events
      BY DEF Earliest, TypeOK, ReconState
    <3> DEFINE c     == e.ref
               known == c # Foreign /\ Exists(c)
               row   == IF c \in recon.locked THEN recon.work[c] ELSE sub[c]
               takes == known /\ e.amount = checkout[c].recurring_amount
    <3>3. /\ recon'.done   = (IF takes THEN recon.done \cup {e} ELSE recon.done)
          /\ recon'.locked = (IF known THEN recon.locked \cup {c} ELSE recon.locked)
          /\ recon'.work   = IF ~known THEN recon.work
                             ELSE IF takes THEN [recon.work EXCEPT ![c] = ReconciledRow(row, e)]
                             ELSE [recon.work EXCEPT ![c] = row]
      BY <3>1 DEF ReconcileOne, TypeOK, ReconState
    <3>4. CASE ~known
      BY <1>1, <3>3, <3>4 DEF Orders, ReconSound, Exists
    <3>5. CASE known
      <4>1. c \in Checkouts
        BY <3>2, <3>5, BillingAssumption
      <4>2. row \in SubscriptionRow /\ row.status # "none"
        BY <3>5, <4>1 DEF Orders, ReconSound, Exists, TypeOK, ReconState
      <4> HIDE DEF row
      <4>3. ReconciledRow(row, e).status # "none"
        BY <4>2, ExtendedStatus, FailedStatus DEF ReconciledRow
      <4>4. /\ recon'.work[c].status # "none"
            /\ \A d \in Checkouts : d # c => recon'.work[d] = recon.work[d]
        BY <3>3, <3>5, <4>1, <4>2, <4>3 DEF TypeOK, ReconState
      <4>5. takes => e.amount = Price
        BY <3>5, <4>1 DEF Orders, CheckoutsSound
      <4>6. recon.locked \subseteq Checkouts
        BY DEF TypeOK, ReconState
      <4> HIDE DEF takes
      <4> QED
        BY <1>1, <3>3, <3>5, <4>1, <4>4, <4>5, <4>6 DEF Orders, ReconSound, Exists
    <3> QED
      BY <3>4, <3>5
  <2> QED
    BY <2>1, <2>2
<1>3. CheckoutsSound'
  BY <1>1 DEF Orders, CheckoutsSound, Exists, FirstPaymentRecorded, FirstCharge,
              KnownPlain, Stored
<1>4. ClaimsSound' /\ SentSound' /\ StoredSound' /\ GrantsSound'
  BY <1>1 DEF Orders, ClaimsSound, SentSound, StoredSound, GrantsSound, Exists, Stored,
              KnownPlain, Claiming
<1> QED
  BY <1>1, <1>2, <1>3, <1>4, UnwrittenStay DEF Orders

\* The reconciliation keeps the order of the payments.
LEMMA CommitReconcileKeepsOrders ==
    ASSUME TypeOK, PaymentsInv, Orders, CommitReconcile
    PROVE  Orders' /\ PaymentsStay /\ CheckoutsStay
<1>1. /\ UNCHANGED <<checkout, sent, handler, claim>>
      /\ sub' = [c \in Checkouts |->
              IF c \in recon.locked THEN recon.work[c] ELSE sub[c]]
      /\ payment' = [e \in Events |->
              IF e \notin recon.done THEN payment[e]
              ELSE [payment[e] EXCEPT !.subscription = e.ref,
                                      !.failed       = @ /\ ~e.approved]]
      /\ grants' = [e \in Events |->
              IF e \in recon.done /\ e.approved THEN grants[e] + 1 ELSE grants[e]]
      /\ recon' = IdleRecon
  BY DEF CommitReconcile
<1>2. \A e \in recon.done :
          /\ e \in Events /\ e.ref \in Checkouts /\ e.ref \in recon.locked
          /\ e.recurring /\ e.amount = Price /\ payment[e].subscription = None
  BY BillingAssumption
     DEF PaymentsInv, ReconHoldsUnlinked, Orders, ReconSound, TypeOK, ReconState
<1>3. \A e \in Events :
          /\ Stored(e)' = Stored(e)
          /\ payment'[e].checkout = payment[e].checkout
          /\ payment'[e].failed = (payment[e].failed /\ (e \in recon.done => ~e.approved))
          /\ payment'[e].subscription = IF e \in recon.done THEN e.ref
                                        ELSE payment[e].subscription
  BY <1>1 DEF Stored, TypeOK, PaymentRow
<1>4. \A c \in Checkouts : Exists(c)' <=> Exists(c)
  BY <1>1 DEF Orders, ReconSound, Exists
<1>5. PaymentsStay /\ CheckoutsStay
  BY <1>1, <1>3 DEF PaymentsStay, CheckoutsStay
<1>6. CheckoutsSound'
  BY <1>1, <1>4, <1>5, RecordStays DEF Orders, CheckoutsSound
<1>7. ClaimsSound' /\ ReconSound' /\ SentSound'
  BY <1>1 DEF Orders, ClaimsSound, ReconSound, SentSound, Claiming, IdleRecon
<1>8. StoredSound'
  <2> SUFFICES ASSUME NEW e \in Events, Stored(e)
               PROVE  /\ e \in sent'
                      /\ payment'[e].checkout \in {None, e.ref}
                      /\ (/\ payment'[e].checkout # None /\ ~KnownPlain(e)
                          /\ e.approved /\ ~payment'[e].failed) => e.amount = Price
    BY <1>3 DEF StoredSound, KnownPlain
  <2> QED
    BY <1>1, <1>2, <1>3 DEF Orders, StoredSound
<1>9. GrantsSound'
  <2> SUFFICES ASSUME NEW e \in Events, grants'[e] > 0
               PROVE  /\ e.approved /\ ~payment'[e].failed /\ e.amount = Price
                      /\ payment'[e].subscription \in Checkouts
                      /\ Exists(payment[e].subscription)'
    BY DEF GrantsSound, Exists
  <2>1. CASE e \in recon.done /\ e.approved
    BY <1>2, <1>3, <1>4, <2>1 DEF Orders, ReconSound
  <2>2. CASE ~(e \in recon.done /\ e.approved)
    <3>1. grants[e] > 0
      BY <1>1, <2>2
    <3>2. e.approved /\ ~payment[e].failed /\ e.amount = Price
          /\ payment[e].subscription \in Checkouts /\ Exists(payment[e].subscription)
      BY <3>1 DEF Orders, GrantsSound
    <3> QED
      BY <1>3, <1>4, <2>2, <3>2
  <2> QED
    BY <2>1, <2>2
<1> QED
  BY <1>5, <1>6, <1>7, <1>8, <1>9 DEF Orders

\* A step that rewrites rows of existing subscriptions only.
LEMMA RewriteKeepsOrders ==
    ASSUME TypeOK, PaymentsInv, Orders, NEW c \in Checkouts, Expire(c)
    PROVE  Orders' /\ PaymentsStay /\ CheckoutsStay
<1>1. UNCHANGED <<checkout, payment, sent, handler, claim, recon, grants>>
  BY DEF Expire
<1>2. \A d \in Checkouts : Exists(d)' <=> Exists(d)
  <2>1. sub[c].status # "none"
    BY DEF Expire, IsDueForExpiration, Entitled
  <2>2. sub'[c].status = "expired"
    BY DEF Expire, ExpireSubscription, TypeOK, SubscriptionRow
  <2>3. \A d \in Checkouts : d # c => sub'[d] = sub[d]
    BY DEF Expire, TypeOK
  <2> QED
    BY <2>1, <2>2, <2>3 DEF Exists
<1>3. CheckoutsSound'
  BY <1>1, <1>2 DEF Orders, CheckoutsSound, FirstPaymentRecorded, FirstCharge,
                    KnownPlain, Stored
<1>4. ReconSound' /\ GrantsSound'
  <2>1. recon.locked \subseteq Checkouts
    BY DEF TypeOK, ReconState
  <2> QED
    BY <1>1, <1>2, <2>1 DEF Orders, ReconSound, GrantsSound
<1>5. ClaimsSound' /\ SentSound' /\ StoredSound'
  BY <1>1 DEF Orders, ClaimsSound, SentSound, StoredSound, Claiming, Stored, KnownPlain
<1> QED
  BY <1>1, <1>3, <1>4, <1>5, UnwrittenStay DEF Orders

\* The steps that write none of the tables the invariant relates.
LEMMA OtherStepsKeepOrders ==
    ASSUME TypeOK, PaymentsInv, Orders,
           \/ \E c \in Checkouts : ClaimMetaPurchase(c)
           \/ \E h \in Handlers, e \in Events : ReceiveCallback(h, e)
           \/ \E h \in Handlers : RejectDuplicate(h) \/ CrashHandler(h)
           \/ \E e \in Events : ProviderSends(e)
           \/ Tick
           \/ UNCHANGED vars
    PROVE  Orders' /\ PaymentsStay /\ CheckoutsStay
<1>1. UNCHANGED <<checkout, sub, payment, claim, recon, grants>>
  BY DEF ClaimMetaPurchase, ReceiveCallback, RejectDuplicate, CrashHandler,
         ProviderSends, Tick, vars
<1>2. CheckoutsSound' /\ ClaimsSound' /\ ReconSound' /\ GrantsSound'
  BY <1>1 DEF Orders, CheckoutsSound, ClaimsSound, ReconSound, GrantsSound, Exists,
              Claiming, FirstPaymentRecorded, FirstCharge, KnownPlain, Stored
<1>3. SentSound' /\ sent \subseteq sent'
  <2>1. CASE \E h \in Handlers, e \in Events : ReceiveCallback(h, e)
    <3>1. PICK h \in Handlers, e \in Events : ReceiveCallback(h, e)
      BY <2>1
    <3> QED
      BY <3>1 DEF ReceiveCallback, Orders, SentSound, TypeOK
  <2>2. CASE \E h \in Handlers : RejectDuplicate(h) \/ CrashHandler(h)
    <3>1. PICK h \in Handlers : RejectDuplicate(h) \/ CrashHandler(h)
      BY <2>2
    <3> QED
      BY <3>1 DEF RejectDuplicate, CrashHandler, IdleHandler, Orders, SentSound, TypeOK
  <2>3. CASE \E e \in Events : ProviderSends(e)
    BY <2>3 DEF ProviderSends, Orders, SentSound
  <2>4. CASE \/ \E c \in Checkouts : ClaimMetaPurchase(c)
             \/ Tick \/ UNCHANGED vars
    BY <2>4 DEF ClaimMetaPurchase, Tick, vars, Orders, SentSound
  <2> QED
    BY <2>1, <2>2, <2>3, <2>4
<1>4. StoredSound'
  BY <1>1, <1>3 DEF Orders, StoredSound, Stored, KnownPlain
<1> QED
  BY <1>1, <1>2, <1>3, <1>4, UnwrittenStay DEF Orders

-----------------------------------------------------------------------------
(***************************************************************************)
(* The callbacks                                                           *)
(***************************************************************************)
\* What a request knows when it commits: its callback was sent and moved no date,
\* a subscription it goes on with is there, and one it does not find is not.
LEMMA CommitFacts ==
    ASSUME TypeOK, PaymentsInv, Orders, NEW h \in Handlers, NEW e \in Events,
           NEW s \in Checkouts \cup {None}, Commits(h, e, s)
    PROVE  /\ ~Stored(e) /\ e \in sent /\ grants[e] = 0
           /\ e.ref \in Checkouts \cup {Foreign} /\ e.ref # None
           /\ e.ref \in Checkouts => checkout[e.ref].status # "none"
           /\ s # None => s \in Checkouts /\ Exists(s) /\ s \in Matches(e)
           /\ s # None => checkout[s].recurring_amount = Price
           /\ s = None /\ e.ref \in Checkouts => ~Exists(e.ref)
<1>1. ~Stored(e) /\ e \in sent
  BY BillingAssumption DEF Commits, Orders, SentSound
<1>2. grants[e] = 0
  BY <1>1 DEF PaymentsInv, GrantedAreLinked, TypeOK
<1>3. e.ref \in Checkouts \cup {Foreign} /\ e.ref # None
  BY BillingAssumption
<1>4. e.ref \in Checkouts => checkout[e.ref].status # "none"
  BY <1>1 DEF Orders, SentSound
<1>5. s # None => s \in Checkouts /\ Exists(s) /\ s \in Matches(e)
  BY DEF Commits, Picks, Found, Matches
<1>6. s # None => checkout[s].recurring_amount = Price
  BY <1>5 DEF Orders, CheckoutsSound
<1>7. s = None /\ e.ref \in Checkouts => ~Exists(e.ref)
  <2>1. s = None => Found(h) = {}
    BY BillingAssumption DEF Commits, Picks, Found, Matches
  <2> QED
    BY <2>1, BillingAssumption DEF Commits, Found, Matches
<1> QED
  BY <1>1, <1>2, <1>3, <1>4, <1>5, <1>6, <1>7

\* A callback keeps the order if what it stores and opens is paid for.
LEMMA StoreKeepsOrders ==
    ASSUME TypeOK, PaymentsInv, Orders, NEW h \in Handlers, NEW e \in Events,
           NEW l \in Checkouts \cup {None}, NEW s \in Checkouts \cup {None},
           NEW f \in BOOLEAN, StorePayment(h, e, l, s, f), ~Stored(e), e \in sent,
           CheckoutsStay,
           \A c \in Checkouts :
               /\ checkout'[c].owner = checkout[c].owner
               /\ checkout[c].status = "none" => checkout'[c].status = "none"
               /\ checkout'[c].status \in {"paid", "claimed"} =>
                     \/ checkout[c].status \in {"paid", "claimed"}
                     \/ FirstPaymentRecorded(c)'
               /\ Exists(c) => Exists(c)'
               /\ Exists(c)' <=> checkout'[c].status = "claimed"
               /\ Exists(c)' => checkout'[c].owner # None,
           (/\ e.approved /\ ~f /\ ~KnownPlain(e)
            /\ s = None /\ e.ref \in Checkouts) => e.amount = Price,
           \/ grants' = grants
           \/ /\ grants' = [grants EXCEPT ![e] = @ + 1]
              /\ e.approved /\ ~f /\ e.amount = Price
              /\ l \in Checkouts /\ Exists(l)'
    PROVE  Orders' /\ PaymentsStay /\ CheckoutsStay
<1>1. /\ claim' = claim /\ recon' = recon /\ sent' = sent
      /\ \A d \in Events : d # e => payment'[d] = payment[d]
      /\ payment'[e].stored /\ payment'[e].subscription = l
      /\ payment'[e].failed = f
      /\ payment'[e].checkout = IF e.ref \in Checkouts /\ (~e.recurring \/ s = None)
                                THEN e.ref ELSE None
      /\ \A i \in Handlers : handler'[i] \in {handler[i], IdleHandler}
  BY DEF StorePayment, TypeOK
<1>2. PaymentsStay
  BY <1>1 DEF PaymentsStay, Stored
<1>3. CheckoutsSound'
  <2>1. \A c \in Checkouts : checkout'[c].status \in {"paid", "claimed"} =>
            FirstPaymentRecorded(c)'
    BY <1>2, RecordStays DEF Orders, CheckoutsSound
  <2> QED
    BY <2>1 DEF Orders, CheckoutsSound, CheckoutsStay
<1>4. ClaimsSound'
  BY <1>1 DEF Orders, ClaimsSound, Claiming, CheckoutsStay
<1>5. ReconSound'
  <2>1. recon.locked \subseteq Checkouts
    BY DEF TypeOK, ReconState
  <2> QED
    BY <1>1, <2>1 DEF Orders, ReconSound
<1>6. SentSound'
  BY <1>1 DEF Orders, SentSound, IdleHandler, CheckoutsStay
<1>7. StoredSound'
  <2> SUFFICES ASSUME NEW d \in Events, Stored(d)'
               PROVE  /\ d \in sent'
                      /\ payment'[d].checkout \in {None, d.ref}
                      /\ (/\ payment'[d].checkout # None /\ ~KnownPlain(d)
                          /\ d.approved /\ ~payment'[d].failed) => d.amount = Price
    BY DEF StoredSound, KnownPlain
  <2>1. CASE d = e
    BY <1>1, <2>1 DEF KnownPlain
  <2>2. CASE d # e
    BY <1>1, <2>2 DEF Orders, StoredSound, Stored
  <2> QED
    BY <2>1, <2>2
<1>8. GrantsSound'
  <2> SUFFICES ASSUME NEW d \in Events, grants'[d] > 0
               PROVE  /\ d.approved /\ ~payment'[d].failed /\ d.amount = Price
                      /\ payment'[d].subscription \in Checkouts
                      /\ Exists(payment[d].subscription)'
    BY DEF GrantsSound
  <2>1. grants[e] = 0
    BY DEF PaymentsInv, GrantedAreLinked, TypeOK
  <2>2. CASE d = e
    BY <1>1, <2>1, <2>2 DEF TypeOK
  <2>3. CASE d # e
    <3>1. grants[d] > 0
      BY <2>3 DEF TypeOK
    <3> QED
      BY <1>1, <2>3, <3>1 DEF Orders, GrantsSound
  <2> QED
    BY <2>2, <2>3
<1> QED
  BY <1>2, <1>3, <1>4, <1>5, <1>6, <1>7, <1>8 DEF Orders

\* A callback that leaves the checkouts alone rewrites the row s at most.
LEMMA PlainCallback ==
    ASSUME TypeOK, PaymentsInv, Orders, NEW s \in Checkouts \cup {None},
           s # None => Exists(s), UNCHANGED checkout,
           \/ sub' = sub
           \/ /\ s # None
              /\ \/ sub' = [sub EXCEPT ![s] = ApplyFailedPayment(@)]
                 \/ sub' = [sub EXCEPT ![s] = ExtendSubscription(@, BillingMonths, now)]
    PROVE  /\ CheckoutsStay
           /\ \A c \in Checkouts :
                 /\ Exists(c)' <=> Exists(c)
                 /\ Exists(c) <=> checkout'[c].status = "claimed"
                 /\ Exists(c) => checkout'[c].owner # None
<1>1. CheckoutsStay
  BY DEF CheckoutsStay
<1>2. ASSUME s # None PROVE s \in Checkouts /\ sub[s] \in SubscriptionRow
  BY <1>2 DEF TypeOK
<1>3. \A c \in Checkouts : Exists(c)' <=> Exists(c)
  BY <1>2, ExtendedStatus, FailedStatus DEF TypeOK, Exists
<1> QED
  BY <1>1, <1>3 DEF Orders, CheckoutsSound

\* The first payment of a checkout is recorded by the callback that changes it.
LEMMA FirstPaymentFacts ==
    ASSUME TypeOK, PaymentsInv, Orders, NEW h \in Handlers, NEW e \in Events,
           NEW s \in Checkouts \cup {None}, NEW l \in Checkouts \cup {None},
           NEW st \in {"paid", "claimed"},
           Commits(h, e, s), e.approved, ~Mismatch(e, s), FirstPayment(e),
           checkout' = [checkout EXCEPT ![e.ref] =
                [@ EXCEPT !.status = st, !.paid_at = now]],
           StorePayment(h, e, l, s, FALSE)
    PROVE  /\ e.ref \in Checkouts /\ KnownPlain(e)
           /\ checkout[e.ref].status = "created" /\ ~Exists(e.ref)
           /\ FirstPaymentRecorded(e.ref)'
           /\ CheckoutsStay
           /\ \A c \in Checkouts : checkout'[c].owner = checkout[c].owner
           /\ checkout'[e.ref].status = st
           /\ \A c \in Checkouts : c # e.ref => checkout'[c] = checkout[c]
<1>1. /\ e.ref \in Checkouts /\ KnownPlain(e) /\ ~e.recurring
      /\ checkout[e.ref].status = "created"
  BY DEF FirstPayment, KnownPlain
<1>2. ~Exists(e.ref)
  BY <1>1 DEF Orders, CheckoutsSound
<1>3. e.amount = checkout[e.ref].amount
  <2>1. checkout[e.ref].amount \in {Price, TrialPrice}
    BY <1>1 DEF Orders, CheckoutsSound
  <2>2. checkout[e.ref].amount # 0
    BY <2>1, BillingAssumption
  <2> QED
    BY <1>1, <2>2 DEF Mismatch, Expected
<1>4. /\ checkout'[e.ref].status = st
      /\ checkout'[e.ref].owner = checkout[e.ref].owner
      /\ checkout'[e.ref].amount = checkout[e.ref].amount
      /\ checkout'[e.ref].recurring_amount = checkout[e.ref].recurring_amount
      /\ \A c \in Checkouts : c # e.ref => checkout'[c] = checkout[c]
  BY <1>1 DEF TypeOK, CheckoutRow
<1>5. /\ payment'[e].stored /\ payment'[e].checkout = e.ref /\ ~payment'[e].failed
  BY <1>1 DEF StorePayment, TypeOK
<1>6. FirstPaymentRecorded(e.ref)'
  <2>1. FirstCharge(e, e.ref)'
    BY <1>1, <1>3, <1>4 DEF FirstCharge, KnownPlain
  <2> QED
    BY <1>5, <2>1 DEF FirstPaymentRecorded, Stored
<1>7. CheckoutsStay
  BY <1>1, <1>4 DEF CheckoutsStay
<1> QED
  BY <1>1, <1>2, <1>4, <1>6, <1>7

\* No callback buys what was not paid for.
LEMMA CallbackKeepsOrders ==
    ASSUME TypeOK, PaymentsInv, Orders, NEW h \in Handlers, CommitCallback(h)
    PROVE  Orders' /\ PaymentsStay /\ CheckoutsStay
<1>1. PICK e \in Events, s \in Checkouts \cup {None} :
          \/ DeclinedCallback(h, e, s)  \/ MismatchedCallback(h, e, s)
          \/ DeferredCallback(h, e, s)  \/ AbsorbedCallback(h, e, s)
          \/ PaidCallback(h, e, s)      \/ ActivatingCallback(h, e, s)
          \/ RenewalCallback(h, e, s)   \/ UnmatchedCallback(h, e, s)
  BY DEF CommitCallback
<1>2. Commits(h, e, s)
  BY <1>1 DEF DeclinedCallback, MismatchedCallback, DeferredCallback, AbsorbedCallback,
              PaidCallback, ActivatingCallback, RenewalCallback, UnmatchedCallback
<1>3. /\ ~Stored(e) /\ e \in sent /\ grants[e] = 0
      /\ e.ref \in Checkouts \cup {Foreign} /\ e.ref # None
      /\ e.ref \in Checkouts => checkout[e.ref].status # "none"
      /\ s # None => s \in Checkouts /\ Exists(s) /\ s \in Matches(e)
      /\ s # None => checkout[s].recurring_amount = Price
      /\ s = None /\ e.ref \in Checkouts => ~Exists(e.ref)
  BY <1>2, CommitFacts
<1>4. CASE DeclinedCallback(h, e, s)
  <2>1. /\ UNCHANGED <<checkout, grants>>
        /\ StorePayment(h, e, s, s, TRUE)
        /\ \/ sub' = sub
           \/ s # None /\ sub' = [sub EXCEPT ![s] = ApplyFailedPayment(@)]
    BY <1>4, Zenon DEF DeclinedCallback
  <2>2. /\ CheckoutsStay
        /\ \A c \in Checkouts :
                 /\ Exists(c)' <=> Exists(c)
                 /\ Exists(c) <=> checkout'[c].status = "claimed"
                 /\ Exists(c) => checkout'[c].owner # None
    BY <1>3, <2>1, PlainCallback
  <2> QED
    BY <1>3, <2>1, <2>2, StoreKeepsOrders
<1>5. CASE MismatchedCallback(h, e, s)
  BY <1>3, <1>5, PlainCallback, StoreKeepsOrders DEF MismatchedCallback
<1>6. CASE DeferredCallback(h, e, s)
  <2>1. checkout[e.ref].recurring_amount = Price
    BY <1>3, <1>6 DEF DeferredCallback, Orders, CheckoutsSound
  <2>2. e.amount = Price
    BY <1>3, <1>6, <2>1, BillingAssumption
       DEF DeferredCallback, Mismatch, Expected, KnownPlain
  <2>3. /\ UNCHANGED <<checkout, sub, grants>>
        /\ StorePayment(h, e, None, s, FALSE)
    BY <1>6 DEF DeferredCallback
  <2> QED
    BY <1>3, <2>2, <2>3, PlainCallback, StoreKeepsOrders
<1>7. CASE AbsorbedCallback(h, e, s)
  <2>1. /\ UNCHANGED <<checkout, sub, grants>>
        /\ StorePayment(h, e, s, s, FALSE) /\ KnownPlain(e)
    BY <1>7 DEF AbsorbedCallback, Absorbed
  <2> QED
    BY <1>3, <2>1, PlainCallback, StoreKeepsOrders
<1>8. CASE PaidCallback(h, e, s)
  <2>1. /\ UNCHANGED <<sub, grants>>
        /\ StorePayment(h, e, s, s, FALSE)
        /\ e.approved /\ ~Mismatch(e, s) /\ FirstPayment(e)
        /\ checkout' = [checkout EXCEPT ![e.ref] =
                [@ EXCEPT !.status = "paid", !.paid_at = now]]
    BY <1>8 DEF PaidCallback
  <2>2. /\ e.ref \in Checkouts /\ KnownPlain(e)
        /\ checkout[e.ref].status = "created" /\ ~Exists(e.ref)
        /\ FirstPaymentRecorded(e.ref)' /\ CheckoutsStay
        /\ \A c \in Checkouts : checkout'[c].owner = checkout[c].owner
        /\ checkout'[e.ref].status = "paid"
        /\ \A c \in Checkouts : c # e.ref => checkout'[c] = checkout[c]
    BY <1>2, <2>1, FirstPaymentFacts
  <2>3. \A c \in Checkouts :
            /\ checkout[c].status = "none" => checkout'[c].status = "none"
            /\ checkout'[c].status \in {"paid", "claimed"} =>
                  \/ checkout[c].status \in {"paid", "claimed"}
                  \/ FirstPaymentRecorded(c)'
            /\ Exists(c)' <=> Exists(c)
            /\ Exists(c)' <=> checkout'[c].status = "claimed"
            /\ Exists(c)' => checkout'[c].owner # None
    BY <2>1, <2>2 DEF Exists, Orders, CheckoutsSound
  <2> QED
    BY <1>3, <2>1, <2>2, <2>3, StoreKeepsOrders
<1>9. CASE ActivatingCallback(h, e, s)
  <2>1. /\ UNCHANGED grants
        /\ StorePayment(h, e, e.ref, s, FALSE)
        /\ e.approved /\ ~Mismatch(e, s) /\ FirstPayment(e)
        /\ checkout[e.ref].owner # None
        /\ checkout' = [checkout EXCEPT ![e.ref] =
                [@ EXCEPT !.status = "claimed", !.paid_at = now]]
        /\ sub' = [sub EXCEPT ![e.ref] = ActivatedRow(e.ref, now)]
        /\ e.ref \in Checkouts
    BY <1>9 DEF ActivatingCallback, FirstPayment, KnownPlain
  <2>2. /\ e.ref \in Checkouts /\ KnownPlain(e)
        /\ checkout[e.ref].status = "created" /\ ~Exists(e.ref)
        /\ FirstPaymentRecorded(e.ref)' /\ CheckoutsStay
        /\ \A c \in Checkouts : checkout'[c].owner = checkout[c].owner
        /\ checkout'[e.ref].status = "claimed"
        /\ \A c \in Checkouts : c # e.ref => checkout'[c] = checkout[c]
    BY <1>2, <2>1, FirstPaymentFacts
  <2>3. \A c \in Checkouts : Exists(c)' <=> c = e.ref \/ Exists(c)
    BY <2>1, <2>2 DEF Exists, TypeOK, ActivatedRow, NewSubscription
  <2>4. \A c \in Checkouts :
            /\ checkout[c].status = "none" => checkout'[c].status = "none"
            /\ checkout'[c].status \in {"paid", "claimed"} =>
                  \/ checkout[c].status \in {"paid", "claimed"}
                  \/ FirstPaymentRecorded(c)'
            /\ Exists(c) => Exists(c)'
            /\ Exists(c)' <=> checkout'[c].status = "claimed"
            /\ Exists(c)' => checkout'[c].owner # None
    BY <2>1, <2>2, <2>3 DEF Orders, CheckoutsSound
  <2> QED
    BY <1>3, <2>1, <2>2, <2>4, StoreKeepsOrders
<1>10. CASE RenewalCallback(h, e, s)
  <2>1. /\ UNCHANGED checkout /\ s # None
        /\ StorePayment(h, e, s, s, FALSE) /\ e.approved
        /\ sub' = [sub EXCEPT ![s] = ExtendSubscription(@, BillingMonths, now)]
        /\ grants' = [grants EXCEPT ![e] = @ + 1]
        /\ ~Mismatch(e, s) /\ ~Absorbed(e) /\ ~FirstPayment(e)
    BY <1>10 DEF RenewalCallback
  <2>2. e.amount = Price
    <3>1. CASE KnownPlain(e)
      <4>1. checkout[e.ref].status \in CheckoutStatus
        BY <3>1 DEF KnownPlain, TypeOK, CheckoutRow
      <4>2. checkout[e.ref].amount = Price
        BY <1>3, <2>1, <3>1, <4>1
           DEF Absorbed, FirstPayment, CheckoutStatus, Orders, CheckoutsSound, KnownPlain
      <4> QED
        BY <2>1, <3>1, <4>2, BillingAssumption DEF Mismatch, Expected
    <3>2. CASE ~KnownPlain(e)
      BY <1>3, <2>1, <3>2, BillingAssumption DEF Mismatch, Expected
    <3> QED
      BY <3>1, <3>2
  <2>3. /\ CheckoutsStay
        /\ \A c \in Checkouts :
                 /\ Exists(c)' <=> Exists(c)
                 /\ Exists(c) <=> checkout'[c].status = "claimed"
                 /\ Exists(c) => checkout'[c].owner # None
    BY <1>3, <2>1, PlainCallback
  <2> QED
    BY <1>3, <2>1, <2>2, <2>3, StoreKeepsOrders
<1>11. CASE UnmatchedCallback(h, e, s)
  BY <1>3, <1>11, PlainCallback, StoreKeepsOrders, BillingAssumption DEF UnmatchedCallback
<1> QED
  BY <1>1, <1>4, <1>5, <1>6, <1>7, <1>8, <1>9, <1>10, <1>11

\* Every step keeps the order, the record and the terms.
LEMMA OrdersStep ==
    ASSUME TypeOK, PaymentsInv, Orders, [Next]_vars
    PROVE  Orders' /\ PaymentsStay /\ CheckoutsStay
BY CreateKeepsOrders, ClaimUnpaidKeepsOrders, ClaimingKeepsOrders,
   CommitClaimKeepsOrders, ReconcilingKeepsOrders, CommitReconcileKeepsOrders,
   RewriteKeepsOrders, OtherStepsKeepOrders, CallbackKeepsOrders DEF Next

\* The order holds in the beginning.
LEMMA OrdersInit == Init => Orders
BY DEF Init, Orders, CheckoutsSound, ClaimsSound, ReconSound, SentSound, StoredSound,
       GrantsSound, NoCheckout, NoSubscription, NewSubscription, IdleClaim, IdleRecon,
       IdleHandler, NoPayment, Exists, Claiming, Stored

THEOREM OrdersCorrect == Spec => []Orders
<1>1. TypeOK /\ PaymentsInv /\ Orders /\ [Next]_vars => Orders'
  BY OrdersStep
<1> QED
  BY <1>1, OrdersInit, TypeCorrect, PaymentsCorrect, PTL DEF Spec

\* For any number of accounts, links, claims and callbacks, what one of them has
\* settled of a checkout no other takes back.
THEOREM OrdersAlwaysStand == Spec => OrdersStand
<1>1. TypeOK /\ PaymentsInv /\ Orders /\ [Next]_vars => [CheckoutsStay]_vars
  BY OrdersStep
<1> QED
  BY <1>1, TypeCorrect, PaymentsCorrect, OrdersCorrect, PTL DEF Spec, OrdersStand

-----------------------------------------------------------------------------
(***************************************************************************)
(* What follows                                                            *)
(***************************************************************************)
\* Nothing but an owner and the approval of the first amount opens a
\* subscription, and nothing but an approval of its price extends it.
THEOREM SubscriptionsArePaid == Spec => []SubscriptionsArePaidFor
<1>1. TypeOK /\ PaymentsInv /\ Orders => SubscriptionsArePaidFor
  <2> SUFFICES ASSUME TypeOK, PaymentsInv, Orders PROVE SubscriptionsArePaidFor
    OBVIOUS
  <2>1. GrantsAreValidated
    <3> SUFFICES ASSUME NEW e \in Events, grants[e] > 0
                 PROVE  /\ Stored(e) /\ e.approved /\ ~payment[e].failed
                        /\ \E c \in Checkouts :
                              /\ payment[e].subscription = c
                              /\ e.amount = checkout[c].recurring_amount
      BY DEF GrantsAreValidated
    <3>1. /\ e.approved /\ ~payment[e].failed /\ e.amount = Price
          /\ payment[e].subscription \in Checkouts /\ Exists(payment[e].subscription)
      BY DEF Orders, GrantsSound
    <3>2. checkout[payment[e].subscription].recurring_amount = Price
      BY <3>1 DEF Orders, CheckoutsSound
    <3> QED
      BY <3>1, <3>2 DEF PaymentsInv, GrantedAreLinked
  <2> QED
    BY <2>1 DEF SubscriptionsArePaidFor, Orders, CheckoutsSound
<1> QED
  BY <1>1, TypeCorrect, PaymentsCorrect, OrdersCorrect, PTL

\* A payment is applied to the subscription of its reference or of its card.
THEOREM RenewalsAlwaysStayOnTheCard == Spec => RenewalsStayOnTheCard
<1> DEFINE Step == \A e \in Events : grants'[e] > grants[e] =>
              LET c == payment'[e].subscription
              IN  c = e.ref \/ (e.token # None /\ rec_token[c] = e.token)
<1>1. TypeOK /\ PaymentsInv /\ Orders /\ [Next]_vars => Step
  <2> SUFFICES ASSUME TypeOK, PaymentsInv, Orders, [Next]_vars,
                      NEW e \in Events, grants'[e] > grants[e],
                      NEW c, c = payment'[e].subscription
               PROVE  c = e.ref \/ (e.token # None /\ rec_token[c] = e.token)
    BY Zenon
  <2>0. grants[e] \in Nat /\ grants'[e] # grants[e]
    BY DEF TypeOK
  <2>1. CASE \E h \in Handlers : CommitCallback(h)
    <3>1. PICK h \in Handlers, d \in Events, s \in Checkouts \cup {None} :
              \/ DeclinedCallback(h, d, s)  \/ MismatchedCallback(h, d, s)
              \/ DeferredCallback(h, d, s)  \/ AbsorbedCallback(h, d, s)
              \/ PaidCallback(h, d, s)      \/ ActivatingCallback(h, d, s)
              \/ RenewalCallback(h, d, s)   \/ UnmatchedCallback(h, d, s)
      BY <2>1 DEF CommitCallback
    <3>2. RenewalCallback(h, d, s)
      BY <2>0, <3>1 DEF DeclinedCallback, MismatchedCallback, DeferredCallback,
         AbsorbedCallback, PaidCallback, ActivatingCallback, UnmatchedCallback
    <3>3. /\ grants' = [grants EXCEPT ![d] = @ + 1]
          /\ Commits(h, d, s) /\ s # None
          /\ StorePayment(h, d, s, s, FALSE)
      BY <3>2 DEF RenewalCallback
    <3>4. d = e
      BY <2>0, <3>3 DEF TypeOK
    <3>5. c = s
      BY <3>3, <3>4 DEF StorePayment, TypeOK
    <3>6. s \in Matches(e)
      BY <3>3, <3>4, CommitFacts
    <3> QED
      BY <3>5, <3>6 DEF Matches
  <2>2. CASE \E k \in Checkouts : CommitClaim(k)
    <3>1. PICK k \in Checkouts : CommitClaim(k)
      BY <2>2
    <3>2. /\ e \in claim[k].held /\ e.approved /\ Settles(e)
          /\ claim[k].held = Deferred(k)
      BY <2>0, <3>1 DEF CommitClaim, PaymentsInv, ClaimsHoldDeferred
    <3>3. /\ Stored(e) /\ payment[e].checkout = k /\ payment[e].subscription = None
      BY <3>2 DEF Deferred
    <3>4. payment'[e] = [payment[e] EXCEPT !.subscription = k]
      BY <3>1, <3>2, <3>3 DEF CommitClaim
    <3>5. c = k
      BY <3>4 DEF TypeOK, PaymentRow
    <3> QED
      BY <3>3, <3>5, BillingAssumption DEF Orders, StoredSound
  <2>3. CASE CommitReconcile
    <3>1. e \in recon.done
      BY <2>0, <2>3 DEF CommitReconcile
    <3>2. payment'[e].subscription = e.ref
      BY <2>3, <3>1 DEF CommitReconcile, TypeOK, PaymentRow
    <3> QED
      BY <3>2
  <2>4. ASSUME NEW k \in Checkouts,
               \/ \E u \in Users \cup {None}, r \in Users \cup {None} : CreateCheckout(k, u, r)
               \/ \E u \in Users : ClaimUnpaid(k, u) \/ BeginClaim(k, u)
               \/ DrainDeferred(k) \/ ClaimMetaPurchase(k) \/ Expire(k) \/ CrashClaim(k)
        PROVE  UNCHANGED grants
    BY <2>4 DEF CreateCheckout, ClaimUnpaid, BeginClaim, DrainDeferred, ClaimMetaPurchase,
       Expire, CrashClaim
  <2>5. ASSUME \/ \E h \in Handlers, d \in Events : ReceiveCallback(h, d)
               \/ \E h \in Handlers : RejectDuplicate(h) \/ CrashHandler(h)
               \/ BeginReconcile \/ ReconcileNext \/ CrashReconcile
               \/ \E d \in Events : ProviderSends(d)
               \/ Tick \/ UNCHANGED vars
        PROVE  UNCHANGED grants
    BY <2>5 DEF ReceiveCallback, RejectDuplicate, CrashHandler, BeginReconcile,
       ReconcileNext, ReconcileOne, CrashReconcile, ProviderSends, Tick, vars
  <2> QED
    BY <2>0, <2>1, <2>2, <2>3, <2>4, <2>5 DEF Next
<1> QED
  BY <1>1, TypeCorrect, PaymentsCorrect, OrdersCorrect, PTL DEF Spec, RenewalsStayOnTheCard

-----------------------------------------------------------------------------
(***************************************************************************)
(* Renewals that wait for a claim                                          *)
(***************************************************************************)
\* A payment of the first amount that is stored has paid its checkout.
FirstPays ==
    \A e \in Events : Stored(e) /\ FirstCharge(e, e.ref) =>
        checkout[e.ref].status \in {"paid", "claimed"}

\* If nobody renews before the first payment is recorded, only a paid checkout has
\* renewals.
RenewalsFollow ==
    \A e \in sent : e.recurring /\ e.ref \in Checkouts =>
        checkout[e.ref].status \in {"paid", "claimed"}

\* A validated renewal that has moved no date waits for the claim.
RenewalsWait ==
    \A e \in Events :
        (/\ Stored(e) /\ e.recurring /\ e.approved /\ ~payment[e].failed
         /\ e.ref \in Checkouts /\ grants[e] = 0) =>
            /\ payment[e].subscription = None /\ payment[e].checkout = e.ref
            /\ checkout[e.ref].status # "claimed"

\* Payments are written by callbacks, claims and the reconciliation alone, and
\* nobody else makes a checkout a subscription.
LEMMA OtherStepsLeavePayments ==
    ASSUME TypeOK, [Next]_vars,
           ~ \E h \in Handlers : CommitCallback(h),
           ~ \E c \in Checkouts : CommitClaim(c),
           ~ CommitReconcile
    PROVE  /\ UNCHANGED <<payment, grants>>
           /\ \A c \in Checkouts : checkout'[c].status = "claimed" =>
                 checkout[c].status = "claimed"
<1>1. ASSUME NEW k \in Checkouts, NEW u \in Users \cup {None},
             NEW r \in Users \cup {None}, CreateCheckout(k, u, r)
      PROVE  /\ UNCHANGED <<payment, grants>>
             /\ \A c \in Checkouts : checkout'[c].status = "claimed" =>
                   checkout[c].status = "claimed"
  BY <1>1 DEF CreateCheckout, TypeOK
<1>2. ASSUME NEW k \in Checkouts, NEW u \in Users, ClaimUnpaid(k, u)
      PROVE  /\ UNCHANGED <<payment, grants>>
             /\ \A c \in Checkouts : checkout'[c].status = "claimed" =>
                   checkout[c].status = "claimed"
  <2>1. /\ UNCHANGED <<payment, grants>>
        /\ checkout' = [checkout EXCEPT ![k].owner = u]
    BY <1>2 DEF ClaimUnpaid
  <2>2. checkout[k] \in CheckoutRow
    BY DEF TypeOK
  <2> QED
    BY <2>1, <2>2 DEF TypeOK, CheckoutRow
<1>3. ASSUME NEW k \in Checkouts,
             \/ \E u \in Users : BeginClaim(k, u)
             \/ DrainDeferred(k) \/ ClaimMetaPurchase(k) \/ Expire(k) \/ CrashClaim(k)
      PROVE  UNCHANGED <<payment, grants, checkout>>
  BY <1>3 DEF BeginClaim, DrainDeferred, ClaimMetaPurchase, Expire, CrashClaim
<1>4. ASSUME \/ \E h \in Handlers, d \in Events : ReceiveCallback(h, d)
             \/ \E h \in Handlers : RejectDuplicate(h) \/ CrashHandler(h)
             \/ BeginReconcile \/ ReconcileNext \/ CrashReconcile
             \/ \E d \in Events : ProviderSends(d)
             \/ Tick \/ UNCHANGED vars
      PROVE  UNCHANGED <<payment, grants, checkout>>
  BY <1>4 DEF ReceiveCallback, RejectDuplicate, CrashHandler, BeginReconcile,
     ReconcileNext, ReconcileOne, CrashReconcile, ProviderSends, Tick, vars
<1> QED
  BY <1>1, <1>2, <1>3, <1>4 DEF Next

\* A step that stores no payment keeps it.
LEMMA FirstPaysKept ==
    ASSUME Orders, FirstPays, CheckoutsStay, NEW e \in Events, Stored(e),
           FirstCharge(e, e.ref)'
    PROVE  checkout'[e.ref].status \in {"paid", "claimed"}
<1>1. e.ref \in Checkouts /\ checkout[e.ref].status # "none"
  BY DEF Orders, StoredSound, SentSound, FirstCharge, KnownPlain
<1>2. FirstCharge(e, e.ref)
  BY <1>1 DEF CheckoutsStay, FirstCharge, KnownPlain
<1> QED
  BY <1>1, <1>2 DEF FirstPays, CheckoutsStay

\* Claims and the reconciliation store no payment.
LEMMA StoredBefore ==
    ASSUME TypeOK, [Next]_vars, ~ \E h \in Handlers : CommitCallback(h),
           NEW e \in Events, Stored(e)'
    PROVE  Stored(e)
<1>1. payment[e] \in PaymentRow
  BY DEF TypeOK
<1>2. ASSUME NEW c \in Checkouts, CommitClaim(c) PROVE Stored(e)
  <2>1. \/ payment'[e] = payment[e]
        \/ payment'[e] = [payment[e] EXCEPT !.subscription = c]
    BY <1>2 DEF CommitClaim
  <2> QED
    BY <1>1, <2>1 DEF Stored, PaymentRow
<1>3. ASSUME CommitReconcile PROVE Stored(e)
  <2>1. \/ payment'[e] = payment[e]
        \/ payment'[e] = [payment[e] EXCEPT !.subscription = e.ref,
                                            !.failed       = @ /\ ~e.approved]
    BY <1>3, Zenon DEF CommitReconcile
  <2> QED
    BY <1>1, <2>1 DEF Stored, PaymentRow
<1>4. ASSUME UNCHANGED payment PROVE Stored(e)
  BY <1>4 DEF Stored
<1> QED
  BY <1>2, <1>3, <1>4, OtherStepsLeavePayments

\* A subscription still begins with an approved payment.
LEMMA FirstPaysStep ==
    ASSUME TypeOK, PaymentsInv, Orders, FirstPays, [Next]_vars
    PROVE  FirstPays'
<1>1. CheckoutsStay
  BY OrdersStep
<1> SUFFICES ASSUME NEW e \in Events, Stored(e)', FirstCharge(e, e.ref)'
             PROVE  checkout'[e.ref].status \in {"paid", "claimed"}
  BY DEF FirstPays
<1>2. CASE Stored(e)
  BY <1>1, <1>2, FirstPaysKept
<1>3. CASE ~Stored(e)
  <2>0. \E h \in Handlers : CommitCallback(h)
    BY <1>3, StoredBefore
  <2>1. PICK h \in Handlers, d \in Events, s \in Checkouts \cup {None} :
              \/ DeclinedCallback(h, d, s)  \/ MismatchedCallback(h, d, s)
              \/ DeferredCallback(h, d, s)  \/ AbsorbedCallback(h, d, s)
              \/ PaidCallback(h, d, s)      \/ ActivatingCallback(h, d, s)
              \/ RenewalCallback(h, d, s)   \/ UnmatchedCallback(h, d, s)
    BY <2>0 DEF CommitCallback
  <2>2. Commits(h, d, s)
    BY <2>1 DEF DeclinedCallback, MismatchedCallback, DeferredCallback, AbsorbedCallback,
              PaidCallback, ActivatingCallback, RenewalCallback, UnmatchedCallback
  <2>3. \E l \in Checkouts \cup {None}, f \in BOOLEAN : StorePayment(h, d, l, s, f)
    BY <2>1 DEF DeclinedCallback, MismatchedCallback, DeferredCallback, AbsorbedCallback,
              PaidCallback, ActivatingCallback, RenewalCallback, UnmatchedCallback,
              FirstPayment, KnownPlain
  <2>4. d = e
    BY <1>3, <2>3 DEF StorePayment, TypeOK, Stored
  <2>5. /\ e.ref \in Checkouts /\ KnownPlain(e) /\ e.approved
        /\ checkout[e.ref].status # "none"
        /\ e.amount = checkout[e.ref].amount
    BY <1>1, <2>2, <2>4, CommitFacts DEF FirstCharge, KnownPlain, CheckoutsStay
  <2>6. ~Mismatch(e, s)
    BY <2>5 DEF Mismatch, Expected
  <2>7. checkout[e.ref] \in CheckoutRow
    BY <2>5 DEF TypeOK
  <2>8. CASE PaidCallback(h, e, s) \/ ActivatingCallback(h, e, s)
    <3>1. \/ checkout' = [checkout EXCEPT ![e.ref] =
                [@ EXCEPT !.status = "paid", !.paid_at = now]]
          \/ checkout' = [checkout EXCEPT ![e.ref] =
                [@ EXCEPT !.status = "claimed", !.paid_at = now]]
      BY <2>8, Zenon DEF PaidCallback, ActivatingCallback
    <3>2. \/ checkout'[e.ref] =
                [checkout[e.ref] EXCEPT !.status = "paid", !.paid_at = now]
          \/ checkout'[e.ref] =
                [checkout[e.ref] EXCEPT !.status = "claimed", !.paid_at = now]
      BY <2>5, <3>1 DEF TypeOK
    <3> QED
      BY <2>7, <3>2 DEF CheckoutRow
  <2>9. CASE AbsorbedCallback(h, e, s) \/ RenewalCallback(h, e, s)
    <3>1. checkout[e.ref].status \in {"paid", "claimed"}
      BY <2>5, <2>7, <2>9 DEF AbsorbedCallback, Absorbed, RenewalCallback, FirstPayment,
                        CheckoutRow, CheckoutStatus
    <3> QED
      BY <1>1, <2>5, <3>1 DEF CheckoutsStay
  <2>10. ~ \/ DeclinedCallback(h, e, s) \/ MismatchedCallback(h, e, s)
           \/ DeferredCallback(h, e, s) \/ UnmatchedCallback(h, e, s)
    <3>1. e.ref # Foreign
      BY <2>5, BillingAssumption
    <3> QED
      BY <2>5, <2>6, <3>1 DEF DeclinedCallback, MismatchedCallback, DeferredCallback,
         UnmatchedCallback, KnownPlain
  <2> QED
    BY <2>1, <2>4, <2>8, <2>9, <2>10
<1> QED
  BY <1>2, <1>3

\* Nobody but the provider sends.
LEMMA SentSteps ==
    ASSUME [Next]_vars
    PROVE  sent' = sent \/ \E e \in Events : ProviderSends(e)
<1>1. ASSUME NEW h \in Handlers, CommitCallback(h) PROVE sent' = sent
  BY <1>1 DEF CommitCallback, DeclinedCallback, MismatchedCallback, DeferredCallback,
     AbsorbedCallback, PaidCallback, ActivatingCallback, RenewalCallback,
     UnmatchedCallback, StorePayment
<1>2. ASSUME NEW k \in Checkouts,
             \/ \E u \in Users \cup {None}, r \in Users \cup {None} :
                   CreateCheckout(k, u, r)
             \/ \E u \in Users : ClaimUnpaid(k, u) \/ BeginClaim(k, u)
             \/ DrainDeferred(k) \/ CommitClaim(k) \/ ClaimMetaPurchase(k)
             \/ Expire(k) \/ CrashClaim(k)
      PROVE  sent' = sent
  BY <1>2 DEF CreateCheckout, ClaimUnpaid, BeginClaim, DrainDeferred, CommitClaim,
     ClaimMetaPurchase, Expire, CrashClaim
<1>3. ASSUME \/ \E h \in Handlers, d \in Events : ReceiveCallback(h, d)
             \/ \E h \in Handlers : RejectDuplicate(h) \/ CrashHandler(h)
             \/ BeginReconcile \/ ReconcileNext \/ CommitReconcile
             \/ CrashReconcile \/ Tick \/ UNCHANGED vars
      PROVE  sent' = sent
  BY <1>3 DEF ReceiveCallback, RejectDuplicate, CrashHandler, BeginReconcile,
     ReconcileNext, ReconcileOne, CommitReconcile, CrashReconcile, Tick, vars
<1> QED
  BY <1>1, <1>2, <1>3 DEF Next

\* A renewal is sent only when the approval of the first amount has been stored.
LEMMA RenewalsFollowStep ==
    ASSUME InOrder, TypeOK, PaymentsInv, Orders, FirstPays, RenewalsFollow, [Next]_vars
    PROVE  RenewalsFollow'
<1>1. CheckoutsStay
  BY OrdersStep
<1> SUFFICES ASSUME NEW e \in sent', e.recurring, e.ref \in Checkouts
             PROVE  checkout'[e.ref].status \in {"paid", "claimed"}
  BY DEF RenewalsFollow
<1>2. CASE e \in sent
  BY <1>1, <1>2 DEF RenewalsFollow, CheckoutsStay
<1>3. CASE e \notin sent
  <2>1. ProviderSends(e)
    <3>1. PICK d \in Events : ProviderSends(d)
      BY <1>3, SentSteps
    <3> QED
      BY <1>3, <3>1 DEF ProviderSends
  <2>2. PICK f \in sent : FirstCharge(f, e.ref) /\ Stored(f)
    BY <2>1 DEF ProviderSends
  <2>3. f \in Events /\ f.ref = e.ref
    BY <2>2 DEF FirstCharge, TypeOK
  <2>4. checkout[e.ref].status \in {"paid", "claimed"}
    BY <2>2, <2>3 DEF FirstPays
  <2> QED
    BY <1>1, <2>4 DEF CheckoutsStay
<1> QED
  BY <1>2, <1>3

\* The callback of a renewal extends a subscription, or leaves it to the claim.
LEMMA CallbackRenewalsWait ==
    ASSUME TypeOK, PaymentsInv, Orders, RenewalsFollow, RenewalsWait,
           NEW h \in Handlers, CommitCallback(h)
    PROVE  RenewalsWait'
<1>1. PICK d \in Events, s \in Checkouts \cup {None} :
              \/ DeclinedCallback(h, d, s)  \/ MismatchedCallback(h, d, s)
              \/ DeferredCallback(h, d, s)  \/ AbsorbedCallback(h, d, s)
              \/ PaidCallback(h, d, s)      \/ ActivatingCallback(h, d, s)
              \/ RenewalCallback(h, d, s)   \/ UnmatchedCallback(h, d, s)
  BY DEF CommitCallback
<1>2. Commits(h, d, s)
  BY <1>1 DEF DeclinedCallback, MismatchedCallback, DeferredCallback, AbsorbedCallback,
              PaidCallback, ActivatingCallback, RenewalCallback, UnmatchedCallback
<1>3. /\ ~Stored(d) /\ d \in sent /\ grants[d] = 0
      /\ s = None /\ d.ref \in Checkouts => ~Exists(d.ref)
  BY <1>2, CommitFacts
<1>4. /\ payment'[d].checkout = IF d.ref \in Checkouts /\ (~d.recurring \/ s = None)
                                THEN d.ref ELSE None
      /\ \A e \in Events : e # d => payment'[e] = payment[e]
  BY <1>1 DEF DeclinedCallback, MismatchedCallback, DeferredCallback, AbsorbedCallback,
              PaidCallback, ActivatingCallback, RenewalCallback, UnmatchedCallback,
              StorePayment, TypeOK
<1>5. \A e \in Events : e # d => grants'[e] = grants[e]
  BY <1>1 DEF DeclinedCallback, MismatchedCallback, DeferredCallback, AbsorbedCallback,
              PaidCallback, ActivatingCallback, RenewalCallback, UnmatchedCallback, TypeOK
<1>6. \A c \in Checkouts : checkout'[c].status = "claimed" =>
         \/ checkout[c].status = "claimed"
         \/ checkout[c].status = "created"
  <2> SUFFICES ASSUME NEW c \in Checkouts, checkout'[c].status = "claimed",
                      checkout'[c] # checkout[c]
               PROVE  checkout[c].status = "created"
    OBVIOUS
  <2>1. FirstPayment(d) /\ c = d.ref
    BY <1>1 DEF DeclinedCallback, MismatchedCallback, DeferredCallback, AbsorbedCallback,
              PaidCallback, ActivatingCallback, RenewalCallback, UnmatchedCallback, TypeOK
  <2> QED
    BY <2>1 DEF FirstPayment
<1> SUFFICES ASSUME NEW e \in Events, Stored(e)', e.recurring, e.approved,
                    ~payment'[e].failed, e.ref \in Checkouts, grants'[e] = 0
             PROVE  /\ payment'[e].subscription = None /\ payment'[e].checkout = e.ref
                    /\ checkout'[e.ref].status # "claimed"
  BY DEF RenewalsWait
<1>7. CASE e # d
  <2>1. /\ payment'[e] = payment[e] /\ grants[e] = 0 /\ Stored(e)
    BY <1>4, <1>5, <1>7 DEF Stored
  <2>2. /\ payment[e].subscription = None /\ payment[e].checkout = e.ref
        /\ checkout[e.ref].status # "claimed"
    BY <2>1 DEF RenewalsWait
  <2>3. e \in sent
    BY <2>1 DEF Orders, StoredSound
  <2>4. checkout[e.ref].status # "created"
    BY <2>3 DEF RenewalsFollow
  <2> QED
    BY <1>6, <2>1, <2>2, <2>4
<1>8. CASE e = d
  <2>1. ~ \/ DeclinedCallback(h, e, s) \/ AbsorbedCallback(h, e, s)
          \/ PaidCallback(h, e, s) \/ ActivatingCallback(h, e, s)
    BY DEF DeclinedCallback, AbsorbedCallback, Absorbed, PaidCallback, ActivatingCallback,
           FirstPayment, KnownPlain
  <2>2. ~MismatchedCallback(h, e, s)
    BY DEF MismatchedCallback, StorePayment, TypeOK, PaymentRow
  <2>3. ~UnmatchedCallback(h, e, s)
    BY BillingAssumption DEF UnmatchedCallback
  <2>4. ~RenewalCallback(h, e, s)
    <3> SUFFICES ASSUME grants' = [grants EXCEPT ![d] = @ + 1] PROVE FALSE
      BY <1>8 DEF RenewalCallback
    <3> QED
      BY <1>3, <1>8 DEF TypeOK
  <2>5. DeferredCallback(h, e, s)
    BY <1>1, <1>8, <2>1, <2>2, <2>3, <2>4
  <2>6. /\ payment'[e].subscription = None /\ payment'[e].checkout = e.ref
        /\ checkout' = checkout /\ s = None
    BY <2>5 DEF DeferredCallback, StorePayment, TypeOK
  <2>7. checkout[e.ref].status # "claimed"
    BY <1>3, <1>8, <2>6 DEF Orders, CheckoutsSound
  <2> QED
    BY <2>6, <2>7
<1> QED
  BY <1>7, <1>8

\* A claim applies every renewal that has waited for it.
LEMMA ClaimRenewalsWait ==
    ASSUME TypeOK, PaymentsInv, Orders, RenewalsWait, NEW c \in Checkouts, CommitClaim(c)
    PROVE  RenewalsWait'
<1> SUFFICES ASSUME NEW e \in Events, Stored(e)', e.recurring, e.approved,
                    ~payment'[e].failed, e.ref \in Checkouts, grants'[e] = 0
             PROVE  /\ payment'[e].subscription = None /\ payment'[e].checkout = e.ref
                    /\ checkout'[e.ref].status # "claimed"
  BY DEF RenewalsWait
<1>1. Claiming(c) /\ claim[c].held = Deferred(c)
  BY DEF CommitClaim, PaymentsInv, ClaimsHoldDeferred
<1>2. /\ payment[e] \in PaymentRow /\ grants[e] \in Nat
      /\ \/ payment'[e] = payment[e]
         \/ /\ payment'[e] = [payment[e] EXCEPT !.subscription = c]
            /\ payment[e].checkout = c
      /\ grants'[e] = IF e \in claim[c].held /\ e.approved /\ Settles(e)
                      THEN grants[e] + 1 ELSE grants[e]
      /\ \A d \in Checkouts : d # c => checkout'[d] = checkout[d]
  BY DEF CommitClaim, TypeOK
<1>3. /\ Stored(e) /\ ~payment[e].failed
  BY <1>2 DEF Stored, PaymentRow
<1>4. grants[e] = 0 /\ ~(e \in claim[c].held /\ Settles(e))
  BY <1>2
<1>5. /\ payment[e].subscription = None /\ payment[e].checkout = e.ref
      /\ checkout[e.ref].status # "claimed"
  BY <1>3, <1>4 DEF RenewalsWait
<1>6. e.ref # c
  BY <1>1, <1>3, <1>4, <1>5 DEF Deferred, KnownPlain, Settles
<1> QED
  BY <1>2, <1>5, <1>6

\* The operator applies what he links.
LEMMA ReconcileRenewalsWait ==
    ASSUME TypeOK, RenewalsWait, CommitReconcile
    PROVE  RenewalsWait'
<1> SUFFICES ASSUME NEW e \in Events, Stored(e)', e.recurring, e.approved,
                    ~payment'[e].failed, e.ref \in Checkouts, grants'[e] = 0
             PROVE  /\ payment'[e].subscription = None /\ payment'[e].checkout = e.ref
                    /\ checkout'[e.ref].status # "claimed"
  BY DEF RenewalsWait
<1>1. /\ checkout' = checkout /\ grants[e] \in Nat
      /\ grants'[e] = IF e \in recon.done /\ e.approved THEN grants[e] + 1 ELSE grants[e]
      /\ e \notin recon.done => payment'[e] = payment[e]
  BY DEF CommitReconcile, TypeOK
<1>2. payment'[e] = payment[e] /\ grants'[e] = grants[e]
  BY <1>1
<1> QED
  BY <1>1, <1>2 DEF RenewalsWait, Stored

\* Renewals still wait for the subscription they renew.
LEMMA RenewalsWaitStep ==
    ASSUME TypeOK, PaymentsInv, Orders, RenewalsFollow, RenewalsWait, [Next]_vars
    PROVE  RenewalsWait'
<1>1. CASE \/ \E h \in Handlers : CommitCallback(h)
           \/ \E c \in Checkouts : CommitClaim(c)
           \/ CommitReconcile
  BY <1>1, CallbackRenewalsWait, ClaimRenewalsWait, ReconcileRenewalsWait
<1>2. CASE ~ \/ \E h \in Handlers : CommitCallback(h)
             \/ \E c \in Checkouts : CommitClaim(c)
             \/ CommitReconcile
  BY <1>2, OtherStepsLeavePayments DEF RenewalsWait, Stored
<1> QED
  BY <1>1, <1>2

\* If nobody renews before the first payment is recorded, every validated renewal
\* of a subscription has moved a date, wherever it was when it was claimed.
THEOREM DeferredAlwaysApplied ==
    ASSUME InOrder
    PROVE  Spec => []DeferredAreApplied
<1> DEFINE Waits == FirstPays /\ RenewalsFollow /\ RenewalsWait
<1>1. Init => Waits
  BY DEF Init, FirstPays, RenewalsFollow, RenewalsWait, NoPayment, Stored
<1>2. TypeOK /\ PaymentsInv /\ Orders /\ Waits /\ [Next]_vars => Waits'
  BY FirstPaysStep, RenewalsFollowStep, RenewalsWaitStep
<1>3. TypeOK /\ PaymentsInv /\ Waits => DeferredAreApplied
  <2> SUFFICES ASSUME TypeOK, PaymentsInv, Waits, NEW e \in Events,
                      Stored(e), e.recurring, e.approved, ~payment[e].failed,
                      e.ref \in Checkouts, checkout[e.ref].status = "claimed"
               PROVE  grants[e] = 1
    BY DEF DeferredAreApplied
  <2>1. grants[e] # 0 /\ grants[e] \in Nat
    BY DEF RenewalsWait, TypeOK
  <2> QED
    BY <2>1 DEF PaymentsInv, GrantedAreLinked
<1> QED
  BY <1>1, <1>2, <1>3, TypeCorrect, PaymentsCorrect, OrdersCorrect, PTL DEF Spec

-----------------------------------------------------------------------------
(***************************************************************************)
(* Referrals                                                               *)
(***************************************************************************)
LEMMA AttachFacts ==
    ASSUME NEW table \in [Users -> ReferralRow], NEW u \in Users \cup {None},
           NEW r \in Users \cup {None}
    PROVE  /\ AttachReferrer(table, u, r) \in [Users -> ReferralRow]
           /\ \A v \in Users :
                 /\ table[v].by # v => AttachReferrer(table, u, r)[v].by # v
                 /\ AttachReferrer(table, u, r)[v].status = "qualified" =>
                       table[v].status = "qualified"
<1>1. CASE AttachReferrer(table, u, r) = table
  BY <1>1
<1>2. CASE /\ u \in Users /\ r \in Users /\ r # u
           /\ AttachReferrer(table, u, r) =
                 [table EXCEPT ![u] = [by |-> r, status |-> "registered"]]
  BY <1>2 DEF ReferralRow
<1> QED
  BY <1>1, <1>2 DEF AttachReferrer

\* Qualifying one referral keeps who referred whom, and qualifies no other.
LEMMA QualifyFacts ==
    ASSUME NEW table \in [Users -> ReferralRow], NEW u \in Users
    PROVE  \A v \in Users :
              /\ QualifyReferral(table, u)[v].by = table[v].by
              /\ QualifyReferral(table, u)[v].status = "qualified" =>
                    table[v].status = "qualified" \/ v = u
<1>1. CASE QualifyReferral(table, u) = table
  BY <1>1
<1>2. CASE QualifyReferral(table, u) = [table EXCEPT ![u].status = "qualified"]
  BY <1>2 DEF ReferralRow
<1> QED
  BY <1>1, <1>2 DEF QualifyReferral

\* A step that writes the referrals refers nobody to himself, and qualifies only
\* the owner of a checkout it claims.
LEMMA ReferralSteps ==
    ASSUME TypeOK, PaymentsInv, Orders, [Next]_vars, NEW v \in Users,
           referral[v].by # v
    PROVE  /\ referral'[v].by # v
           /\ referral'[v].status = "qualified" =>
                 \/ referral[v].status = "qualified"
                 \/ \E c \in Checkouts : /\ checkout'[c].owner = v
                                         /\ checkout'[c].status = "claimed"
<1>0. referral \in [Users -> ReferralRow]
  BY DEF TypeOK
<1>1. ASSUME NEW c \in Checkouts, NEW u \in Users \cup {None},
             NEW r \in Users \cup {None}, CreateCheckout(c, u, r)
      PROVE  /\ referral'[v].by # v
             /\ referral'[v].status = "qualified" => referral[v].status = "qualified"
  BY <1>0, <1>1, AttachFacts DEF CreateCheckout
<1>2. ASSUME NEW c \in Checkouts, NEW u \in Users, ClaimUnpaid(c, u)
      PROVE  /\ referral'[v].by # v
             /\ referral'[v].status = "qualified" => referral[v].status = "qualified"
  <2>1. checkout[c].referrer \in Users \cup {None}
    BY DEF TypeOK, CheckoutRow
  <2>2. referral' = AttachReferrer(referral, u, checkout[c].referrer)
    BY <1>2 DEF ClaimUnpaid
  <2> QED
    BY <1>0, <2>1, <2>2, AttachFacts
<1>3. ASSUME NEW c \in Checkouts, CommitClaim(c)
      PROVE  /\ referral'[v].by # v
             /\ referral'[v].status = "qualified" =>
                   \/ referral[v].status = "qualified"
                   \/ /\ checkout'[c].owner = v /\ checkout'[c].status = "claimed"
  <2> DEFINE u     == claim[c].user
             table == AttachReferrer(referral, u, checkout[c].referrer)
  <2>1. /\ checkout[c] \in CheckoutRow /\ u \in Users
        /\ checkout[c].referrer \in Users \cup {None}
    BY <1>3 DEF CommitClaim, Claiming, TypeOK, CheckoutRow, ClaimState
  <2>2. checkout'[c] = [checkout[c] EXCEPT !.owner = u, !.status = "claimed"]
    BY <1>3 DEF CommitClaim, TypeOK
  <2>3. checkout'[c].owner = u /\ checkout'[c].status = "claimed"
    BY <2>1, <2>2 DEF CheckoutRow
  <2>4. referral' = table \/ referral' = QualifyReferral(table, u)
    BY <1>3 DEF CommitClaim
  <2>5. /\ table \in [Users -> ReferralRow] /\ table[v].by # v
        /\ table[v].status = "qualified" => referral[v].status = "qualified"
    BY <1>0, <2>1, AttachFacts
  <2> HIDE DEF table
  <2> QED
    BY <2>1, <2>3, <2>4, <2>5, QualifyFacts
<1>4. ASSUME NEW h \in Handlers, CommitCallback(h)
      PROVE  /\ referral'[v].by # v
             /\ referral'[v].status = "qualified" =>
                   \/ referral[v].status = "qualified"
                   \/ \E c \in Checkouts : /\ checkout'[c].owner = v
                                           /\ checkout'[c].status = "claimed"
  <2>1. PICK e \in Events, s \in Checkouts \cup {None} :
              \/ DeclinedCallback(h, e, s)  \/ MismatchedCallback(h, e, s)
              \/ DeferredCallback(h, e, s)  \/ AbsorbedCallback(h, e, s)
              \/ PaidCallback(h, e, s)      \/ ActivatingCallback(h, e, s)
              \/ RenewalCallback(h, e, s)   \/ UnmatchedCallback(h, e, s)
    BY <1>4 DEF CommitCallback
  <2>2. CASE ActivatingCallback(h, e, s)
    <3>1. /\ e.ref \in Checkouts /\ checkout[e.ref].owner # None
          /\ referral' = QualifyReferral(referral, checkout[e.ref].owner)
          /\ checkout' = [checkout EXCEPT ![e.ref] =
                [@ EXCEPT !.status = "claimed", !.paid_at = now]]
      BY <2>2 DEF ActivatingCallback, FirstPayment, KnownPlain
    <3>2. checkout[e.ref] \in CheckoutRow
      BY <3>1 DEF TypeOK
    <3>3. checkout'[e.ref] =
             [checkout[e.ref] EXCEPT !.status = "claimed", !.paid_at = now]
      BY <3>1 DEF TypeOK
    <3>4. /\ checkout[e.ref].owner \in Users
          /\ checkout'[e.ref].owner = checkout[e.ref].owner
          /\ checkout'[e.ref].status = "claimed"
      BY <3>1, <3>2, <3>3 DEF CheckoutRow
    <3> QED
      BY <1>0, <3>1, <3>4, QualifyFacts
  <2>3. CASE UNCHANGED referral
    BY <2>3
  <2> QED
    BY <2>1, <2>2, <2>3 DEF DeclinedCallback, MismatchedCallback, DeferredCallback,
       AbsorbedCallback, PaidCallback, RenewalCallback, UnmatchedCallback
<1>5. ASSUME NEW k \in Checkouts,
             \/ \E u \in Users : BeginClaim(k, u)
             \/ DrainDeferred(k) \/ ClaimMetaPurchase(k) \/ Expire(k) \/ CrashClaim(k)
      PROVE  UNCHANGED referral
  BY <1>5 DEF BeginClaim, DrainDeferred, ClaimMetaPurchase, Expire, CrashClaim
<1>6. ASSUME \/ \E h \in Handlers, d \in Events : ReceiveCallback(h, d)
             \/ \E h \in Handlers : RejectDuplicate(h) \/ CrashHandler(h)
             \/ BeginReconcile \/ ReconcileNext \/ CommitReconcile \/ CrashReconcile
             \/ \E d \in Events : ProviderSends(d)
             \/ Tick \/ UNCHANGED vars
      PROVE  UNCHANGED referral
  BY <1>6 DEF ReceiveCallback, RejectDuplicate, CrashHandler, BeginReconcile,
     ReconcileNext, ReconcileOne, CommitReconcile, CrashReconcile, ProviderSends,
     Tick, vars
<1> QED
  BY <1>1, <1>2, <1>3, <1>4, <1>5, <1>6 DEF Next

\* Whoever is bound, claims or pays first, a referral is qualified only by a
\* subscription of the person referred, and nobody refers himself.
THEOREM ReferralsAreAlwaysEarned == Spec => []ReferralsAreEarned
<1>1. Init => ReferralsAreEarned
  BY BillingAssumption DEF Init, ReferralsAreEarned
<1>2. ASSUME TypeOK, PaymentsInv, Orders, Orders', ReferralsAreEarned, [Next]_vars
      PROVE  ReferralsAreEarned'
  <2>1. CheckoutsStay
    BY <1>2, OrdersStep
  <2> SUFFICES ASSUME NEW v \in Users
               PROVE  /\ referral'[v].by # v
                      /\ referral'[v].status = "qualified" =>
                            \E c \in Checkouts : checkout'[c].owner = v /\ Exists(c)'
    BY DEF ReferralsAreEarned
  <2>2. /\ referral[v].by # v
        /\ referral[v].status = "qualified" =>
              \E c \in Checkouts : checkout[c].owner = v /\ Exists(c)
    BY <1>2 DEF ReferralsAreEarned
  <2>3. /\ referral'[v].by # v
        /\ referral'[v].status = "qualified" =>
              \/ referral[v].status = "qualified"
              \/ \E c \in Checkouts : /\ checkout'[c].owner = v
                                      /\ checkout'[c].status = "claimed"
    BY <1>2, <2>2, ReferralSteps
  <2>4. ASSUME NEW c \in Checkouts, checkout[c].owner = v, Exists(c)
        PROVE  checkout'[c].owner = v /\ checkout'[c].status = "claimed"
    BY <1>2, <2>1, <2>4, BillingAssumption DEF CheckoutsStay, Orders, CheckoutsSound
  <2>5. \A c \in Checkouts : checkout'[c].status = "claimed" => Exists(c)'
    BY <1>2 DEF Orders, CheckoutsSound
  <2> QED
    BY <2>2, <2>3, <2>4, <2>5
<1>3. TypeOK /\ PaymentsInv /\ Orders /\ [Next]_vars => Orders'
  BY OrdersStep
<1> QED
  BY <1>1, <1>2, <1>3, TypeCorrect, PaymentsCorrect, OrdersCorrect, PTL DEF Spec

=============================================================================
