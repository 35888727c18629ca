---------------------------- MODULE BillingProofs ----------------------------
(***************************************************************************)
(* What holds of Billing for every set of accounts, checkouts, requests    *)
(* and callbacks, and for every price, period and bound.                   *)
(***************************************************************************)
EXTENDS Billing, TLAPS

-----------------------------------------------------------------------------
(***************************************************************************)
(* The rows the transactions write are rows                                *)
(***************************************************************************)
\* Activation inserts a well-formed subscription.
LEMMA NewSubscriptionType ==
    ASSUME NEW t \in Nat, NEW m \in Nat, NEW r \in RecurringStatus
    PROVE  NewSubscription(t, m, r) \in SubscriptionRow
  BY DEF NewSubscription, SubscriptionRow, SubscriptionStatus

\* The row that stands for "no subscription" is one too.
LEMMA NoSubscriptionType == NoSubscription \in SubscriptionRow
<1>1. NewSubscription(0, 0, "pending") \in SubscriptionRow
  BY NewSubscriptionType DEF RecurringStatus
<1> QED
  BY <1>1 DEF NoSubscription, SubscriptionRow, SubscriptionStatus

\* A renewal keeps the row well-formed.
LEMMA ExtendSubscriptionType ==
    ASSUME NEW s \in SubscriptionRow, NEW m \in Nat, NEW t \in Nat
    PROVE  ExtendSubscription(s, m, t) \in SubscriptionRow
<1> DEFINE base == IF s.current_period_end < t THEN t ELSE s.current_period_end
           row(b, e) == [s EXCEPT !.current_period_start            = b,
                                  !.current_period_end              = e,
                                  !.status                          = "active",
                                  !.cancel_at_period_end            = FALSE,
                                  !.payment_failed_at               = FALSE,
                                  !.payment_failed_user_notified_at = FALSE,
                                  !.grace_reminder_notified_at      = FALSE,
                                  !.access_revoked_at               = FALSE,
                                  !.access_revoked_notified_at      = FALSE,
                                  !.shutdown_at                     = FALSE,
                                  !.shutdown_error                  = FALSE,
                                  !.shutdown_alerted_at             = FALSE]
<1>1. base \in Nat /\ base + m \in Nat
  BY DEF SubscriptionRow
<1>2. ASSUME NEW b \in Nat, NEW e \in Nat
      PROVE  row(b, e) \in SubscriptionRow
  BY ZenonT(60) DEF SubscriptionRow, SubscriptionStatus
<1>3. ExtendSubscription(s, m, t) = row(base, base + m)
  BY Zenon DEF ExtendSubscription
<1> HIDE DEF row, base
<1> QED
  BY <1>1, <1>2, <1>3

\* So does a refused payment.
LEMMA ApplyFailedPaymentType ==
    ASSUME NEW s \in SubscriptionRow
    PROVE  ApplyFailedPayment(s) \in SubscriptionRow
  BY DEF ApplyFailedPayment, SubscriptionRow, SubscriptionStatus

\* And so does the expiration.
LEMMA ExpireSubscriptionType ==
    ASSUME NEW s \in SubscriptionRow, NEW b \in BOOLEAN
    PROVE  ExpireSubscription(s, b) \in SubscriptionRow
  BY DEF ExpireSubscription, SubscriptionRow, SubscriptionStatus

\* Writing changed columns over a row yields a row.
LEMMA FlushType ==
    ASSUME NEW b \in SubscriptionRow, NEW w \in SubscriptionRow,
           NEW s \in SubscriptionRow
    PROVE  Flush(b, w, s) \in SubscriptionRow
  BY DEF Flush, SubscriptionRow

\* A checkout that is paid or claimed is still a well-formed row.
LEMMA CheckoutPaidType ==
    ASSUME NEW k \in CheckoutRow, NEW st \in CheckoutStatus, NEW t \in Nat
    PROVE  [k EXCEPT !.status = st, !.paid_at = t] \in CheckoutRow
  BY DEF CheckoutRow

\* The same for the owner it gets.
LEMMA CheckoutOwnedType ==
    ASSUME NEW k \in CheckoutRow, NEW st \in CheckoutStatus, NEW u \in Users
    PROVE  [k EXCEPT !.owner = u, !.status = st] \in CheckoutRow
  BY DEF CheckoutRow

\* A payment that is linked, and whose failure may be cleared, is a payment row.
LEMMA PaymentLinkedType ==
    ASSUME NEW p \in PaymentRow, NEW c \in Checkouts, NEW b \in BOOLEAN
    PROVE  [p EXCEPT !.subscription = c, !.failed = b] \in PaymentRow
  BY DEF PaymentRow

-----------------------------------------------------------------------------
(***************************************************************************)
(* Type correctness                                                        *)
(***************************************************************************)
\* Every action, one at a time, keeps the tables and the transactions in shape.
LEMMA TypeStep == TypeOK /\ [Next]_vars => TypeOK'
<1> SUFFICES ASSUME TypeOK, [Next]_vars PROVE TypeOK'
  OBVIOUS
<1> USE BillingAssumption
<1>1. ASSUME NEW c \in Checkouts, NEW u \in Users \cup {None},
             NEW r \in Users \cup {None}, CreateCheckout(c, u, r)
      PROVE  TypeOK'
  <2>1. checkout' \in [Checkouts -> CheckoutRow]
    BY <1>1 DEF CreateCheckout, TypeOK, CheckoutRow, CheckoutStatus
  <2>2. referral' \in [Users -> ReferralRow]
    BY <1>1 DEF CreateCheckout, AttachReferrer, TypeOK, ReferralRow
  <2> QED
    BY <1>1, <2>1, <2>2 DEF CreateCheckout, TypeOK
<1>2. ASSUME NEW c \in Checkouts, NEW u \in Users, ClaimUnpaid(c, u)
      PROVE  TypeOK'
  <2>1. checkout' \in [Checkouts -> CheckoutRow]
    BY <1>2 DEF ClaimUnpaid, TypeOK, CheckoutRow
  <2>2. referral' \in [Users -> ReferralRow]
    BY <1>2 DEF ClaimUnpaid, AttachReferrer, TypeOK, ReferralRow, CheckoutRow
  <2> QED
    BY <1>2, <2>1, <2>2 DEF ClaimUnpaid, TypeOK
<1>3. ASSUME NEW c \in Checkouts, NEW u \in Users, BeginClaim(c, u)
      PROVE  TypeOK'
  <2> DEFINE row == IF Exists(c) THEN sub[c] ELSE ActivatedRow(c, checkout[c].paid_at)
  <2>1. row \in SubscriptionRow
    BY NewSubscriptionType DEF ActivatedRow, TypeOK, CheckoutRow, RecurringStatus
  <2>2. Deferred(c) \in SUBSET Events
    BY DEF Deferred
  <2>3. claim' = [claim EXCEPT ![c] =
            [user |-> u, base |-> row, work |-> row,
             held |-> Deferred(c), todo |-> Deferred(c)]]
    BY <1>3 DEF BeginClaim
  <2> HIDE DEF row
  <2>4. claim' \in [Checkouts -> ClaimState]
    BY <2>1, <2>2, <2>3 DEF TypeOK, ClaimState
  <2> QED
    BY <1>3, <2>4 DEF BeginClaim, TypeOK
<1>4. ASSUME NEW c \in Checkouts, DrainDeferred(c)
      PROVE  TypeOK'
  <2>1. PICK e \in Earliest(claim[c].todo) :
            claim' = [claim EXCEPT ![c].work = ApplyDeferred(@, e),
                                   ![c].todo = @ \ {e}]
    BY <1>4 DEF DrainDeferred
  <2>2. claim[c] \in ClaimState /\ e \in Events
    BY <2>1 DEF TypeOK, Earliest, ClaimState
  <2>3. ApplyDeferred(claim[c].work, e) \in SubscriptionRow
    BY <2>2, ExtendSubscriptionType, ApplyFailedPaymentType
       DEF ApplyDeferred, ClaimState, TypeOK, PaymentRow
  <2>4. claim' \in [Checkouts -> ClaimState]
    BY <2>1, <2>2, <2>3 DEF TypeOK, ClaimState
  <2> QED
    BY <1>4, <2>4 DEF DrainDeferred, TypeOK
<1>5. ASSUME NEW c \in Checkouts, CommitClaim(c)
      PROVE  TypeOK'
  <2>1. claim[c] \in ClaimState /\ claim[c].user \in Users
    BY <1>5 DEF TypeOK, CommitClaim, ClaimState, Claiming
  <2>2. sub' \in [Checkouts -> SubscriptionRow]
    BY <1>5, <2>1, FlushType DEF CommitClaim, TypeOK, ClaimState
  <2>3. checkout' \in [Checkouts -> CheckoutRow]
    <3>1. [checkout[c] EXCEPT !.owner = claim[c].user, !.status = "claimed"]
              \in CheckoutRow
      BY <2>1, CheckoutOwnedType DEF TypeOK, CheckoutStatus
    <3> QED
      BY <1>5, <3>1 DEF CommitClaim, TypeOK
  <2>4. payment' \in [Events -> PaymentRow]
    BY <1>5 DEF CommitClaim, TypeOK, PaymentRow
  <2>5. grants' \in [Events -> Nat]
    BY <1>5 DEF CommitClaim, TypeOK
  <2>6. referral' \in [Users -> ReferralRow]
    BY <1>5, <2>1 DEF CommitClaim, AttachReferrer, QualifyReferral, TypeOK,
                      ReferralRow, CheckoutRow
  <2>7. claim' \in [Checkouts -> ClaimState]
    BY <1>5, NoSubscriptionType DEF CommitClaim, TypeOK, ClaimState, IdleClaim
  <2> QED
    BY <1>5, <2>2, <2>3, <2>4, <2>5, <2>6, <2>7 DEF CommitClaim, TypeOK
<1>6. ASSUME NEW c \in Checkouts, ClaimMetaPurchase(c)
      PROVE  TypeOK'
  BY <1>6 DEF ClaimMetaPurchase, TypeOK
<1>7. ASSUME NEW c \in Checkouts, Expire(c)
      PROVE  TypeOK'
  BY <1>7, ExpireSubscriptionType DEF Expire, TypeOK
<1>8. ASSUME NEW c \in Checkouts, CrashClaim(c)
      PROVE  TypeOK'
  BY <1>8, NoSubscriptionType
     DEF CrashClaim, MayCrash, TypeOK, ClaimState, IdleClaim
<1>9. ASSUME NEW h \in Handlers, NEW e \in Events, ReceiveCallback(h, e)
      PROVE  TypeOK'
  <2>1. ASSUME NEW b \in BOOLEAN
        PROVE  [event |-> e, seen |-> b, began |-> now] \in HandlerState
    BY DEF TypeOK, HandlerState
  <2>2. (Matches(e) # {}) \in BOOLEAN
    OBVIOUS
  <2>3. handler' \in [Handlers -> HandlerState]
    BY <1>9, <2>1, <2>2 DEF ReceiveCallback, TypeOK
  <2> QED
    BY <1>9, <2>3 DEF ReceiveCallback, TypeOK
<1>10. ASSUME NEW h \in Handlers, RejectDuplicate(h) \/ CrashHandler(h)
       PROVE  TypeOK'
  <2>1. IdleHandler \in HandlerState
    BY DEF IdleHandler, HandlerState
  <2>2. CASE RejectDuplicate(h)
    BY <2>1, <2>2 DEF RejectDuplicate, TypeOK
  <2>3. CASE CrashHandler(h)
    BY <2>1, <2>3 DEF CrashHandler, MayCrash, TypeOK
  <2> QED
    BY <1>10, <2>2, <2>3
<1>11. ASSUME NEW h \in Handlers, CommitCallback(h)
       PROVE  TypeOK'
  <2>1. PICK e \in Events, s \in Checkouts \cup {None} :
            \/ DeclinedCallback(h, e, s)  \/ MismatchedCallback(h, e, s)
            \/ DeferredCallback(h, e, s)  \/ AbsorbedCallback(h, e, s)
            \/ PaidCallback(h, e, s)      \/ ActivatingCallback(h, e, s)
            \/ RenewalCallback(h, e, s)   \/ UnmatchedCallback(h, e, s)
    BY <1>11 DEF CommitCallback
  <2>2. ASSUME NEW l \in Checkouts \cup {None}, NEW f \in BOOLEAN,
               StorePayment(h, e, l, s, f)
        PROVE  /\ payment' \in [Events -> PaymentRow]
               /\ handler' \in [Handlers -> HandlerState]
               /\ UNCHANGED <<now, meta, sent, claim, recon, crashes>>
    BY <2>2 DEF StorePayment, TypeOK, PaymentRow, HandlerState, IdleHandler
  <2>3. CASE DeclinedCallback(h, e, s)
    BY <2>2, <2>3, ApplyFailedPaymentType DEF DeclinedCallback, TypeOK
  <2>4. CASE MismatchedCallback(h, e, s)
    BY <2>2, <2>4 DEF MismatchedCallback, TypeOK
  <2>5. CASE DeferredCallback(h, e, s)
    BY <2>2, <2>5 DEF DeferredCallback, TypeOK
  <2>6. CASE AbsorbedCallback(h, e, s)
    BY <2>2, <2>6 DEF AbsorbedCallback, TypeOK
  <2>7. CASE PaidCallback(h, e, s)
    <3>1. ASSUME NEW c \in Checkouts
          PROVE  [checkout[c] EXCEPT !.status = "paid", !.paid_at = now] \in CheckoutRow
      BY CheckoutPaidType DEF TypeOK, CheckoutStatus
    <3>2. checkout' \in [Checkouts -> CheckoutRow]
      BY <2>7, <3>1 DEF PaidCallback, TypeOK
    <3> QED
      BY <2>2, <2>7, <3>2 DEF PaidCallback, TypeOK
  <2>8. CASE ActivatingCallback(h, e, s)
    <3>1. e.ref \in Checkouts /\ checkout[e.ref].owner \in Users
      BY <2>8 DEF ActivatingCallback, FirstPayment, KnownPlain, TypeOK, CheckoutRow
    <3>2. checkout' \in [Checkouts -> CheckoutRow]
      <4>1. [checkout[e.ref] EXCEPT !.status = "claimed", !.paid_at = now] \in CheckoutRow
        BY <3>1, CheckoutPaidType DEF TypeOK, CheckoutStatus
      <4> QED
        BY <2>8, <4>1 DEF ActivatingCallback, TypeOK
    <3>3. ActivatedRow(e.ref, now) \in SubscriptionRow
      BY <3>1, NewSubscriptionType DEF ActivatedRow, TypeOK, CheckoutRow, RecurringStatus
    <3>4. sub' \in [Checkouts -> SubscriptionRow]
      BY <2>8, <3>1, <3>3 DEF ActivatingCallback, TypeOK
    <3>5. rec_token' \in [Checkouts -> Tokens \cup {None}]
      BY <2>8, <3>1 DEF ActivatingCallback, TypeOK
    <3>6. referral' \in [Users -> ReferralRow]
      BY <2>8, <3>1 DEF ActivatingCallback, QualifyReferral, TypeOK, ReferralRow
    <3> QED
      BY <2>2, <2>8, <3>1, <3>2, <3>4, <3>5, <3>6 DEF ActivatingCallback, TypeOK
  <2>9. CASE RenewalCallback(h, e, s)
    <3>1. sub' \in [Checkouts -> SubscriptionRow]
      BY <2>9, ExtendSubscriptionType DEF RenewalCallback, TypeOK
    <3>2. rec_token' \in [Checkouts -> Tokens \cup {None}]
      BY <2>9 DEF RenewalCallback, TypeOK
    <3>3. grants' \in [Events -> Nat]
      BY <2>9 DEF RenewalCallback, TypeOK
    <3> QED
      BY <2>2, <2>9, <3>1, <3>2, <3>3 DEF RenewalCallback, TypeOK
  <2>10. CASE UnmatchedCallback(h, e, s)
    BY <2>2, <2>10 DEF UnmatchedCallback, TypeOK
  <2> QED
    BY <2>1, <2>3, <2>4, <2>5, <2>6, <2>7, <2>8, <2>9, <2>10
<1>12. CASE BeginReconcile
  <2>1. recon' \in ReconState
    BY <1>12, NoSubscriptionType DEF BeginReconcile, IdleRecon, TypeOK, ReconState
  <2> QED
    BY <1>12, <2>1 DEF BeginReconcile, TypeOK
<1>13. CASE ReconcileNext
  <2>1. PICK e \in Earliest(recon.todo) : ReconcileOne(e)
    BY <1>13 DEF ReconcileNext
  <2>2. recon \in ReconState /\ e \in Events
    BY <2>1 DEF TypeOK, Earliest, ReconState
  <2>3. ASSUME NEW s \in SubscriptionRow
        PROVE  ReconciledRow(s, e) \in SubscriptionRow
    BY <2>2, ExtendSubscriptionType, ApplyFailedPaymentType
       DEF ReconciledRow, TypeOK, PaymentRow
  <2>4. ASSUME e.ref # Foreign
        PROVE  (IF e.ref \in recon.locked THEN recon.work[e.ref] ELSE sub[e.ref])
                    \in SubscriptionRow
    BY <2>2, <2>4 DEF ReconState, TypeOK
  <2>5. recon' \in ReconState
    BY <2>1, <2>2, <2>3, <2>4, ZenonT(60) DEF ReconcileOne, ReconState
  <2> QED
    BY <2>1, <2>5 DEF ReconcileOne, TypeOK
<1>14. CASE CommitReconcile
  <2>1. sub' \in [Checkouts -> SubscriptionRow]
    BY <1>14 DEF CommitReconcile, TypeOK, ReconState
  <2>2. payment' \in [Events -> PaymentRow]
    <3>1. ASSUME NEW e \in Events, e \in recon.done
          PROVE  [payment[e] EXCEPT !.subscription = e.ref,
                                    !.failed = @ /\ ~e.approved] \in PaymentRow
      <4>1. e.ref \in Checkouts /\ e.approved \in BOOLEAN
        BY <3>1 DEF TypeOK, ReconState
      <4>2. payment[e] \in PaymentRow /\ (payment[e].failed /\ ~e.approved) \in BOOLEAN
        BY DEF TypeOK, PaymentRow
      <4> QED
        BY <4>1, <4>2, PaymentLinkedType
    <3> QED
      BY <1>14, <3>1 DEF CommitReconcile, TypeOK
  <2>3. grants' \in [Events -> Nat]
    <3>1. ASSUME NEW e \in Events
          PROVE  grants[e] + 1 \in Nat /\ grants[e] \in Nat
      BY DEF TypeOK
    <3> QED
      BY <1>14, <3>1 DEF CommitReconcile
  <2>4. recon' \in ReconState
    BY <1>14, NoSubscriptionType DEF CommitReconcile, IdleRecon, ReconState
  <2> QED
    BY <1>14, <2>1, <2>2, <2>3, <2>4 DEF CommitReconcile, TypeOK
<1>15. CASE CrashReconcile
  BY <1>15, NoSubscriptionType
     DEF CrashReconcile, MayCrash, IdleRecon, ReconState, TypeOK
<1>16. ASSUME NEW e \in Events, ProviderSends(e)
       PROVE  TypeOK'
  BY <1>16 DEF ProviderSends, TypeOK
<1>17. CASE Tick
  BY <1>17 DEF Tick, TypeOK
<1>18. CASE UNCHANGED vars
  BY <1>18 DEF vars, TypeOK
<1> QED
  BY <1>1, <1>2, <1>3, <1>4, <1>5, <1>6, <1>7, <1>8, <1>9, <1>10, <1>11, <1>12,
     <1>13, <1>14, <1>15, <1>16, <1>17, <1>18 DEF Next

\* Every reachable state of the billing database and of the transactions
\* working on it is well-formed, whatever the callbacks.
THEOREM TypeCorrect == Spec => []TypeOK
<1>1. Init => TypeOK
  BY BillingAssumption, NoSubscriptionType
     DEF Init, TypeOK, NoCheckout, CheckoutRow, CheckoutStatus, NoPayment, PaymentRow,
         ReferralRow, HandlerState, IdleHandler, ClaimState, IdleClaim, ReconState,
         IdleRecon
<1> QED
  BY <1>1, TypeStep, PTL DEF Spec

-----------------------------------------------------------------------------
(***************************************************************************)
(* Each payment is applied at most once                                    *)
(***************************************************************************)
\* A stored payment disturbs no claim and no reconciliation, provided that the
\* checkout it is deferred to is not being claimed and that the payment is
\* linked when it moves a date.
LEMMA StoreKeepsPayments ==
    ASSUME TypeOK, PaymentsInv,
           NEW h \in Handlers, NEW e \in Events, NEW f \in BOOLEAN,
           NEW l \in Checkouts \cup {None}, NEW s \in Checkouts \cup {None},
           ~Stored(e), StorePayment(h, e, l, s, f),
           (l = None /\ ~KnownPlain(e) /\ e.ref \in Checkouts) => ~Claiming(e.ref),
           \/ grants' = grants
           \/ l # None /\ grants' = [grants EXCEPT ![e] = @ + 1]
    PROVE  PaymentsInv'
<1>1. /\ claim' = claim /\ recon' = recon
      /\ \A d \in Events : d # e => payment'[d] = payment[d]
      /\ payment'[e].stored /\ payment'[e].subscription = l
      /\ payment'[e].checkout \in {e.ref, None}
    BY DEF StorePayment, TypeOK
<1>2. grants[e] = 0
  BY DEF TypeOK, PaymentsInv, GrantedAreLinked
<1>3. GrantedAreLinked'
  <2> SUFFICES ASSUME NEW d \in Events, grants'[d] > 0
               PROVE  grants'[d] = 1 /\ Stored(d)' /\ payment'[d].subscription # None
    BY DEF GrantedAreLinked
  <2>1. CASE d = e
    BY <1>1, <1>2, <2>1 DEF TypeOK, Stored
  <2>2. CASE d # e
    <3>1. grants'[d] = grants[d]
      BY <2>2 DEF TypeOK
    <3> QED
      BY <1>1, <2>2, <3>1 DEF Stored, PaymentsInv, GrantedAreLinked
  <2> QED
    BY <2>1, <2>2
<1>4. ASSUME NEW c \in Checkouts, Claiming(c)
      PROVE  Deferred(c)' = Deferred(c)
  <2>1. e \notin Deferred(c)
    BY DEF Deferred
  <2>2. e \notin Deferred(c)'
    <3>1. CASE payment'[e].checkout = c /\ l = None /\ ~KnownPlain(e)
      BY <1>1, <1>4, <3>1, BillingAssumption
    <3>2. CASE ~(payment'[e].checkout = c /\ l = None /\ ~KnownPlain(e))
      BY <1>1, <3>2 DEF Deferred, KnownPlain
    <3> QED
      BY <3>1, <3>2
  <2> QED
    BY <1>1, <2>1, <2>2 DEF Deferred, Stored, KnownPlain
<1>5. ClaimsHoldDeferred'
  BY <1>1, <1>4 DEF PaymentsInv, ClaimsHoldDeferred, Claiming
<1>6. ReconHoldsUnlinked'
  <2>1. recon.held \subseteq Events /\ e \notin recon.held
    BY DEF PaymentsInv, ReconHoldsUnlinked, TypeOK, ReconState
  <2> QED
    BY <1>1, <2>1 DEF PaymentsInv, ReconHoldsUnlinked, Stored
<1> QED
  BY <1>3, <1>5, <1>6 DEF PaymentsInv

\* The callbacks meet those conditions: one that finds no subscription holds
\* the lock of the checkout, and only a renewal it links moves a date.
LEMMA CallbackKeepsPayments ==
    ASSUME TypeOK, PaymentsInv, NEW h \in Handlers, CommitCallback(h)
    PROVE  PaymentsInv'
<1>1. PICK e \in Events, s \in Checkouts \cup {None} :
          \/ DeclinedCallback(h, e, s)  \/ MismatchedCallback(h, e, s)
          \/ DeferredCallback(h, e, s)  \/ AbsorbedCallback(h, e, s)
          \/ PaidCallback(h, e, s)      \/ ActivatingCallback(h, e, s)
          \/ RenewalCallback(h, e, s)   \/ UnmatchedCallback(h, e, s)
  BY DEF CommitCallback
<1>2. Commits(h, e, s)
  BY <1>1 DEF DeclinedCallback, MismatchedCallback, DeferredCallback, AbsorbedCallback,
              PaidCallback, ActivatingCallback, RenewalCallback, UnmatchedCallback
<1>3. ~Stored(e)
  BY <1>2 DEF Commits
<1>4. (s = None /\ e.ref \in Checkouts) => ~Claiming(e.ref)
  <2>1. s = None => Found(h) = {}
    BY <1>2, BillingAssumption DEF Commits, Picks, Found, Matches
  <2> QED
    BY <1>2, <2>1 DEF Commits, LocksFree
<1>5. CASE DeclinedCallback(h, e, s)
  BY <1>3, <1>4, <1>5, StoreKeepsPayments DEF DeclinedCallback
<1>6. CASE MismatchedCallback(h, e, s)
  BY <1>3, <1>4, <1>6, StoreKeepsPayments DEF MismatchedCallback
<1>7. CASE DeferredCallback(h, e, s)
  BY <1>3, <1>4, <1>7, StoreKeepsPayments DEF DeferredCallback
<1>8. CASE AbsorbedCallback(h, e, s)
  BY <1>3, <1>4, <1>8, StoreKeepsPayments DEF AbsorbedCallback
<1>9. CASE PaidCallback(h, e, s)
  BY <1>3, <1>4, <1>9, StoreKeepsPayments DEF PaidCallback
<1>10. CASE ActivatingCallback(h, e, s)
  <2>1. e.ref \in Checkouts /\ e.ref # None
    BY <1>10, BillingAssumption DEF ActivatingCallback, FirstPayment, KnownPlain
  <2> QED
    BY <1>3, <1>10, <2>1, StoreKeepsPayments DEF ActivatingCallback
<1>11. CASE RenewalCallback(h, e, s)
  BY <1>3, <1>11, StoreKeepsPayments DEF RenewalCallback
<1>12. CASE UnmatchedCallback(h, e, s)
  BY <1>3, <1>12, StoreKeepsPayments, BillingAssumption DEF UnmatchedCallback
<1> QED
  BY <1>1, <1>5, <1>6, <1>7, <1>8, <1>9, <1>10, <1>11, <1>12

\* The commit of a claim links what it applies, and nothing another holds.
LEMMA CommitClaimKeepsPayments ==
    ASSUME TypeOK, PaymentsInv, NEW c \in Checkouts, CommitClaim(c)
    PROVE  PaymentsInv'
<1> DEFINE linked == {e \in Events : Stored(e) /\ payment[e].subscription = None
                        /\ payment[e].checkout = c
                        /\ \/ e \in claim[c].held /\ Settles(e)
                           \/ e.approved /\ ~payment[e].failed}
           paying == {e \in claim[c].held : e.approved /\ Settles(e)}
<1>1. /\ payment' = [e \in Events |->
              IF e \in linked THEN [payment[e] EXCEPT !.subscription = c]
              ELSE payment[e]]
      /\ grants' = [e \in Events |->
              IF e \in paying THEN grants[e] + 1 ELSE grants[e]]
      /\ claim' = [claim EXCEPT ![c] = IdleClaim]
      /\ recon' = recon
      /\ Claiming(c)
  BY DEF CommitClaim
<1>2. claim[c].held = Deferred(c)
  BY <1>1 DEF PaymentsInv, ClaimsHoldDeferred
<1>3. paying \subseteq linked /\ c # None
  BY <1>2, BillingAssumption DEF Deferred
<1> HIDE DEF paying
<1>4. \A e \in Events :
          /\ Stored(e)' = Stored(e)
          /\ payment'[e].checkout = payment[e].checkout
          /\ payment'[e].subscription = IF e \in linked THEN c
                                        ELSE payment[e].subscription
  BY <1>1 DEF Stored, TypeOK, PaymentRow
<1>5. GrantedAreLinked'
  <2> SUFFICES ASSUME NEW e \in Events, grants'[e] > 0
               PROVE  grants'[e] = 1 /\ Stored(e)' /\ payment'[e].subscription # None
    BY DEF GrantedAreLinked
  <2>1. CASE e \in paying
    <3>1. e \in linked /\ Stored(e) /\ payment[e].subscription = None
      BY <1>3, <2>1
    <3>2. grants[e] = 0
      BY <3>1 DEF TypeOK, PaymentsInv, GrantedAreLinked
    <3> QED
      BY <1>1, <1>3, <1>4, <2>1, <3>1, <3>2
  <2>2. CASE e \notin paying
    BY <1>1, <1>3, <1>4, <2>2 DEF PaymentsInv, GrantedAreLinked
  <2> QED
    BY <2>1, <2>2
<1>6. ClaimsHoldDeferred'
  <2>1. ASSUME NEW d \in Checkouts, d # c
        PROVE  Deferred(d)' = Deferred(d)
    BY <1>3, <1>4, <2>1 DEF Deferred, KnownPlain
  <2>2. /\ claim'[c] = IdleClaim
        /\ \A d \in Checkouts : d # c => claim'[d] = claim[d]
    BY <1>1 DEF TypeOK
  <2> QED
    BY <2>1, <2>2 DEF PaymentsInv, ClaimsHoldDeferred, Claiming, IdleClaim
<1>7. ReconHoldsUnlinked'
  <2>1. ASSUME NEW e \in recon.held
        PROVE  e \in Events /\ e \notin linked
    BY <1>2 DEF PaymentsInv, ReconHoldsUnlinked, TypeOK, ReconState, Deferred, KnownPlain
  <2>2. \A d \in Checkouts : claim'[d].held \subseteq claim[d].held
    BY <1>1 DEF TypeOK, IdleClaim
  <2> QED
    BY <1>1, <1>4, <2>1, <2>2 DEF PaymentsInv, ReconHoldsUnlinked
<1> QED
  BY <1>5, <1>6, <1>7 DEF PaymentsInv

\* The commit of the reconciliation links what it applies, which no claim holds.
LEMMA CommitReconcileKeepsPayments ==
    ASSUME TypeOK, PaymentsInv, CommitReconcile
    PROVE  PaymentsInv'
<1>1. /\ payment' = [e \in Events |->
              IF e \notin recon.done THEN payment[e]
              ELSE [payment[e] EXCEPT !.subscription = e.ref,
                                      !.failed       = @ /\ ~e.approved]]
      /\ grants' = [e \in Events |->
              IF e \in recon.done /\ e.approved THEN grants[e] + 1 ELSE grants[e]]
      /\ recon' = IdleRecon
      /\ claim' = claim
  BY DEF CommitReconcile
<1>2. \A e \in recon.done :
          /\ e \in Events /\ e.ref # None
          /\ Stored(e) /\ payment[e].subscription = None
          /\ \A c \in Checkouts : e \notin claim[c].held
  BY BillingAssumption DEF PaymentsInv, ReconHoldsUnlinked, TypeOK, ReconState
<1>3. \A e \in Events :
          /\ Stored(e)' = Stored(e)
          /\ payment'[e].checkout = payment[e].checkout
          /\ payment'[e].subscription = IF e \in recon.done THEN e.ref
                                        ELSE payment[e].subscription
  BY <1>1 DEF Stored, TypeOK, PaymentRow
<1>4. GrantedAreLinked'
  <2> SUFFICES ASSUME NEW e \in Events, grants'[e] > 0
               PROVE  grants'[e] = 1 /\ Stored(e)' /\ payment'[e].subscription # None
    BY DEF GrantedAreLinked
  <2>1. CASE e \in recon.done
    <3>1. grants[e] = 0
      BY <1>2, <2>1 DEF TypeOK, PaymentsInv, GrantedAreLinked
    <3>2. e.approved
      <4> SUFFICES ASSUME ~e.approved PROVE FALSE
        OBVIOUS
      <4>1. grants'[e] = grants[e]
        BY <1>1
      <4> QED
        BY <3>1, <4>1
    <3>3. grants'[e] = grants[e] + 1
      BY <1>1, <2>1, <3>2
    <3>4. grants'[e] = 1
      BY <3>1, <3>3
    <3> QED
      BY <1>2, <1>3, <2>1, <3>4
  <2>2. CASE e \notin recon.done
    BY <1>1, <1>3, <2>2 DEF PaymentsInv, GrantedAreLinked
  <2> QED
    BY <2>1, <2>2
<1>5. ClaimsHoldDeferred'
  <2>1. ASSUME NEW c \in Checkouts, Claiming(c)
        PROVE  Deferred(c)' = Deferred(c)
    <3>1. \A e \in recon.done : e \notin Deferred(c)
      BY <1>2, <2>1 DEF PaymentsInv, ClaimsHoldDeferred
    <3> QED
      BY <1>2, <1>3, <3>1 DEF Deferred, KnownPlain
  <2> QED
    BY <1>1, <2>1 DEF PaymentsInv, ClaimsHoldDeferred, Claiming
<1>6. ReconHoldsUnlinked'
  BY <1>1 DEF ReconHoldsUnlinked, IdleRecon
<1> QED
  BY <1>4, <1>5, <1>6 DEF PaymentsInv

\* The other actions either leave the payments and their holders alone, or
\* open, advance or abandon a claim or a reconciliation.
LEMMA PaymentsStep == TypeOK /\ PaymentsInv /\ [Next]_vars => PaymentsInv'
<1> SUFFICES ASSUME TypeOK, PaymentsInv, [Next]_vars PROVE PaymentsInv'
  OBVIOUS
<1>1. CASE UNCHANGED <<payment, claim, recon, grants>>
  BY <1>1 DEF PaymentsInv, GrantedAreLinked, ClaimsHoldDeferred, ReconHoldsUnlinked,
              Stored, Claiming, Deferred, KnownPlain
<1>2. ASSUME NEW c \in Checkouts, NEW u \in Users, BeginClaim(c, u)
      PROVE  PaymentsInv'
  <2>1. /\ UNCHANGED <<payment, recon, grants>>
        /\ claim'[c].held = Deferred(c) /\ claim'[c].todo = Deferred(c)
        /\ claim'[c].user # None
        /\ \A d \in Checkouts : d # c => claim'[d] = claim[d]
        /\ Deferred(c) \cap recon.held = {}
    BY <1>2, BillingAssumption DEF BeginClaim, TypeOK
  <2>2. \A d \in Checkouts : Deferred(d)' = Deferred(d)
    BY <2>1 DEF Deferred, Stored, KnownPlain
  <2>3. ClaimsHoldDeferred'
    BY <2>1, <2>2 DEF PaymentsInv, ClaimsHoldDeferred, Claiming
  <2> QED
    BY <2>1, <2>3 DEF PaymentsInv, GrantedAreLinked, ReconHoldsUnlinked, Stored
<1>3. ASSUME NEW c \in Checkouts, DrainDeferred(c)
      PROVE  PaymentsInv'
  <2>1. /\ UNCHANGED <<payment, recon, grants>>
        /\ \A d \in Checkouts : /\ claim'[d].held = claim[d].held
                                /\ claim'[d].user = claim[d].user
                                /\ claim'[d].todo \subseteq claim[d].todo
    BY <1>3 DEF DrainDeferred, TypeOK, ClaimState
  <2>2. \A d \in Checkouts : Deferred(d)' = Deferred(d)
    BY <2>1 DEF Deferred, Stored, KnownPlain
  <2>3. ClaimsHoldDeferred'
    BY <2>1, <2>2 DEF PaymentsInv, ClaimsHoldDeferred, Claiming
  <2> QED
    BY <2>1, <2>3 DEF PaymentsInv, GrantedAreLinked, ReconHoldsUnlinked, Stored
<1>4. ASSUME NEW c \in Checkouts, CrashClaim(c)
      PROVE  PaymentsInv'
  <2>1. /\ UNCHANGED <<payment, recon, grants>>
        /\ claim'[c] = IdleClaim
        /\ \A d \in Checkouts : d # c => claim'[d] = claim[d]
    BY <1>4 DEF CrashClaim, TypeOK
  <2>2. \A d \in Checkouts : Deferred(d)' = Deferred(d)
    BY <2>1 DEF Deferred, Stored, KnownPlain
  <2>3. ClaimsHoldDeferred'
    BY <2>1, <2>2 DEF PaymentsInv, ClaimsHoldDeferred, Claiming, IdleClaim
  <2>4. \A d \in Checkouts : claim'[d].held \subseteq claim[d].held
    BY <2>1 DEF IdleClaim
  <2>5. ReconHoldsUnlinked'
    BY <2>1, <2>4 DEF PaymentsInv, ReconHoldsUnlinked, Stored
  <2>6. GrantedAreLinked'
    BY <2>1 DEF PaymentsInv, GrantedAreLinked, Stored
  <2> QED
    BY <2>3, <2>5, <2>6 DEF PaymentsInv
<1>5. CASE BeginReconcile
  <2>1. /\ UNCHANGED <<payment, claim, grants>>
        /\ recon'.todo = recon'.held /\ recon'.done = {}
        /\ \A e \in recon'.held :
              /\ e \in Events /\ Stored(e) /\ e.recurring
              /\ payment[e].subscription = None
              /\ \A c \in Checkouts : e \notin claim[c].held
    BY <1>5 DEF BeginReconcile, IdleRecon
  <2> QED
    BY <2>1, ZenonT(60) DEF PaymentsInv, GrantedAreLinked, ClaimsHoldDeferred, ReconHoldsUnlinked,
                Stored, Claiming, Deferred, KnownPlain
<1>6. CASE ReconcileNext
  <2>1. PICK e \in Earliest(recon.todo) : ReconcileOne(e)
    BY <1>6 DEF ReconcileNext
  <2>2. /\ UNCHANGED <<payment, claim, grants>>
        /\ recon'.held = recon.held
        /\ recon'.todo = recon.todo \ {e}
        /\ recon'.done \in {recon.done, recon.done \cup {e}}
        /\ e \in recon.todo
    BY <2>1 DEF ReconcileOne, Earliest, TypeOK, ReconState
  <2>3. ReconHoldsUnlinked'
    <3>1. /\ recon'.todo \cup recon'.done \subseteq recon'.held
          /\ recon'.todo \cap recon'.done = {}
      BY <2>2 DEF PaymentsInv, ReconHoldsUnlinked
    <3> QED
      BY <2>2, <3>1 DEF PaymentsInv, ReconHoldsUnlinked, Stored
  <2>4. GrantedAreLinked' /\ ClaimsHoldDeferred'
    BY <2>2 DEF PaymentsInv, GrantedAreLinked, ClaimsHoldDeferred, Stored, Claiming,
                Deferred, KnownPlain
  <2> QED
    BY <2>3, <2>4 DEF PaymentsInv
<1>7. CASE CrashReconcile
  <2>1. UNCHANGED <<payment, claim, grants>> /\ recon' = IdleRecon
    BY <1>7 DEF CrashReconcile
  <2> QED
    BY <2>1 DEF PaymentsInv, GrantedAreLinked, ClaimsHoldDeferred, ReconHoldsUnlinked,
                Stored, Claiming, Deferred, KnownPlain, IdleRecon
<1>8. ASSUME NEW c \in Checkouts, NEW u \in Users \cup {None},
             NEW r \in Users \cup {None}, CreateCheckout(c, u, r)
      PROVE  PaymentsInv'
  BY <1>1, <1>8 DEF CreateCheckout
<1>9. ASSUME NEW c \in Checkouts, NEW u \in Users, ClaimUnpaid(c, u)
      PROVE  PaymentsInv'
  BY <1>1, <1>9 DEF ClaimUnpaid
<1>10. ASSUME NEW c \in Checkouts, ClaimMetaPurchase(c) \/ Expire(c)
       PROVE  PaymentsInv'
  BY <1>1, <1>10 DEF ClaimMetaPurchase, Expire
<1>11. ASSUME NEW h \in Handlers, NEW e \in Events, ReceiveCallback(h, e)
       PROVE  PaymentsInv'
  BY <1>1, <1>11 DEF ReceiveCallback
<1>12. ASSUME NEW h \in Handlers, RejectDuplicate(h) \/ CrashHandler(h)
       PROVE  PaymentsInv'
  BY <1>1, <1>12 DEF RejectDuplicate, CrashHandler
<1>13. ASSUME NEW e \in Events, ProviderSends(e)
       PROVE  PaymentsInv'
  BY <1>1, <1>13 DEF ProviderSends
<1>14. CASE Tick
  BY <1>1, <1>14 DEF Tick
<1>15. CASE UNCHANGED vars
  BY <1>1, <1>15 DEF vars
<1> QED
  BY <1>2, <1>3, <1>4, <1>5, <1>6, <1>7, <1>8, <1>9, <1>10, <1>11, <1>12, <1>13,
     <1>14, <1>15, CallbackKeepsPayments, CommitClaimKeepsPayments,
     CommitReconcileKeepsPayments DEF Next

\* The invariant of the payments holds in every reachable state.
THEOREM PaymentsCorrect == Spec => []PaymentsInv
<1>1. Init => PaymentsInv
  BY DEF Init, PaymentsInv, GrantedAreLinked, ClaimsHoldDeferred, ReconHoldsUnlinked,
         Claiming, IdleClaim, IdleRecon
<1> QED
  BY <1>1, TypeCorrect, PaymentsStep, PTL DEF Spec

\* Both invariants at once, as the runs check them.
THEOREM InvCorrect == Spec => []Inv
<1>1. TypeOK /\ PaymentsInv => Inv
  BY DEF Inv
<1> QED
  BY <1>1, TypeCorrect, PaymentsCorrect, PTL

\* Idempotent payments: no interleaving of deliveries, claims, reconciliations
\* and crashes makes one approved payment move a paid-through date twice.
THEOREM AppliedOnce == Spec => []AppliedAtMostOnce
<1>1. TypeOK /\ PaymentsInv => AppliedAtMostOnce
  BY DEF TypeOK, PaymentsInv, GrantedAreLinked, AppliedAtMostOnce
<1> QED
  BY <1>1, TypeCorrect, PaymentsCorrect, PTL

=============================================================================
