---------------------------- MODULE LedgerProofs ----------------------------
(***************************************************************************)
(* Billing keeps the books: if no renewal comes before the first payment   *)
(* is recorded, every commit moves the paid-through dates as Ledger does,  *)
(* and a date is what was paid for, for every set of accounts, checkouts,  *)
(* requests and callbacks, and for every price and period.                 *)
(***************************************************************************)
EXTENDS OrdersProofs, FiniteSetTheorems

-----------------------------------------------------------------------------
(***************************************************************************)
(* Dates that payments have moved                                          *)
(***************************************************************************)
\* The payments S have moved the date d to e by time t: one period each, begun
\* when the last one ended or, if that was over, no later than now.
Moved(d, e, S, t) ==
    LET bought == BillingMonths * Cardinality(S)
    IN  /\ e >= d + bought
        /\ e <= Books!Later(d, t) + bought
        /\ S = {} => e = d

\* The payments a claim has added to its row so far, and those the
\* reconciliation has added to subscription c.
Taken(c) == {e \in claim[c].held \ claim[c].todo : e.approved /\ Settles(e)}
Applied(c) == {e \in recon.done : e.approved /\ e.ref = c}

\* When the first period of c ends.
FirstEnd(c) == checkout[c].paid_at + checkout[c].initial_months

-----------------------------------------------------------------------------
(***************************************************************************)
(* The invariant                                                           *)
(***************************************************************************)
\* Nothing is dated in the future, and a first period is one of the two.
MomentsSound ==
    /\ \A e \in Events : Stored(e) => payment[e].created_at <= now
    /\ \A h \in Handlers : handler[h].began <= now
    /\ \A c \in Checkouts :
          /\ checkout[c].paid_at <= now
          /\ checkout[c].status # "none" =>
                checkout[c].initial_months \in {BillingMonths, TrialMonths}

\* A claim has moved its row by the payments it has looked at; the row it
\* activates begins with the payment, and a row that exists has none to take.
ClaimsMove ==
    \A c \in Checkouts : Claiming(c) =>
        /\ Moved(claim[c].base.current_period_end, claim[c].work.current_period_end,
                 Taken(c), now)
        /\ ~Exists(c) => claim[c].base.current_period_end = FirstEnd(c)

\* The reconciliation has moved the rows it has locked by what it has applied.
ReconMoves ==
    \A c \in recon.locked :
        Moved(sub[c].current_period_end, recon.work[c].current_period_end,
              Applied(c), now)

\* A paid-through date has been moved by the payments that were granted to it.
SubscriptionsMove ==
    \A c \in Checkouts : Exists(c) =>
        Moved(FirstEnd(c), sub[c].current_period_end, GrantedTo(c), now)

Moves == MomentsSound /\ ClaimsMove /\ ReconMoves /\ SubscriptionsMove

-----------------------------------------------------------------------------
(***************************************************************************)
(* How dates add up                                                        *)
(***************************************************************************)
LEMMA MonthsType == BillingMonths \in Nat /\ TrialMonths \in Nat
BY BillingAssumption

\* One more payment buys one more period.
LEMMA BoughtMore ==
    ASSUME NEW S, IsFiniteSet(S), NEW x, x \notin S
    PROVE  /\ IsFiniteSet(S \cup {x}) /\ BillingMonths * Cardinality(S) \in Nat
           /\ BillingMonths * Cardinality(S \cup {x}) =
                 BillingMonths * Cardinality(S) + BillingMonths
<1>1. /\ Cardinality(S \cup {x}) = Cardinality(S) + 1
      /\ IsFiniteSet(S \cup {x}) /\ Cardinality(S) \in Nat
  BY FS_AddElement, FS_CardinalityType
<1>2. ASSUME NEW n \in Nat, NEW m \in Nat
      PROVE  m * (n + 1) = m * n + m /\ m * n \in Nat
  OBVIOUS
<1> QED
  BY <1>1, <1>2, MonthsType

\* Payments that have nothing in common buy what they buy one by one.
LEMMA BoughtTogether ==
    ASSUME NEW S, IsFiniteSet(S), NEW T, IsFiniteSet(T), S \cap T = {}
    PROVE  /\ IsFiniteSet(S \cup T)
           /\ BillingMonths * Cardinality(S) \in Nat
           /\ BillingMonths * Cardinality(T) \in Nat
           /\ BillingMonths * Cardinality(S \cup T) =
                 BillingMonths * Cardinality(S) + BillingMonths * Cardinality(T)
<1>1. /\ Cardinality(S \cup T) = Cardinality(S) + Cardinality(T)
      /\ IsFiniteSet(S \cup T) /\ Cardinality(S) \in Nat /\ Cardinality(T) \in Nat
  <2>1. /\ IsFiniteSet(S \cup T) /\ Cardinality(S) \in Nat /\ Cardinality(T) \in Nat
        /\ Cardinality(S \cup T) = Cardinality(S) + Cardinality(T) - Cardinality(S \cap T)
    BY FS_Union, FS_CardinalityType
  <2>2. Cardinality(S \cap T) = 0
    BY FS_EmptySet
  <2> QED
    BY <2>1, <2>2
<1>2. ASSUME NEW k \in Nat, NEW n \in Nat, NEW m \in Nat
      PROVE  m * (k + n) = m * k + m * n /\ m * k \in Nat /\ m * n \in Nat
  OBVIOUS
<1> QED
  BY <1>1, <1>2, MonthsType

\* A date that stays is moved by no credit.
LEMMA NotMoved ==
    ASSUME NEW d \in Nat, NEW t \in Nat
    PROVE  Moved(d, d, {}, t)
<1>1. BillingMonths * Cardinality({}) = 0
  BY FS_EmptySet, MonthsType
<1> QED
  BY <1>1 DEF Moved, Books!Later

\* What has been moved by now has been moved by any later time.
LEMMA MovedLater ==
    ASSUME NEW d \in Nat, NEW e \in Nat, NEW S, IsFiniteSet(S),
           NEW t \in Nat, NEW u \in Nat, t <= u, Moved(d, e, S, t)
    PROVE  Moved(d, e, S, u)
<1>1. BillingMonths * Cardinality(S) \in Nat
  BY FS_CardinalityType, MonthsType
<1> QED
  BY <1>1 DEF Moved, Books!Later

\* A period follows the last one, or begins at a moment that is not later than now.
LEMMA MovedByOne ==
    ASSUME NEW d \in Nat, NEW e \in Nat, NEW S, IsFiniteSet(S), NEW x, x \notin S,
           NEW t \in Nat, NEW f \in Nat, f <= t, Moved(d, e, S, t),
           NEW g, g = (IF e < f THEN f ELSE e) + BillingMonths
    PROVE  Moved(d, g, S \cup {x}, t)
<1>1. /\ BillingMonths * Cardinality(S) \in Nat /\ BillingMonths \in Nat
      /\ BillingMonths * Cardinality(S \cup {x}) =
            BillingMonths * Cardinality(S) + BillingMonths
  BY BoughtMore, MonthsType
<1>2. /\ e >= d + BillingMonths * Cardinality(S)
      /\ e <= Books!Later(d, t) + BillingMonths * Cardinality(S)
  BY DEF Moved
<1>3. /\ g >= d + BillingMonths * Cardinality(S \cup {x})
      /\ g <= Books!Later(d, t) + BillingMonths * Cardinality(S \cup {x})
  BY <1>1, <1>2 DEF Books!Later
<1> QED
  BY <1>3 DEF Moved

\* Two moves are a move.
LEMMA MovedTwice ==
    ASSUME NEW c \in Nat, NEW d \in Nat, NEW e \in Nat, NEW t \in Nat,
           NEW S, IsFiniteSet(S), NEW T, IsFiniteSet(T), S \cap T = {},
           Moved(c, d, S, t), Moved(d, e, T, t)
    PROVE  Moved(c, e, S \cup T, t)
<1>1. /\ BillingMonths * Cardinality(S) \in Nat
      /\ BillingMonths * Cardinality(T) \in Nat
      /\ BillingMonths * Cardinality(S \cup T) =
            BillingMonths * Cardinality(S) + BillingMonths * Cardinality(T)
  BY BoughtTogether
<1>2. /\ d >= c + BillingMonths * Cardinality(S)
      /\ d <= Books!Later(c, t) + BillingMonths * Cardinality(S)
      /\ e >= d + BillingMonths * Cardinality(T)
      /\ e <= Books!Later(d, t) + BillingMonths * Cardinality(T)
      /\ S = {} => d = c
      /\ T = {} => e = d
  BY DEF Moved
<1>3. /\ e >= c + BillingMonths * Cardinality(S \cup T)
      /\ e <= Books!Later(c, t) + BillingMonths * Cardinality(S \cup T)
  BY <1>1, <1>2 DEF Books!Later
<1>4. S \cup T = {} => e = c
  BY <1>2
<1> QED
  BY <1>3, <1>4 DEF Moved

-----------------------------------------------------------------------------
(***************************************************************************)
(* Only what the provider has sent counts                                  *)
(***************************************************************************)
FiniteSent == IsFiniteSet(sent)

\* Finitely many payments have been sent.
LEMMA SentFinite == Spec => []FiniteSent
<1>1. Init => FiniteSent
  BY FS_EmptySet DEF Init, FiniteSent
<1>2. ASSUME FiniteSent, [Next]_vars PROVE FiniteSent'
  <2>1. ASSUME NEW e \in Events, ProviderSends(e) PROVE FiniteSent'
    BY <1>2, <2>1, FS_AddElement DEF ProviderSends, FiniteSent
  <2> QED
    BY <1>2, <2>1, SentSteps DEF FiniteSent
<1> QED
  BY <1>1, <1>2, PTL DEF Spec

\* Whatever is held, applied or granted has been sent.
LEMMA FiniteSets ==
    ASSUME TypeOK, PaymentsInv, Orders, FiniteSent, NEW c \in Checkouts
    PROVE  IsFiniteSet(Taken(c)) /\ IsFiniteSet(Applied(c)) /\ IsFiniteSet(GrantedTo(c))
<1>1. \A e \in Events : Stored(e) => e \in sent
  BY DEF Orders, StoredSound
<1>2. Taken(c) \in SUBSET sent
  BY <1>1 DEF Taken, PaymentsInv, ClaimsHoldDeferred, Deferred
<1>3. Applied(c) \in SUBSET sent
  BY <1>1 DEF Applied, PaymentsInv, ReconHoldsUnlinked, TypeOK, ReconState
<1>4. GrantedTo(c) \in SUBSET sent
  BY <1>1 DEF GrantedTo, PaymentsInv, GrantedAreLinked
<1> QED
  BY <1>2, <1>3, <1>4, FS_Subset DEF FiniteSent

-----------------------------------------------------------------------------
(***************************************************************************)
(* The clock and the first periods                                         *)
(***************************************************************************)
\* A first period is fixed when the checkout is created, and begins when it is paid.
FirstPeriodsStay ==
    \A c \in Checkouts :
        /\ checkout'[c].paid_at \in {checkout[c].paid_at, now, 0}
        /\ checkout[c].status \in {"paid", "claimed"} =>
              checkout'[c].paid_at = checkout[c].paid_at
        /\ checkout[c].status # "none" =>
              checkout'[c].initial_months = checkout[c].initial_months
        /\ checkout[c].status = "none" /\ checkout'[c].status # "none" =>
              checkout'[c].initial_months \in {BillingMonths, TrialMonths}

\* The steps that commit no payment.
LEMMA OtherStepsLeaveDates ==
    ASSUME TypeOK, [Next]_vars,
           ~ \E h \in Handlers : CommitCallback(h),
           ~ \E c \in Checkouts : CommitClaim(c),
           ~ CommitReconcile
    PROVE  /\ now' >= now /\ FirstPeriodsStay
           /\ \A c \in Checkouts :
                 sub'[c].current_period_end = sub[c].current_period_end
<1>1. ASSUME NEW k \in Checkouts, NEW u \in Users \cup {None},
             NEW r \in Users \cup {None}, CreateCheckout(k, u, r)
      PROVE  FirstPeriodsStay /\ UNCHANGED <<now, sub>>
  <2>1. /\ checkout[k].status = "none"
        /\ checkout'[k].paid_at = 0
        /\ checkout'[k].initial_months \in {BillingMonths, TrialMonths}
        /\ \A c \in Checkouts : c # k => checkout'[c] = checkout[c]
        /\ UNCHANGED <<now, sub>>
    BY <1>1 DEF CreateCheckout, TypeOK
  <2> QED
    BY <2>1 DEF FirstPeriodsStay
<1>2. ASSUME NEW k \in Checkouts, NEW u \in Users, ClaimUnpaid(k, u)
      PROVE  FirstPeriodsStay /\ UNCHANGED <<now, sub>>
  <2>1. /\ UNCHANGED <<now, sub>>
        /\ checkout[k] \in CheckoutRow
        /\ checkout'[k] = [checkout[k] EXCEPT !.owner = u]
        /\ \A c \in Checkouts : c # k => checkout'[c] = checkout[c]
    BY <1>2 DEF ClaimUnpaid, TypeOK
  <2> QED
    BY <2>1 DEF FirstPeriodsStay, CheckoutRow
<1>3. ASSUME NEW k \in Checkouts, Expire(k)
      PROVE  /\ UNCHANGED <<now, checkout>>
             /\ \A c \in Checkouts :
                   sub'[c].current_period_end = sub[c].current_period_end
  <2>1. /\ sub[k] \in SubscriptionRow
        /\ sub' = [sub EXCEPT ![k] = ExpireSubscription(@, TRUE)]
        /\ UNCHANGED <<now, checkout>>
    BY <1>3 DEF Expire, TypeOK
  <2>2. ExpireSubscription(sub[k], TRUE).current_period_end = sub[k].current_period_end
    BY <2>1 DEF ExpireSubscription, SubscriptionRow
  <2> QED
    BY <2>1, <2>2 DEF TypeOK
<1>4. ASSUME NEW k \in Checkouts,
             \/ \E u \in Users : BeginClaim(k, u)
             \/ DrainDeferred(k) \/ ClaimMetaPurchase(k) \/ CrashClaim(k)
      PROVE  UNCHANGED <<now, checkout, sub>>
  BY <1>4 DEF BeginClaim, DrainDeferred, ClaimMetaPurchase, CrashClaim
<1>5. ASSUME \/ \E h \in Handlers, d \in Events : ReceiveCallback(h, d)
             \/ \E h \in Handlers : RejectDuplicate(h) \/ CrashHandler(h)
             \/ BeginReconcile \/ ReconcileNext \/ CrashReconcile
             \/ \E d \in Events : ProviderSends(d)
             \/ UNCHANGED vars
      PROVE  UNCHANGED <<now, checkout, sub>>
  BY <1>5 DEF ReceiveCallback, RejectDuplicate, CrashHandler, BeginReconcile,
     ReconcileNext, ReconcileOne, CrashReconcile, ProviderSends, vars
<1>6. ASSUME Tick PROVE now' >= now /\ UNCHANGED <<checkout, sub>>
  BY <1>6 DEF Tick, TypeOK
<1>7. ASSUME UNCHANGED checkout PROVE FirstPeriodsStay
  BY <1>7 DEF FirstPeriodsStay
<1>8. now \in Nat
  BY DEF TypeOK
<1> QED
  BY <1>1, <1>2, <1>3, <1>4, <1>5, <1>6, <1>7, <1>8 DEF Next

\* A claim gives a checkout its owner and its status, and nothing else.
LEMMA ClaimLeavesFirstPeriods ==
    ASSUME TypeOK, Orders, NEW c \in Checkouts, CommitClaim(c)
    PROVE  FirstPeriodsStay /\ UNCHANGED now
<1>1. /\ checkout[c] \in CheckoutRow /\ UNCHANGED now
      /\ checkout'[c] = [checkout[c] EXCEPT !.owner = claim[c].user, !.status = "claimed"]
      /\ \A d \in Checkouts : d # c => checkout'[d] = checkout[d]
  BY DEF CommitClaim, TypeOK
<1>2. checkout[c].status \in {"paid", "claimed"}
  BY DEF CommitClaim, Orders, ClaimsSound
<1> QED
  BY <1>1, <1>2 DEF FirstPeriodsStay, CheckoutRow

\* A callback pays at most the checkout it names, now.
LEMMA CallbackLeavesFirstPeriods ==
    ASSUME TypeOK, NEW h \in Handlers, NEW e \in Events, NEW s \in Checkouts \cup {None},
           \/ DeclinedCallback(h, e, s)  \/ MismatchedCallback(h, e, s)
           \/ DeferredCallback(h, e, s)  \/ AbsorbedCallback(h, e, s)
           \/ PaidCallback(h, e, s)      \/ ActivatingCallback(h, e, s)
           \/ RenewalCallback(h, e, s)   \/ UnmatchedCallback(h, e, s)
    PROVE  /\ FirstPeriodsStay /\ UNCHANGED <<now, claim, recon>>
           /\ payment' = [payment EXCEPT ![e] = payment'[e]]
           /\ payment'[e].created_at = handler[h].began
<1>1. PICK l \in Checkouts \cup {None}, f \in BOOLEAN : StorePayment(h, e, l, s, f)
  BY DEF DeclinedCallback, MismatchedCallback, DeferredCallback, AbsorbedCallback,
         PaidCallback, ActivatingCallback, RenewalCallback, UnmatchedCallback,
         FirstPayment, KnownPlain
<1>2. ASSUME checkout' = checkout PROVE FirstPeriodsStay
  BY <1>2 DEF FirstPeriodsStay
<1>3. ASSUME PaidCallback(h, e, s) \/ ActivatingCallback(h, e, s) PROVE FirstPeriodsStay
  <2>1. /\ e.ref \in Checkouts /\ checkout[e.ref].status = "created"
        /\ \/ checkout' = [checkout EXCEPT ![e.ref] =
                 [@ EXCEPT !.status = "paid", !.paid_at = now]]
           \/ checkout' = [checkout EXCEPT ![e.ref] =
                 [@ EXCEPT !.status = "claimed", !.paid_at = now]]
    BY <1>3, Zenon DEF PaidCallback, ActivatingCallback, FirstPayment, KnownPlain
  <2>2. /\ checkout[e.ref] \in CheckoutRow
        /\ \/ checkout'[e.ref] =
                 [checkout[e.ref] EXCEPT !.status = "paid", !.paid_at = now]
           \/ checkout'[e.ref] =
                 [checkout[e.ref] EXCEPT !.status = "claimed", !.paid_at = now]
        /\ \A d \in Checkouts : d # e.ref => checkout'[d] = checkout[d]
    BY <2>1 DEF TypeOK
  <2> QED
    BY <2>1, <2>2 DEF FirstPeriodsStay, CheckoutRow
<1>4. FirstPeriodsStay
  BY <1>2, <1>3 DEF DeclinedCallback, MismatchedCallback, DeferredCallback,
     AbsorbedCallback, RenewalCallback, UnmatchedCallback
<1> QED
  BY <1>1, <1>4 DEF StorePayment, TypeOK

\* Nothing is ever dated in the future.
LEMMA MomentsStep ==
    ASSUME TypeOK, PaymentsInv, Orders, MomentsSound, [Next]_vars
    PROVE  MomentsSound' /\ FirstPeriodsStay /\ now' >= now
<1>1. /\ FirstPeriodsStay /\ now' >= now
      /\ \A e \in Events : Stored(e)' =>
            \/ Stored(e) /\ payment'[e].created_at = payment[e].created_at
            \/ \E h \in Handlers : payment'[e].created_at = handler[h].began
  <2>1. CASE \E h \in Handlers : CommitCallback(h)
    <3>1. PICK h \in Handlers, d \in Events, s \in Checkouts \cup {None} :
              \/ DeclinedCallback(h, d, s)  \/ MismatchedCallback(h, d, s)
              \/ DeferredCallback(h, d, s)  \/ AbsorbedCallback(h, d, s)
              \/ PaidCallback(h, d, s)      \/ ActivatingCallback(h, d, s)
              \/ RenewalCallback(h, d, s)   \/ UnmatchedCallback(h, d, s)
      BY <2>1 DEF CommitCallback
    <3>2. /\ FirstPeriodsStay /\ now' = now
          /\ payment' = [payment EXCEPT ![d] = payment'[d]]
          /\ payment'[d].created_at = handler[h].began
      BY <3>1, CallbackLeavesFirstPeriods
    <3>3. \A e \in Events : e # d => payment'[e] = payment[e]
      BY <3>2 DEF TypeOK
    <3> QED
      BY <3>2, <3>3 DEF Stored, TypeOK
  <2>2. CASE \E c \in Checkouts : CommitClaim(c)
    <3>1. PICK c \in Checkouts : CommitClaim(c)
      BY <2>2
    <3>2. FirstPeriodsStay /\ now' = now
      BY <3>1, ClaimLeavesFirstPeriods
    <3>3. ASSUME NEW e \in Events
          PROVE  /\ Stored(e)' => Stored(e)
                 /\ payment'[e].created_at = payment[e].created_at
      <4>1. /\ payment[e] \in PaymentRow
            /\ \/ payment'[e] = payment[e]
               \/ payment'[e] = [payment[e] EXCEPT !.subscription = c]
        BY <3>1 DEF CommitClaim, TypeOK
      <4> QED
        BY <4>1 DEF Stored, PaymentRow
    <3> QED
      BY <3>2, <3>3 DEF TypeOK
  <2>3. CASE CommitReconcile
    <3>1. UNCHANGED <<checkout, now>>
      BY <2>3 DEF CommitReconcile
    <3>2. ASSUME NEW e \in Events
          PROVE  /\ Stored(e)' => Stored(e)
                 /\ payment'[e].created_at = payment[e].created_at
      <4>1. /\ payment[e] \in PaymentRow
            /\ \/ payment'[e] = payment[e]
               \/ payment'[e] = [payment[e] EXCEPT !.subscription = e.ref,
                                                   !.failed       = @ /\ ~e.approved]
        BY <2>3, Zenon DEF CommitReconcile, TypeOK
      <4> QED
        BY <4>1 DEF Stored, PaymentRow
    <3> QED
      BY <3>1, <3>2 DEF FirstPeriodsStay, TypeOK
  <2> QED
    BY <2>1, <2>2, <2>3, OtherStepsLeaveDates, OtherStepsLeavePayments DEF Stored
<1>2. \A h \in Handlers : handler'[h].began \in {handler[h].began, now, 0}
  <2>1. ASSUME NEW g \in Handlers, CommitCallback(g)
        PROVE  handler' = [handler EXCEPT ![g] = IdleHandler]
    BY <2>1 DEF CommitCallback, DeclinedCallback, MismatchedCallback, DeferredCallback,
       AbsorbedCallback, PaidCallback, ActivatingCallback, RenewalCallback,
       UnmatchedCallback, StorePayment
  <2>2. ASSUME NEW g \in Handlers, RejectDuplicate(g) \/ CrashHandler(g)
        PROVE  handler' = [handler EXCEPT ![g] = IdleHandler]
    BY <2>2 DEF RejectDuplicate, CrashHandler
  <2>3. ASSUME NEW g \in Handlers, handler' = [handler EXCEPT ![g] = IdleHandler]
        PROVE  \A h \in Handlers : handler'[h].began \in {handler[h].began, now, 0}
    BY <2>3 DEF TypeOK, IdleHandler
  <2>4. ASSUME NEW g \in Handlers, NEW e \in Events, ReceiveCallback(g, e)
        PROVE  \A h \in Handlers : handler'[h].began \in {handler[h].began, now, 0}
    BY <2>4 DEF TypeOK, ReceiveCallback
  <2>5. ASSUME NEW k \in Checkouts,
               \/ \E u \in Users \cup {None}, r \in Users \cup {None} : CreateCheckout(k, u, r)
               \/ \E u \in Users : ClaimUnpaid(k, u) \/ BeginClaim(k, u)
               \/ DrainDeferred(k) \/ CommitClaim(k) \/ ClaimMetaPurchase(k)
               \/ Expire(k) \/ CrashClaim(k)
        PROVE  UNCHANGED handler
    BY <2>5 DEF CreateCheckout, ClaimUnpaid, BeginClaim, DrainDeferred, CommitClaim,
       ClaimMetaPurchase, Expire, CrashClaim
  <2>6. ASSUME \/ BeginReconcile \/ ReconcileNext \/ CommitReconcile \/ CrashReconcile
               \/ \E d \in Events : ProviderSends(d)
               \/ Tick \/ UNCHANGED vars
        PROVE  UNCHANGED handler
    BY <2>6 DEF BeginReconcile, ReconcileNext, ReconcileOne, CommitReconcile,
       CrashReconcile, ProviderSends, Tick, vars
  <2> QED
    BY <2>1, <2>2, <2>3, <2>4, <2>5, <2>6 DEF Next
<1>3. now \in Nat /\ now' \in Nat
  BY TypeStep DEF TypeOK
<1>4. \A e \in Events : Stored(e)' => payment'[e].created_at <= now
  BY <1>1 DEF MomentsSound
<1>5. \A h \in Handlers : handler'[h].began <= now
  BY <1>2, <1>3 DEF MomentsSound
<1>6. \A c \in Checkouts :
         /\ checkout'[c].paid_at <= now
         /\ checkout'[c].status # "none" =>
               checkout'[c].initial_months \in {BillingMonths, TrialMonths}
  BY <1>1, <1>3 DEF MomentsSound, FirstPeriodsStay
<1>7. TypeOK'
  BY TypeStep
<1>8. ASSUME NEW t \in Nat, t <= now PROVE t <= now'
  BY <1>1, <1>3, <1>8
<1>9. \A e \in Events : Stored(e)' => payment'[e].created_at <= now'
  BY <1>4, <1>7, <1>8 DEF TypeOK, PaymentRow
<1>10. \A h \in Handlers : handler'[h].began <= now'
  BY <1>5, <1>7, <1>8 DEF TypeOK, HandlerState
<1>11. \A c \in Checkouts : checkout'[c].paid_at <= now'
  BY <1>6, <1>7, <1>8 DEF TypeOK, CheckoutRow
<1> QED
  BY <1>1, <1>6, <1>9, <1>10, <1>11 DEF MomentsSound

-----------------------------------------------------------------------------
(***************************************************************************)
(* What a commit does to a subscription                                    *)
(***************************************************************************)
\* The payments a step grants to c.
Credits(c) ==
    {e \in Events : grants[e] = 0 /\ grants'[e] > 0 /\ payment'[e].subscription = c}

\* The step opens c with its first period, or moves its date; what it grants to c
\* accounts for the rest.
Settled(c) ==
    \/ /\ Exists(c)' <=> Exists(c)
       /\ Credits(c) # {} => Exists(c)
       /\ Moved(sub[c].current_period_end, sub'[c].current_period_end, Credits(c), now)
    \/ /\ ~Exists(c) /\ Exists(c)'
       /\ Moved(FirstEnd(c)', sub'[c].current_period_end, Credits(c), now)

\* What has been granted stays where it was granted.
CreditsStay ==
    \A e \in Events : grants[e] > 0 =>
        grants'[e] > 0 /\ payment'[e].subscription = payment[e].subscription

\* The dates are natural numbers.
LEMMA PeriodTypes ==
    ASSUME TypeOK, NEW c \in Checkouts
    PROVE  /\ now \in Nat /\ sub[c] \in SubscriptionRow
           /\ sub[c].current_period_end \in Nat
           /\ checkout[c] \in CheckoutRow /\ FirstEnd(c) \in Nat
           /\ claim[c] \in ClaimState
           /\ claim[c].base.current_period_end \in Nat
           /\ claim[c].work.current_period_end \in Nat
           /\ recon.work[c] \in SubscriptionRow
           /\ recon.work[c].current_period_end \in Nat
  BY DEF TypeOK, SubscriptionRow, CheckoutRow, ClaimState, ReconState, FirstEnd

\* An approved payment moves the end of the period by the months it pays for.
LEMMA ExtendedPeriod ==
    ASSUME NEW s \in SubscriptionRow, NEW m, NEW t
    PROVE  ExtendSubscription(s, m, t).current_period_end =
              (IF s.current_period_end < t THEN t ELSE s.current_period_end) + m
  BY DEF ExtendSubscription, SubscriptionRow

\* A refused one leaves it.
LEMMA FailedPeriod ==
    ASSUME NEW s \in SubscriptionRow
    PROVE  ApplyFailedPayment(s).current_period_end = s.current_period_end
  BY DEF ApplyFailedPayment, SubscriptionRow

\* A step that grants nothing to c and leaves its date alone.
LEMMA NothingSettled ==
    ASSUME TypeOK, NEW c \in Checkouts, Credits(c) = {}, Exists(c)' <=> Exists(c),
           sub'[c].current_period_end = sub[c].current_period_end
    PROVE  Settled(c)
  BY PeriodTypes, NotMoved DEF Settled

\* No other step grants anything or moves a date.
LEMMA OtherStepsSettle ==
    ASSUME TypeOK, PaymentsInv, Orders, [Next]_vars,
           ~ \E h \in Handlers : CommitCallback(h),
           ~ \E c \in Checkouts : CommitClaim(c),
           ~ CommitReconcile
    PROVE  CreditsStay /\ \A c \in Checkouts : Settled(c)
<1>1. /\ UNCHANGED <<payment, grants>>
      /\ \A c \in Checkouts : checkout'[c].status = "claimed" =>
            checkout[c].status = "claimed"
      /\ \A c \in Checkouts : sub'[c].current_period_end = sub[c].current_period_end
  BY OtherStepsLeavePayments, OtherStepsLeaveDates
<1>2. Orders' /\ CheckoutsStay
  BY OrdersStep
<1>3. \A c \in Checkouts : Exists(c)' <=> Exists(c)
  BY <1>1, <1>2 DEF Orders, CheckoutsSound, CheckoutsStay
<1>4. \A c \in Checkouts : Credits(c) = {}
  BY <1>1 DEF Credits, TypeOK
<1>5. \A c \in Checkouts : Settled(c)
  BY <1>1, <1>3, <1>4, NothingSettled
<1> QED
  BY <1>1, <1>5 DEF CreditsStay

\* A callback opens the subscription it activates, or moves the one it extends.
LEMMA CallbackSettles ==
    ASSUME TypeOK, PaymentsInv, Orders, Orders',
           NEW h \in Handlers, NEW e \in Events, NEW s \in Checkouts \cup {None},
           \/ DeclinedCallback(h, e, s)  \/ MismatchedCallback(h, e, s)
           \/ DeferredCallback(h, e, s)  \/ AbsorbedCallback(h, e, s)
           \/ PaidCallback(h, e, s)      \/ ActivatingCallback(h, e, s)
           \/ RenewalCallback(h, e, s)   \/ UnmatchedCallback(h, e, s)
    PROVE  CreditsStay /\ \A c \in Checkouts : Settled(c)
<1>1. Commits(h, e, s)
  BY DEF DeclinedCallback, MismatchedCallback, DeferredCallback, AbsorbedCallback,
         PaidCallback, ActivatingCallback, RenewalCallback, UnmatchedCallback
<1>2. /\ ~Stored(e) /\ grants[e] = 0
      /\ s # None => s \in Checkouts /\ Exists(s)
  BY <1>1, CommitFacts
<1>3. \A d \in Events : d # e => payment'[d] = payment[d]
  BY CallbackLeavesFirstPeriods DEF TypeOK
<1>4. \A d \in Events : d # e => grants'[d] = grants[d]
  BY DEF DeclinedCallback, MismatchedCallback, DeferredCallback, AbsorbedCallback,
         PaidCallback, ActivatingCallback, RenewalCallback, UnmatchedCallback, TypeOK
<1>5. CreditsStay
  BY <1>2, <1>3, <1>4 DEF CreditsStay
<1>6. \A c \in Checkouts : checkout'[c] = checkout[c] => (Exists(c)' <=> Exists(c))
  BY DEF Orders, CheckoutsSound
<1>7. CASE ActivatingCallback(h, e, s)
  <2>1. /\ e.ref \in Checkouts /\ checkout[e.ref].status = "created"
        /\ checkout' = [checkout EXCEPT ![e.ref] =
              [@ EXCEPT !.status = "claimed", !.paid_at = now]]
        /\ sub' = [sub EXCEPT ![e.ref] = ActivatedRow(e.ref, now)]
        /\ grants' = grants
    BY <1>7 DEF ActivatingCallback, FirstPayment, KnownPlain
  <2>2. \A c \in Checkouts : Credits(c) = {}
    BY <2>1 DEF Credits, TypeOK
  <2>3. checkout'[e.ref] = [checkout[e.ref] EXCEPT !.status = "claimed", !.paid_at = now]
    BY <2>1 DEF TypeOK
  <2>4. /\ checkout'[e.ref].status = "claimed"
        /\ checkout'[e.ref].paid_at = now
        /\ checkout'[e.ref].initial_months = checkout[e.ref].initial_months
    BY <2>1, <2>3, PeriodTypes, ZenonT(60) DEF CheckoutRow
  <2>5. ~Exists(e.ref) /\ Exists(e.ref)'
    BY <2>1, <2>4 DEF Orders, CheckoutsSound
  <2>6. sub'[e.ref].current_period_end = FirstEnd(e.ref)'
    BY <2>1, <2>4 DEF TypeOK, ActivatedRow, NewSubscription, FirstEnd
  <2>7. FirstEnd(e.ref)' \in Nat /\ now \in Nat
    BY <2>1, <2>4, PeriodTypes DEF FirstEnd, CheckoutRow
  <2>8. Moved(FirstEnd(e.ref)', sub'[e.ref].current_period_end, {}, now)
    BY <2>6, <2>7, NotMoved
  <2>9. Settled(e.ref)
    BY <2>1, <2>2, <2>5, <2>8 DEF Settled
  <2>10. ASSUME NEW c \in Checkouts, c # e.ref PROVE Settled(c)
    <3>1. checkout'[c] = checkout[c] /\ sub'[c] = sub[c]
      BY <2>1, <2>10 DEF TypeOK
    <3> QED
      BY <1>6, <2>2, <3>1, NothingSettled
  <2> QED
    BY <1>5, <2>9, <2>10
<1>8. CASE RenewalCallback(h, e, s)
  <2>1. /\ s \in Checkouts /\ Exists(s)
        /\ sub' = [sub EXCEPT ![s] = ExtendSubscription(@, BillingMonths, now)]
        /\ grants' = [grants EXCEPT ![e] = @ + 1]
        /\ checkout' = checkout
        /\ StorePayment(h, e, s, s, FALSE)
    BY <1>2, <1>8 DEF RenewalCallback
  <2>2. grants'[e] = 1 /\ payment'[e].subscription = s
    BY <1>2, <2>1 DEF StorePayment, TypeOK
  <2>3. \A c \in Checkouts : Credits(c) = IF c = s THEN {} \cup {e} ELSE {}
    BY <1>4, <2>2, <1>2 DEF Credits
  <2>4. sub'[s].current_period_end =
           (IF sub[s].current_period_end < now THEN now ELSE sub[s].current_period_end)
               + BillingMonths
    BY <2>1, PeriodTypes, ExtendedPeriod DEF TypeOK
  <2>5. Moved(sub[s].current_period_end, sub'[s].current_period_end, {} \cup {e}, now)
    <3>1. Moved(sub[s].current_period_end, sub[s].current_period_end, {}, now)
      BY <2>1, PeriodTypes, NotMoved
    <3>2. now <= now /\ e \notin {} /\ IsFiniteSet({})
      BY <2>1, PeriodTypes, FS_EmptySet
    <3> QED
      BY <2>1, <2>4, <3>1, <3>2, PeriodTypes, MovedByOne
  <2>6. Settled(s)
    BY <1>6, <2>1, <2>3, <2>5 DEF Settled
  <2>7. ASSUME NEW c \in Checkouts, c # s PROVE Settled(c)
    <3>1. checkout'[c] = checkout[c] /\ sub'[c] = sub[c]
      BY <2>1, <2>7 DEF TypeOK
    <3> QED
      BY <1>6, <2>3, <2>7, <3>1, NothingSettled
  <2> QED
    BY <1>5, <2>6, <2>7
<1>9. CASE ~ActivatingCallback(h, e, s) /\ ~RenewalCallback(h, e, s)
  <2>1. grants' = grants
    BY <1>9 DEF DeclinedCallback, MismatchedCallback, DeferredCallback, AbsorbedCallback,
       PaidCallback, UnmatchedCallback
  <2>2. \A c \in Checkouts : Credits(c) = {}
    BY <2>1 DEF Credits, TypeOK
  <2>3. \A c \in Checkouts : sub'[c].current_period_end = sub[c].current_period_end
    <3>1. \/ sub' = sub
          \/ s # None /\ sub' = [sub EXCEPT ![s] = ApplyFailedPayment(@)]
      BY <1>9, Zenon DEF DeclinedCallback, MismatchedCallback, DeferredCallback,
         AbsorbedCallback, PaidCallback, UnmatchedCallback
    <3> QED
      BY <1>2, <3>1, PeriodTypes, FailedPeriod DEF TypeOK
  <2>4. \A c \in Checkouts : Exists(c)' <=> Exists(c)
    <3>1. CASE PaidCallback(h, e, s)
      <4>1. /\ e.ref \in Checkouts /\ checkout[e.ref].status = "created"
            /\ checkout' = [checkout EXCEPT ![e.ref] =
                  [@ EXCEPT !.status = "paid", !.paid_at = now]]
        BY <3>1 DEF PaidCallback, FirstPayment, KnownPlain
      <4>2. checkout'[e.ref] = [checkout[e.ref] EXCEPT !.status = "paid", !.paid_at = now]
        BY <4>1 DEF TypeOK
      <4>3. checkout'[e.ref].status = "paid"
        BY <4>1, <4>2, PeriodTypes DEF CheckoutRow
      <4>4. \A c \in Checkouts : c # e.ref => checkout'[c] = checkout[c]
        BY <4>1 DEF TypeOK
      <4> QED
        BY <1>6, <4>1, <4>3, <4>4 DEF Orders, CheckoutsSound
    <3>2. CASE checkout' = checkout
      BY <1>6, <3>2
    <3> QED
      BY <1>9, <3>1, <3>2 DEF DeclinedCallback, MismatchedCallback, DeferredCallback,
         AbsorbedCallback, UnmatchedCallback
  <2> QED
    BY <1>5, <2>2, <2>3, <2>4, NothingSettled
<1> QED
  BY <1>7, <1>8, <1>9

\* What is written back over a row keeps its date unless the claim has moved it.
LEMMA FlushedPeriod ==
    ASSUME NEW base \in SubscriptionRow, NEW work \in SubscriptionRow,
           NEW current \in SubscriptionRow,
           work.current_period_end = base.current_period_end
    PROVE  Flush(base, work, current).current_period_end = current.current_period_end
  BY DEF Flush, SubscriptionRow

\* A subscription that exists has no renewals left for a claim to apply.
LEMMA NothingToTake ==
    ASSUME TypeOK, PaymentsInv, Orders, DeferredAreApplied, NEW c \in Checkouts,
           Claiming(c), Exists(c)
    PROVE  Taken(c) = {}
<1> SUFFICES ASSUME NEW e \in Taken(c) PROVE FALSE
  OBVIOUS
<1>1. /\ e \in Events /\ Stored(e) /\ payment[e].checkout = c
      /\ payment[e].subscription = None /\ ~KnownPlain(e) /\ e.approved
      /\ ~payment[e].failed
  <2>1. e \in claim[c].held /\ e.approved /\ Settles(e)
    BY DEF Taken
  <2>2. e \in Deferred(c)
    BY <2>1 DEF PaymentsInv, ClaimsHoldDeferred
  <2> QED
    BY <2>1, <2>2 DEF Deferred, Settles
<1>2. e.ref = c /\ e.recurring
  BY <1>1, BillingAssumption DEF Orders, StoredSound, KnownPlain
<1>3. checkout[c].status = "claimed"
  BY DEF Orders, CheckoutsSound
<1>4. grants[e] = 1
  BY <1>1, <1>2, <1>3 DEF DeferredAreApplied
<1> QED
  BY <1>1, <1>4 DEF PaymentsInv, GrantedAreLinked

\* A claim opens its subscription with the renewals that have waited for it.
LEMMA ClaimSettles ==
    ASSUME TypeOK, PaymentsInv, Orders, Orders', ClaimsMove, DeferredAreApplied,
           NEW c \in Checkouts, CommitClaim(c)
    PROVE  CreditsStay /\ \A d \in Checkouts : Settled(d)
<1>1. /\ Claiming(c) /\ claim[c].todo = {} /\ claim[c].held = Deferred(c)
      /\ checkout[c].status \in {"paid", "claimed"}
  BY DEF CommitClaim, PaymentsInv, ClaimsHoldDeferred, Orders, ClaimsSound
<1>2. Taken(c) = {e \in Deferred(c) : e.approved /\ Settles(e)}
  BY <1>1 DEF Taken
<1>3. \A e \in Events : grants'[e] = IF e \in Taken(c) THEN grants[e] + 1 ELSE grants[e]
  BY <1>1, <1>2 DEF CommitClaim
<1>4. \A e \in Taken(c) :
         /\ e \in Events /\ Stored(e) /\ payment[e].subscription = None /\ grants[e] = 0
         /\ payment[e].checkout = c
  BY <1>2 DEF Deferred, PaymentsInv, GrantedAreLinked, TypeOK
<1>5. \A e \in Taken(c) : payment'[e] = [payment[e] EXCEPT !.subscription = c]
  BY <1>1, <1>2, <1>4 DEF CommitClaim
<1>6. ASSUME NEW e \in Taken(c) PROVE grants'[e] = 1 /\ payment'[e].subscription = c
  <2>1. payment[e] \in PaymentRow /\ grants'[e] = 1
    BY <1>3, <1>4 DEF TypeOK
  <2> QED
    BY <1>5, <2>1 DEF PaymentRow
<1>7. Credits(c) = Taken(c)
  BY <1>3, <1>4, <1>6 DEF Credits
<1>8. \A d \in Checkouts : d # c => Credits(d) = {}
  BY <1>3, <1>6 DEF Credits
<1>9. CreditsStay
  <2> SUFFICES ASSUME NEW e \in Events, grants[e] > 0
               PROVE  /\ grants'[e] > 0
                      /\ payment'[e].subscription = payment[e].subscription
    BY DEF CreditsStay
  <2>1. payment[e].subscription # None
    BY DEF PaymentsInv, GrantedAreLinked
  <2>2. payment'[e] = payment[e]
    BY <2>1 DEF CommitClaim
  <2> QED
    BY <1>3, <1>4, <2>1, <2>2
<1>10. /\ FirstEnd(c)' = FirstEnd(c)
       /\ checkout'[c].status = "claimed"
  <2>1. checkout'[c] = [checkout[c] EXCEPT !.owner = claim[c].user, !.status = "claimed"]
    BY DEF CommitClaim, TypeOK
  <2> QED
    BY <2>1, PeriodTypes DEF FirstEnd, CheckoutRow
<1>11. Exists(c)'
  BY <1>10 DEF Orders, CheckoutsSound
<1>12. Settled(c)
  <2>1. CASE Exists(c)
    <3>1. Taken(c) = {}
      BY <1>1, <2>1, NothingToTake
    <3>2. claim[c].work.current_period_end = claim[c].base.current_period_end
      BY <1>1, <3>1 DEF ClaimsMove, Moved
    <3>3. sub'[c] = Flush(claim[c].base, claim[c].work, sub[c])
      BY <2>1 DEF CommitClaim, TypeOK
    <3>4. sub'[c].current_period_end = sub[c].current_period_end
      BY <3>2, <3>3, FlushedPeriod, PeriodTypes DEF ClaimState
    <3> QED
      BY <1>7, <1>11, <2>1, <3>1, <3>4, NothingSettled
  <2>2. CASE ~Exists(c)
    <3>1. sub'[c] = claim[c].work
      BY <2>2 DEF CommitClaim, TypeOK
    <3> QED
      BY <1>1, <1>7, <1>10, <1>11, <2>2, <3>1 DEF ClaimsMove, Settled
  <2> QED
    BY <2>1, <2>2
<1>13. ASSUME NEW d \in Checkouts, d # c PROVE Settled(d)
  <2>1. sub'[d] = sub[d]
    BY <1>13 DEF CommitClaim, TypeOK
  <2> QED
    BY <1>8, <1>13, <2>1, NothingSettled DEF Exists
<1> QED
  BY <1>9, <1>12, <1>13

\* The reconciliation writes the dates it has moved.
LEMMA ReconcileSettles ==
    ASSUME TypeOK, PaymentsInv, Orders, Orders', ReconMoves, CommitReconcile
    PROVE  CreditsStay /\ \A d \in Checkouts : Settled(d)
<1>1. /\ checkout' = checkout
      /\ \A e \in Events : grants'[e] = IF e \in recon.done /\ e.approved
                                        THEN grants[e] + 1 ELSE grants[e]
      /\ \A e \in Events : e \notin recon.done => payment'[e] = payment[e]
  BY DEF CommitReconcile
<1>2. \A e \in recon.done :
         /\ e \in Events /\ payment[e].subscription = None /\ grants[e] = 0
         /\ e.ref \in recon.locked
  BY DEF PaymentsInv, ReconHoldsUnlinked, GrantedAreLinked, Orders, ReconSound,
         TypeOK, ReconState
<1>3. ASSUME NEW e \in recon.done PROVE payment'[e].subscription = e.ref
  <2>1. payment'[e] = [payment[e] EXCEPT !.subscription = e.ref,
                                         !.failed       = @ /\ ~e.approved]
    BY <1>2 DEF CommitReconcile
  <2> QED
    BY <1>2, <2>1 DEF TypeOK, PaymentRow
<1>4. \A d \in Checkouts : Credits(d) = Applied(d)
  BY <1>1, <1>2, <1>3 DEF Credits, Applied
<1>5. CreditsStay
  <2> SUFFICES ASSUME NEW e \in Events, grants[e] > 0
               PROVE  /\ grants'[e] > 0
                      /\ payment'[e].subscription = payment[e].subscription
    BY DEF CreditsStay
  <2>1. e \notin recon.done
    BY <1>2
  <2> QED
    BY <1>1, <2>1
<1>6. \A d \in Checkouts : Exists(d)' <=> Exists(d)
  BY <1>1 DEF Orders, CheckoutsSound
<1>7. ASSUME NEW d \in recon.locked PROVE Settled(d)
  <2>1. d \in Checkouts /\ Exists(d)
    BY DEF Orders, ReconSound, TypeOK, ReconState
  <2>2. sub'[d] = recon.work[d]
    BY <2>1 DEF CommitReconcile
  <2>3. Moved(sub[d].current_period_end, sub'[d].current_period_end, Applied(d), now)
    BY <2>2 DEF ReconMoves
  <2> QED
    BY <1>4, <1>6, <2>1, <2>3 DEF Settled
<1>8. ASSUME NEW d \in Checkouts, d \notin recon.locked PROVE Settled(d)
  <2>1. sub'[d] = sub[d]
    BY <1>8 DEF CommitReconcile
  <2>2. Applied(d) = {}
    BY <1>2, <1>8 DEF Applied
  <2> QED
    BY <1>4, <1>6, <2>1, <2>2, NothingSettled
<1> QED
  BY <1>5, <1>7, <1>8

\* Every date is moved by the payments the step grants to it.
LEMMA EveryStepSettles ==
    ASSUME TypeOK, PaymentsInv, Orders, ClaimsMove, ReconMoves, DeferredAreApplied,
           [Next]_vars
    PROVE  CreditsStay /\ \A c \in Checkouts : Settled(c)
<1>1. Orders'
  BY OrdersStep
<1>2. ASSUME NEW h \in Handlers, CommitCallback(h)
      PROVE  CreditsStay /\ \A c \in Checkouts : Settled(c)
  BY <1>1, <1>2, CallbackSettles DEF CommitCallback
<1> QED
  BY <1>1, <1>2, ClaimSettles, ReconcileSettles, OtherStepsSettle

-----------------------------------------------------------------------------
(***************************************************************************)
(* The subscriptions                                                       *)
(***************************************************************************)
LEMMA CreditsFinite ==
    ASSUME Orders', PaymentsInv', FiniteSent', NEW c \in Checkouts
    PROVE  IsFiniteSet(Credits(c))
<1>1. Credits(c) \in SUBSET sent'
  BY DEF Credits, PaymentsInv, GrantedAreLinked, Orders, StoredSound, Stored
<1> QED
  BY <1>1, FS_Subset DEF FiniteSent

\* What has been granted to a subscription adds up.
LEMMA SubscriptionsMoveStep ==
    ASSUME TypeOK, TypeOK', PaymentsInv, PaymentsInv', Orders, Orders',
           FiniteSent, FiniteSent', SubscriptionsMove, CheckoutsStay, FirstPeriodsStay,
           now' >= now, CreditsStay, \A c \in Checkouts : Settled(c)
    PROVE  SubscriptionsMove'
<1> SUFFICES ASSUME NEW c \in Checkouts, Exists(c)'
             PROVE  Moved(FirstEnd(c)', sub'[c].current_period_end, GrantedTo(c)', now')
  BY DEF SubscriptionsMove, Moved, Books!Later
<1>1. /\ GrantedTo(c)' = GrantedTo(c) \cup Credits(c)
      /\ GrantedTo(c) \cap Credits(c) = {}
  BY DEF GrantedTo, Credits, CreditsStay, TypeOK
<1>2. IsFiniteSet(GrantedTo(c)) /\ IsFiniteSet(Credits(c))
  BY FiniteSets, CreditsFinite
<1>3. /\ now \in Nat /\ sub[c].current_period_end \in Nat /\ FirstEnd(c) \in Nat
  BY PeriodTypes
<1>4. /\ now' \in Nat /\ sub'[c].current_period_end \in Nat /\ FirstEnd(c)' \in Nat
  BY DEF TypeOK, SubscriptionRow, CheckoutRow, FirstEnd
<1>5. Moved(FirstEnd(c)', sub'[c].current_period_end, GrantedTo(c)', now)
  <2>1. CASE Exists(c)
    <3>1. Moved(FirstEnd(c), sub[c].current_period_end, GrantedTo(c), now)
      BY <2>1 DEF SubscriptionsMove
    <3>2. Moved(sub[c].current_period_end, sub'[c].current_period_end, Credits(c), now)
      BY <2>1 DEF Settled
    <3>3. FirstEnd(c)' = FirstEnd(c)
      BY <2>1 DEF FirstPeriodsStay, FirstEnd, Orders, CheckoutsSound
    <3>4. Moved(FirstEnd(c), sub'[c].current_period_end, GrantedTo(c) \cup Credits(c), now)
      BY <1>1, <1>2, <1>3, <1>4, <3>1, <3>2, MovedTwice
    <3> QED
      BY <1>1, <3>3, <3>4
  <2>2. CASE ~Exists(c)
    <3>1. GrantedTo(c) = {}
      BY <2>2 DEF GrantedTo, Orders, GrantsSound
    <3>2. Moved(FirstEnd(c)', sub'[c].current_period_end, Credits(c), now)
      BY <2>2 DEF Settled
    <3> QED
      BY <1>1, <3>1, <3>2
  <2> QED
    BY <2>1, <2>2
<1>6. IsFiniteSet(GrantedTo(c)')
  BY <1>1, <1>2, FS_Union
<1> QED
  BY <1>3, <1>4, <1>5, <1>6, MovedLater

-----------------------------------------------------------------------------
(***************************************************************************)
(* The claims                                                              *)
(***************************************************************************)
\* Nobody judges a payment anew while a claim holds it.
LEMMA HeldStay ==
    ASSUME TypeOK, PaymentsInv, Orders, [Next]_vars, NEW c \in Checkouts,
           NEW e \in claim[c].held
    PROVE  payment'[e].failed = payment[e].failed
<1>1. e \in Events /\ payment[e] \in PaymentRow /\ Stored(e)
  BY DEF TypeOK, ClaimState, PaymentsInv, ClaimsHoldDeferred, Deferred
<1>2. CASE \E h \in Handlers : CommitCallback(h)
  <2>1. PICK h \in Handlers, d \in Events, s \in Checkouts \cup {None} :
              \/ DeclinedCallback(h, d, s)  \/ MismatchedCallback(h, d, s)
              \/ DeferredCallback(h, d, s)  \/ AbsorbedCallback(h, d, s)
              \/ PaidCallback(h, d, s)      \/ ActivatingCallback(h, d, s)
              \/ RenewalCallback(h, d, s)   \/ UnmatchedCallback(h, d, s)
    BY <1>2 DEF CommitCallback
  <2>2. ~Stored(d)
    BY <2>1 DEF DeclinedCallback, MismatchedCallback, DeferredCallback, AbsorbedCallback,
       PaidCallback, ActivatingCallback, RenewalCallback, UnmatchedCallback, Commits
  <2>3. payment' = [payment EXCEPT ![d] = payment'[d]]
    BY <2>1, CallbackLeavesFirstPeriods
  <2> QED
    BY <1>1, <2>2, <2>3 DEF TypeOK
<1>3. CASE \E k \in Checkouts : CommitClaim(k)
  <2>1. PICK k \in Checkouts : CommitClaim(k)
    BY <1>3
  <2>2. \/ payment'[e] = payment[e]
        \/ payment'[e] = [payment[e] EXCEPT !.subscription = k]
    BY <1>1, <2>1 DEF CommitClaim
  <2> QED
    BY <1>1, <2>2 DEF PaymentRow
<1>4. CASE CommitReconcile
  <2>1. e \notin recon.done
    BY DEF PaymentsInv, ReconHoldsUnlinked
  <2> QED
    BY <1>1, <1>4, <2>1 DEF CommitReconcile
<1> QED
  BY <1>2, <1>3, <1>4, OtherStepsLeavePayments

\* What can happen to a claim.
LEMMA ClaimSteps ==
    ASSUME TypeOK, [Next]_vars, NEW c \in Checkouts
    PROVE  \/ claim'[c] = claim[c]
           \/ ~Claiming(c)'
           \/ \E u \in Users : BeginClaim(c, u)
           \/ DrainDeferred(c)
<1>1. ASSUME NEW k \in Checkouts, k # c,
             \/ \E u \in Users : BeginClaim(k, u)
             \/ DrainDeferred(k) \/ CommitClaim(k) \/ CrashClaim(k)
      PROVE  claim'[c] = claim[c]
  BY <1>1 DEF BeginClaim, DrainDeferred, CommitClaim, CrashClaim, TypeOK
<1>2. ASSUME CommitClaim(c) \/ CrashClaim(c)
      PROVE  ~Claiming(c)'
  BY <1>2 DEF CommitClaim, CrashClaim, Claiming, IdleClaim, TypeOK
<1>3. ASSUME NEW h \in Handlers, CommitCallback(h) PROVE UNCHANGED claim
  BY <1>3 DEF CommitCallback, DeclinedCallback, MismatchedCallback, DeferredCallback,
     AbsorbedCallback, PaidCallback, ActivatingCallback, RenewalCallback,
     UnmatchedCallback, StorePayment
<1>4. ASSUME NEW k \in Checkouts,
             \/ \E u \in Users \cup {None}, r \in Users \cup {None} : CreateCheckout(k, u, r)
             \/ \E u \in Users : ClaimUnpaid(k, u)
             \/ ClaimMetaPurchase(k) \/ Expire(k)
      PROVE  UNCHANGED claim
  BY <1>4 DEF CreateCheckout, ClaimUnpaid, ClaimMetaPurchase, Expire
<1>5. ASSUME \/ \E h \in Handlers, d \in Events : ReceiveCallback(h, d)
             \/ \E h \in Handlers : RejectDuplicate(h) \/ CrashHandler(h)
             \/ BeginReconcile \/ ReconcileNext \/ CommitReconcile \/ CrashReconcile
             \/ \E d \in Events : ProviderSends(d)
             \/ Tick \/ UNCHANGED vars
      PROVE  UNCHANGED claim
  BY <1>5 DEF ReceiveCallback, RejectDuplicate, CrashHandler, BeginReconcile,
     ReconcileNext, ReconcileOne, CommitReconcile, CrashReconcile, ProviderSends,
     Tick, vars
<1> QED
  BY <1>1, <1>2, <1>3, <1>4, <1>5 DEF Next

\* The claims under way still move the date by what they apply.
LEMMA ClaimsMoveStep ==
    ASSUME TypeOK, TypeOK', PaymentsInv, Orders, Orders', FiniteSent, MomentsSound,
           ClaimsMove, CheckoutsStay, FirstPeriodsStay, now' >= now, [Next]_vars
    PROVE  ClaimsMove'
<1> SUFFICES ASSUME NEW c \in Checkouts, Claiming(c)'
             PROVE  /\ Moved(claim'[c].base.current_period_end,
                             claim'[c].work.current_period_end, Taken(c)', now')
                    /\ ~Exists(c)' =>
                          claim'[c].base.current_period_end = FirstEnd(c)'
  BY DEF ClaimsMove, Moved, Books!Later
<1>1. now \in Nat /\ now' \in Nat
  BY DEF TypeOK
<1>2. CASE claim'[c] = claim[c]
  <2>1. Claiming(c) /\ checkout[c].status \in {"paid", "claimed"}
    BY <1>2 DEF Claiming, Orders, ClaimsSound
  <2>2. Taken(c)' = Taken(c)
    <3>1. \A e \in claim[c].held : Settles(e)' <=> Settles(e)
      BY HeldStay DEF Settles
    <3> QED
      BY <1>2, <3>1 DEF Taken
  <2>3. Moved(claim[c].base.current_period_end, claim[c].work.current_period_end,
              Taken(c), now')
    BY <1>1, <2>1, FiniteSets, PeriodTypes, MovedLater DEF ClaimsMove
  <2>4. FirstEnd(c)' = FirstEnd(c)
    BY <2>1 DEF FirstPeriodsStay, FirstEnd
  <2>5. Exists(c) => Exists(c)'
    BY DEF CheckoutsStay, Orders, CheckoutsSound
  <2> QED
    BY <1>2, <2>1, <2>2, <2>3, <2>4, <2>5 DEF ClaimsMove
<1>3. CASE \E u \in Users : BeginClaim(c, u)
  <2>1. PICK u \in Users : BeginClaim(c, u)
    BY <1>3
  <2> DEFINE row == IF Exists(c) THEN sub[c] ELSE ActivatedRow(c, checkout[c].paid_at)
  <2>2. /\ claim'[c] = [user |-> u, base |-> row, work |-> row,
                        held |-> Deferred(c), todo |-> Deferred(c)]
        /\ UNCHANGED <<now, sub, checkout>>
    BY <2>1 DEF BeginClaim, TypeOK
  <2>3. Taken(c)' = {}
    BY <2>2 DEF Taken
  <2>4. ~Exists(c) => row.current_period_end = FirstEnd(c)
    BY DEF ActivatedRow, NewSubscription, FirstEnd
  <2>5. row.current_period_end \in Nat
    BY <2>4, PeriodTypes
  <2> HIDE DEF row
  <2> QED
    BY <1>1, <2>2, <2>3, <2>4, <2>5, NotMoved DEF Exists, FirstEnd
<1>4. CASE DrainDeferred(c)
  <2>1. PICK e \in Earliest(claim[c].todo) :
           claim' = [claim EXCEPT ![c].work = ApplyDeferred(@, e), ![c].todo = @ \ {e}]
    BY <1>4 DEF DrainDeferred
  <2>2. /\ Claiming(c) /\ claim[c] \in ClaimState
        /\ e \in claim[c].todo /\ e \in claim[c].held /\ e \in Events /\ Stored(e)
        /\ UNCHANGED <<now, sub, checkout, payment>>
    <3>1. /\ Claiming(c) /\ claim[c] \in ClaimState
          /\ UNCHANGED <<now, sub, checkout, payment>>
      BY <1>4 DEF DrainDeferred, TypeOK
    <3>2. e \in claim[c].todo
      BY <2>1 DEF Earliest
    <3>3. e \in claim[c].held /\ claim[c].held = Deferred(c)
      BY <3>1, <3>2 DEF PaymentsInv, ClaimsHoldDeferred
    <3> QED
      BY <3>1, <3>2, <3>3 DEF Deferred
  <2>3. /\ claim'[c].base = claim[c].base
        /\ claim'[c].work = ApplyDeferred(claim[c].work, e)
        /\ claim'[c].held = claim[c].held
        /\ claim'[c].todo = claim[c].todo \ {e}
    BY <2>1, <2>2 DEF TypeOK, ClaimState
  <2>4. /\ payment[e].created_at \in Nat /\ payment[e].created_at <= now
    BY <2>2 DEF MomentsSound, TypeOK, PaymentRow
  <2>5. /\ claim[c].base.current_period_end \in Nat
        /\ claim[c].work.current_period_end \in Nat
        /\ claim[c].work \in SubscriptionRow
        /\ IsFiniteSet(Taken(c))
    BY <2>2, PeriodTypes, FiniteSets DEF ClaimState
  <2>6. Moved(claim[c].base.current_period_end, claim[c].work.current_period_end,
              Taken(c), now)
    BY <2>2 DEF ClaimsMove
  <2>7. /\ e \notin Taken(c)
        /\ Taken(c)' = IF e.approved /\ Settles(e) THEN Taken(c) \cup {e} ELSE Taken(c)
    BY <2>2, <2>3 DEF Taken, Settles
  <2>8. Moved(claim'[c].base.current_period_end, claim'[c].work.current_period_end,
              Taken(c)', now)
    <3>1. CASE e.approved /\ Settles(e)
      <4>1. claim'[c].work.current_period_end =
               (IF claim[c].work.current_period_end < payment[e].created_at
                THEN payment[e].created_at ELSE claim[c].work.current_period_end)
                   + BillingMonths
        BY <2>3, <2>5, <3>1, ExtendedPeriod DEF ApplyDeferred
      <4>2. Moved(claim[c].base.current_period_end, claim'[c].work.current_period_end,
                  Taken(c) \cup {e}, now)
        BY <1>1, <2>4, <2>5, <2>6, <2>7, <4>1, MovedByOne
      <4> QED
        BY <2>3, <2>7, <3>1, <4>2
    <3>2. CASE ~(e.approved /\ Settles(e))
      <4>1. claim'[c].work.current_period_end = claim[c].work.current_period_end
        BY <2>3, <2>5, <3>2, FailedPeriod DEF ApplyDeferred
      <4> QED
        BY <2>3, <2>6, <2>7, <3>2, <4>1
    <3> QED
      BY <3>1, <3>2
  <2> QED
    BY <2>2, <2>3, <2>8 DEF ClaimsMove, Exists, FirstEnd
<1> QED
  BY <1>2, <1>3, <1>4, ClaimSteps

-----------------------------------------------------------------------------
(***************************************************************************)
(* The reconciliation                                                      *)
(***************************************************************************)
\* Nobody else moves the date of a row the reconciliation has locked.
LEMMA LockedStay ==
    ASSUME TypeOK, PaymentsInv, Orders, Orders', ClaimsMove, [Next]_vars, ~CommitReconcile,
           NEW c \in recon.locked
    PROVE  sub'[c].current_period_end = sub[c].current_period_end
<1>1. c \in Checkouts /\ Exists(c)
  BY DEF Orders, ReconSound, TypeOK, ReconState
<1>2. CASE \E h \in Handlers : CommitCallback(h)
  <2>1. PICK h \in Handlers, e \in Events, s \in Checkouts \cup {None} :
              \/ DeclinedCallback(h, e, s)  \/ MismatchedCallback(h, e, s)
              \/ DeferredCallback(h, e, s)  \/ AbsorbedCallback(h, e, s)
              \/ PaidCallback(h, e, s)      \/ ActivatingCallback(h, e, s)
              \/ RenewalCallback(h, e, s)   \/ UnmatchedCallback(h, e, s)
    BY <1>2 DEF CommitCallback
  <2>2. Commits(h, e, s)
    BY <2>1 DEF DeclinedCallback, MismatchedCallback, DeferredCallback, AbsorbedCallback,
              PaidCallback, ActivatingCallback, RenewalCallback, UnmatchedCallback
  <2>3. s # c
    BY <1>1, <2>2, BillingAssumption DEF Commits, LocksFree, Picks
  <2>4. CASE ActivatingCallback(h, e, s)
    <3>1. /\ e.ref \in Checkouts /\ checkout[e.ref].status = "created"
          /\ sub' = [sub EXCEPT ![e.ref] = ActivatedRow(e.ref, now)]
      BY <2>4 DEF ActivatingCallback, FirstPayment, KnownPlain
    <3>2. e.ref # c
      BY <1>1, <3>1 DEF Orders, CheckoutsSound
    <3> QED
      BY <1>1, <3>1, <3>2 DEF TypeOK
  <2>5. CASE ~ActivatingCallback(h, e, s)
    <3>1. \/ sub' = sub
          \/ sub' = [sub EXCEPT ![s] = ApplyFailedPayment(@)]
          \/ sub' = [sub EXCEPT ![s] = ExtendSubscription(@, BillingMonths, now)]
      BY <2>1, <2>5, Zenon DEF DeclinedCallback, MismatchedCallback, DeferredCallback,
         AbsorbedCallback, PaidCallback, RenewalCallback, UnmatchedCallback
    <3> QED
      BY <1>1, <2>3, <3>1 DEF TypeOK
  <2> QED
    BY <2>4, <2>5
<1>3. CASE \E k \in Checkouts : CommitClaim(k)
  <2>1. PICK k \in Checkouts : CommitClaim(k)
    BY <1>3
  <2>2. CASE k = c
    <3>1. /\ claim[c].work = claim[c].base
          /\ sub'[c] = Flush(claim[c].base, claim[c].work, sub[c])
      BY <1>1, <2>1, <2>2 DEF CommitClaim, TypeOK
    <3> QED
      BY <1>1, <3>1, FlushedPeriod, PeriodTypes DEF ClaimState
  <2>3. CASE k # c
    BY <1>1, <2>1, <2>3 DEF CommitClaim, TypeOK
  <2> QED
    BY <2>2, <2>3
<1> QED
  BY <1>1, <1>2, <1>3, OtherStepsLeaveDates

\* What can happen to the reconciliation.
LEMMA ReconSteps ==
    ASSUME [Next]_vars
    PROVE  \/ recon' = recon /\ ~CommitReconcile
           \/ recon'.locked = {}
           \/ \E e \in Earliest(recon.todo) : ReconcileOne(e)
<1>1. ASSUME BeginReconcile \/ CommitReconcile \/ CrashReconcile
      PROVE  recon'.locked = {}
  <2>1. ASSUME BeginReconcile PROVE recon'.locked = {}
    <3>1. PICK free : recon' = [IdleRecon EXCEPT !.running = TRUE, !.held = free,
                                                 !.todo = free]
      BY <2>1, Zenon DEF BeginReconcile
    <3> QED
      BY <3>1 DEF IdleRecon
  <2>2. ASSUME CommitReconcile \/ CrashReconcile PROVE recon' = IdleRecon
    BY <2>2 DEF CommitReconcile, CrashReconcile
  <2> QED
    BY <1>1, <2>1, <2>2 DEF IdleRecon
<1>2. ASSUME NEW h \in Handlers, CommitCallback(h) PROVE UNCHANGED recon
  BY <1>2 DEF CommitCallback, DeclinedCallback, MismatchedCallback, DeferredCallback,
     AbsorbedCallback, PaidCallback, ActivatingCallback, RenewalCallback,
     UnmatchedCallback, StorePayment
<1>3. ASSUME NEW k \in Checkouts,
             \/ \E u \in Users \cup {None}, r \in Users \cup {None} : CreateCheckout(k, u, r)
             \/ \E u \in Users : ClaimUnpaid(k, u) \/ BeginClaim(k, u)
             \/ DrainDeferred(k) \/ CommitClaim(k) \/ ClaimMetaPurchase(k)
             \/ Expire(k) \/ CrashClaim(k)
      PROVE  UNCHANGED recon
  BY <1>3 DEF CreateCheckout, ClaimUnpaid, BeginClaim, DrainDeferred, CommitClaim,
     ClaimMetaPurchase, Expire, CrashClaim
<1>4. ASSUME \/ \E h \in Handlers, d \in Events : ReceiveCallback(h, d)
             \/ \E h \in Handlers : RejectDuplicate(h) \/ CrashHandler(h)
             \/ \E d \in Events : ProviderSends(d)
             \/ Tick \/ UNCHANGED vars
      PROVE  UNCHANGED recon
  BY <1>4 DEF ReceiveCallback, RejectDuplicate, CrashHandler, ProviderSends, Tick, vars
<1> QED
  BY <1>1, <1>2, <1>3, <1>4 DEF Next, ReconcileNext

\* The row of its subscription takes a payment, or stays as it is.
LEMMA ReconcileOneMoves ==
    ASSUME TypeOK, PaymentsInv, Orders, FiniteSent, MomentsSound, ReconMoves,
           NEW e \in Earliest(recon.todo), ReconcileOne(e)
    PROVE  ReconMoves'
<1>1. /\ e \in recon.todo /\ e \in recon.held /\ e \in Events /\ e \notin recon.done
      /\ Stored(e) /\ recon \in ReconState
  BY DEF Earliest, PaymentsInv, ReconHoldsUnlinked, TypeOK, ReconState
<1>2. /\ now \in Nat /\ payment[e].created_at \in Nat /\ payment[e].created_at <= now
  BY <1>1 DEF MomentsSound, TypeOK, PaymentRow
<1>3. UNCHANGED <<now, sub, payment>>
  BY DEF ReconcileOne
<1> DEFINE d     == e.ref
           known == d # Foreign /\ Exists(d)
           row   == IF d \in recon.locked THEN recon.work[d] ELSE sub[d]
           takes == known /\ e.amount = checkout[d].recurring_amount
<1>4. /\ recon'.done = IF takes THEN recon.done \cup {e} ELSE recon.done
      /\ recon'.locked = IF known THEN recon.locked \cup {d} ELSE recon.locked
      /\ recon'.work = IF ~known THEN recon.work
                       ELSE IF takes THEN [recon.work EXCEPT ![d] = ReconciledRow(row, e)]
                       ELSE [recon.work EXCEPT ![d] = row]
  BY <1>1 DEF ReconcileOne, ReconState
<1>5. recon.work \in [Checkouts -> SubscriptionRow] /\ recon.locked \subseteq Checkouts
  BY <1>1 DEF ReconState
<1>6. known => d \in Checkouts
  BY <1>1, BillingAssumption
<1>7. ASSUME NEW c \in recon.locked, ~known \/ c # d
      PROVE  Moved(sub[c].current_period_end, recon'.work[c].current_period_end,
                   Applied(c)', now)
  <2>1. recon'.work[c] = recon.work[c]
    BY <1>4, <1>5, <1>7
  <2>2. Applied(c)' = Applied(c)
    BY <1>4, <1>7 DEF Applied
  <2> QED
    BY <2>1, <2>2 DEF ReconMoves
<1>8. ASSUME known
      PROVE  Moved(sub[d].current_period_end, recon'.work[d].current_period_end,
                   Applied(d)', now)
  <2>1. /\ row \in SubscriptionRow /\ row.current_period_end \in Nat
        /\ sub[d].current_period_end \in Nat /\ IsFiniteSet(Applied(d))
    BY <1>6, <1>8, PeriodTypes, FiniteSets
  <2>2. Moved(sub[d].current_period_end, row.current_period_end, Applied(d), now)
    <3>1. CASE d \in recon.locked
      BY <3>1 DEF ReconMoves
    <3>2. CASE d \notin recon.locked
      <4>1. Applied(d) = {}
        BY <3>2 DEF Applied, Orders, ReconSound
      <4> QED
        BY <1>2, <2>1, <3>2, <4>1, NotMoved
    <3> QED
      BY <3>1, <3>2
  <2>3. recon'.work[d] = IF takes THEN ReconciledRow(row, e) ELSE row
    BY <1>4, <1>5, <1>6, <1>8
  <2> HIDE DEF row
  <2>4. CASE takes /\ e.approved
    <3>1. Applied(d)' = Applied(d) \cup {e} /\ e \notin Applied(d)
      BY <1>1, <1>4, <2>4 DEF Applied
    <3>2. recon'.work[d].current_period_end =
             (IF row.current_period_end < payment[e].created_at
              THEN payment[e].created_at ELSE row.current_period_end) + BillingMonths
      BY <2>1, <2>3, <2>4, ExtendedPeriod DEF ReconciledRow
    <3>3. Moved(sub[d].current_period_end, recon'.work[d].current_period_end,
                Applied(d) \cup {e}, now)
      BY <1>2, <2>1, <2>2, <3>1, <3>2, MovedByOne
    <3> QED
      BY <3>1, <3>3
  <2>5. CASE ~(takes /\ e.approved)
    <3>1. Applied(d)' = Applied(d)
      BY <1>4, <2>5 DEF Applied
    <3>2. recon'.work[d].current_period_end = row.current_period_end
      BY <2>1, <2>3, <2>5, FailedPeriod DEF ReconciledRow
    <3> QED
      BY <2>2, <3>1, <3>2
  <2> QED
    BY <2>4, <2>5
<1>9. \A c \in recon'.locked :
         \/ c \in recon.locked /\ (~known \/ c # d)
         \/ known /\ c = d
  BY <1>4
<1> HIDE DEF known, takes, row
<1>10. \A c \in recon'.locked :
          Moved(sub[c].current_period_end, recon'.work[c].current_period_end,
                Applied(c)', now)
  BY <1>7, <1>8, <1>9
<1> QED
  BY <1>3, <1>10 DEF ReconMoves, Moved, Books!Later

\* So does the reconciliation under way.
LEMMA ReconMovesStep ==
    ASSUME TypeOK, TypeOK', PaymentsInv, Orders, Orders', FiniteSent, MomentsSound,
           ClaimsMove, ReconMoves, now' >= now, [Next]_vars
    PROVE  ReconMoves'
<1>1. CASE recon' = recon /\ ~CommitReconcile
  <2> SUFFICES ASSUME NEW c \in recon.locked
               PROVE  Moved(sub'[c].current_period_end, recon.work[c].current_period_end,
                            Applied(c), now')
    BY <1>1 DEF ReconMoves, Applied, Moved, Books!Later
  <2>1. c \in Checkouts
    BY DEF TypeOK, ReconState
  <2>2. sub'[c].current_period_end = sub[c].current_period_end
    BY <1>1, LockedStay
  <2>3. Moved(sub[c].current_period_end, recon.work[c].current_period_end, Applied(c), now)
    BY DEF ReconMoves
  <2>4. now \in Nat /\ now' \in Nat
    BY DEF TypeOK
  <2> QED
    BY <2>1, <2>2, <2>3, <2>4, PeriodTypes, FiniteSets, MovedLater
<1>2. CASE recon'.locked = {}
  BY <1>2 DEF ReconMoves
<1>3. CASE \E e \in Earliest(recon.todo) : ReconcileOne(e)
  BY <1>3, ReconcileOneMoves
<1> QED
  BY <1>1, <1>2, <1>3, ReconSteps

-----------------------------------------------------------------------------
(***************************************************************************)
(* What follows                                                            *)
(***************************************************************************)
LEMMA MovesInit == Init => Moves
<1> SUFFICES ASSUME Init PROVE Moves
  OBVIOUS
<1>1. \A c \in Checkouts : ~Claiming(c) /\ ~Exists(c)
  BY DEF Init, Claiming, IdleClaim, Exists, NoSubscription, NewSubscription
<1>2. MomentsSound
  BY DEF Init, MomentsSound, NoPayment, IdleHandler, NoCheckout, Stored
<1>3. recon.locked = {}
  BY DEF Init, IdleRecon
<1> QED
  BY <1>1, <1>2, <1>3 DEF Moves, ClaimsMove, ReconMoves, SubscriptionsMove

\* Every step keeps the dates and the payments that moved them together.
LEMMA MovesStep ==
    ASSUME TypeOK, TypeOK', PaymentsInv, PaymentsInv', Orders, FiniteSent, FiniteSent',
           DeferredAreApplied, Moves, [Next]_vars
    PROVE  Moves'
<1>1. Orders' /\ CheckoutsStay
  BY OrdersStep
<1>2. MomentsSound' /\ FirstPeriodsStay /\ now' >= now
  BY MomentsStep DEF Moves
<1>3. CreditsStay /\ \A c \in Checkouts : Settled(c)
  BY EveryStepSettles DEF Moves
<1>4. SubscriptionsMove'
  BY <1>1, <1>2, <1>3, SubscriptionsMoveStep DEF Moves
<1>5. ClaimsMove'
  BY <1>1, <1>2, ClaimsMoveStep DEF Moves
<1>6. ReconMoves'
  BY <1>1, <1>2, ReconMovesStep DEF Moves
<1> QED
  BY <1>2, <1>4, <1>5, <1>6 DEF Moves

\* All dates have been moved by payments alone.
THEOREM MovesCorrect ==
    ASSUME InOrder
    PROVE  Spec => []Moves
<1>1. ASSUME TypeOK, TypeOK', PaymentsInv, PaymentsInv', Orders, FiniteSent, FiniteSent',
             DeferredAreApplied, Moves, [Next]_vars
      PROVE  Moves'
  BY <1>1, MovesStep
<1>2. Spec => []DeferredAreApplied
  BY DeferredAlwaysApplied
<1> QED
  BY <1>1, <1>2, MovesInit, TypeCorrect, PaymentsCorrect, OrdersCorrect, SentFinite,
     PTL DEF Spec

\* A paid-through date is the first period from its payment and one period for
\* each renewal granted, whatever overlapped, waited or was rolled back.
THEOREM PaidThroughAlwaysPaid ==
    ASSUME InOrder
    PROVE  Spec => []PaidThroughIsWhatWasPaid
<1>1. TypeOK /\ PaymentsInv /\ Orders /\ FiniteSent /\ Moves => PaidThroughIsWhatWasPaid
  <2> SUFFICES ASSUME TypeOK, PaymentsInv, Orders, FiniteSent, Moves,
                      NEW c \in Checkouts, Exists(c),
                      NEW bought, bought = BillingMonths * Cardinality(GrantedTo(c))
               PROVE  LET paid == checkout[c].initial_months + bought
                      IN  /\ sub[c].current_period_end >= checkout[c].paid_at + paid
                          /\ sub[c].current_period_end <= now + paid
                          /\ GrantedTo(c) = {} =>
                                sub[c].current_period_end = checkout[c].paid_at + paid
    BY Zenon DEF PaidThroughIsWhatWasPaid
  <2>1. /\ sub[c].current_period_end >= FirstEnd(c) + bought
        /\ sub[c].current_period_end <= Books!Later(FirstEnd(c), now) + bought
        /\ GrantedTo(c) = {} => sub[c].current_period_end = FirstEnd(c)
    BY DEF Moves, SubscriptionsMove, Moved
  <2>2. bought \in Nat /\ (GrantedTo(c) = {} => bought = 0)
    <3>1. Cardinality(GrantedTo(c)) \in Nat
      BY FiniteSets, FS_CardinalityType
    <3>2. ASSUME NEW m \in Nat, NEW n \in Nat PROVE m * n \in Nat
      OBVIOUS
    <3> QED
      BY <3>1, <3>2, MonthsType, FS_EmptySet
  <2>3. /\ checkout[c].paid_at \in Nat /\ checkout[c].paid_at <= now /\ now \in Nat
        /\ checkout[c].initial_months \in Nat /\ sub[c].current_period_end \in Nat
    BY PeriodTypes DEF Moves, MomentsSound, CheckoutRow
  <2> QED
    BY <2>1, <2>2, <2>3 DEF FirstEnd, Books!Later
<1> QED
  BY <1>1, MovesCorrect, TypeCorrect, PaymentsCorrect, OrdersCorrect, SentFinite, PTL

-----------------------------------------------------------------------------
(***************************************************************************)
(* The refinement                                                          *)
(***************************************************************************)
\* Before anybody has bought anything, the ledger is empty.
LEMMA BooksOpenEmpty == Init => Books!Init
BY DEF Init, Books!Init, Until, Credit, Exists, NoSubscription, NewSubscription

\* The clock moves alone.
LEMMA TimePasses ==
    ASSUME TypeOK, [Next]_vars
    PROVE  \/ now' = now
           \/ now' > now /\ UNCHANGED <<sub, payment, grants>>
<1>1. ASSUME Tick PROVE now' > now /\ UNCHANGED <<sub, payment, grants>>
  BY <1>1 DEF Tick, TypeOK
<1>2. ASSUME NEW h \in Handlers, CommitCallback(h) PROVE now' = now
  BY <1>2 DEF CommitCallback, DeclinedCallback, MismatchedCallback, DeferredCallback,
     AbsorbedCallback, PaidCallback, ActivatingCallback, RenewalCallback,
     UnmatchedCallback, StorePayment
<1>3. ASSUME NEW k \in Checkouts,
             \/ \E u \in Users \cup {None}, r \in Users \cup {None} : CreateCheckout(k, u, r)
             \/ \E u \in Users : ClaimUnpaid(k, u) \/ BeginClaim(k, u)
             \/ DrainDeferred(k) \/ CommitClaim(k) \/ ClaimMetaPurchase(k)
             \/ Expire(k) \/ CrashClaim(k)
      PROVE  now' = now
  BY <1>3 DEF CreateCheckout, ClaimUnpaid, BeginClaim, DrainDeferred, CommitClaim,
     ClaimMetaPurchase, Expire, CrashClaim
<1>4. ASSUME \/ \E h \in Handlers, d \in Events : ReceiveCallback(h, d)
             \/ \E h \in Handlers : RejectDuplicate(h) \/ CrashHandler(h)
             \/ BeginReconcile \/ ReconcileNext \/ CommitReconcile \/ CrashReconcile
             \/ \E d \in Events : ProviderSends(d)
             \/ UNCHANGED vars
      PROVE  now' = now
  BY <1>4 DEF ReceiveCallback, RejectDuplicate, CrashHandler, BeginReconcile,
     ReconcileNext, ReconcileOne, CommitReconcile, CrashReconcile, ProviderSends, vars
<1> QED
  BY <1>1, <1>2, <1>3, <1>4 DEF Next

\* What the ledger sees of the payments of a step.
LEMMA BooksCredit ==
    ASSUME TypeOK, TypeOK', PaymentsInv, PaymentsInv', CreditsStay
    PROVE  /\ \A c \in Checkouts : Books!New(c) = Credits(c)
           /\ \A e \in Events : Credit[e] # None => Credit'[e] = Credit[e]
<1>1. \A e \in Events : /\ Credit[e] = None <=> grants[e] = 0
                        /\ grants[e] # 0 => Credit[e] = payment[e].subscription
  BY DEF Credit, PaymentsInv, GrantedAreLinked, TypeOK
<1>2. \A e \in Events : /\ Credit'[e] = None <=> grants'[e] = 0
                        /\ grants'[e] # 0 => Credit'[e] = payment'[e].subscription
  BY DEF Credit, PaymentsInv, GrantedAreLinked, TypeOK
<1>3. \A e \in Events : grants[e] \in Nat /\ grants'[e] \in Nat
  BY DEF TypeOK
<1>4. \A c \in Checkouts : c # None
  BY BillingAssumption
<1> QED
  BY <1>1, <1>2, <1>3, <1>4 DEF Books!New, Credits, CreditsStay

\* A step that settles a subscription settles it in the ledger.
LEMMA BooksSettle ==
    ASSUME TypeOK, TypeOK', MomentsSound', now' = now, NEW c \in Checkouts, Settled(c),
           IsFiniteSet(Credits(c)), Books!New(c) = Credits(c), Orders'
    PROVE  Books!Opens(c) \/ Books!Extends(c) \/ Books!Keeps(c)
<1> DEFINE bought == BillingMonths * Cardinality(Credits(c))
<1>1. Books!Bought(c) = bought
  <2>1. Books!Cardinality(Credits(c)) = Cardinality(Credits(c))
    BY DEF Books!Cardinality, Cardinality
  <2> QED
    BY <2>1 DEF Books!Bought
<1>2. bought \in Nat
  <2>1. Cardinality(Credits(c)) \in Nat
    BY FS_CardinalityType
  <2>2. ASSUME NEW m \in Nat, NEW n \in Nat PROVE m * n \in Nat
    OBVIOUS
  <2> QED
    BY <2>1, <2>2, MonthsType
<1>3. /\ Until[c] = sub[c].current_period_end /\ Until[c] \in Nat
      /\ Until'[c] = sub'[c].current_period_end /\ Until'[c] \in Nat
      /\ now \in Nat
  BY DEF Until, TypeOK, SubscriptionRow
<1> HIDE DEF bought
<1>4. CASE ~Exists(c) /\ Exists(c)'
  <2>1. Moved(FirstEnd(c)', Until'[c], Credits(c), now)
    BY <1>3, <1>4 DEF Settled
  <2>2. /\ Until'[c] >= FirstEnd(c)' + bought
        /\ Until'[c] <= Books!Later(FirstEnd(c)', now) + bought
    BY <2>1 DEF Moved, bought
  <2>3. /\ checkout'[c].paid_at \in 0..now
        /\ checkout'[c].initial_months \in {BillingMonths, TrialMonths}
        /\ FirstEnd(c)' = checkout'[c].paid_at + checkout'[c].initial_months
    BY <1>3, <1>4 DEF MomentsSound, TypeOK, CheckoutRow, FirstEnd, Orders, CheckoutsSound
  <2>4. /\ Until'[c] >= checkout'[c].paid_at + checkout'[c].initial_months + bought
        /\ Until'[c] <= now + checkout'[c].initial_months + bought
    BY <1>2, <1>3, <2>2, <2>3, MonthsType DEF Books!Later
  <2> QED
    BY <1>1, <1>4, <2>3, <2>4 DEF Books!Opens
<1>5. CASE Exists(c)' <=> Exists(c)
  <2>1. /\ Credits(c) # {} => Exists(c)
        /\ Moved(Until[c], Until'[c], Credits(c), now)
    BY <1>3, <1>5 DEF Settled
  <2>2. /\ Until'[c] >= Until[c] + bought
        /\ Until'[c] <= Books!Later(Until[c], now) + bought
        /\ Credits(c) = {} => Until'[c] = Until[c]
    BY <2>1 DEF Moved, bought
  <2>3. CASE Credits(c) = {}
    BY <1>5, <2>2, <2>3 DEF Books!Keeps
  <2>4. CASE Credits(c) # {}
    BY <1>1, <2>1, <2>2, <2>4 DEF Books!Extends
  <2> QED
    BY <2>3, <2>4
<1> QED
  BY <1>4, <1>5 DEF Settled

\* Every step of the system is one of the ledger, or none.
LEMMA BooksStep ==
    ASSUME TypeOK, TypeOK', PaymentsInv, PaymentsInv', Orders, Orders', FiniteSent',
           DeferredAreApplied, Moves, Moves', [Next]_vars
    PROVE  [Books!Next]_(Books!vars)
<1>1. CreditsStay /\ \A c \in Checkouts : Settled(c)
  BY EveryStepSettles DEF Moves
<1>2. CheckoutsStay
  BY OrdersStep
<1>3. CASE now' = now
  <2>1. \A c \in Checkouts : Books!Opens(c) \/ Books!Extends(c) \/ Books!Keeps(c)
    BY <1>1, <1>3, BooksCredit, BooksSettle, CreditsFinite DEF Moves
  <2>2. {c \in Checkouts : Exists(c)} \subseteq {c \in Checkouts : Exists(c)'}
    BY <1>2 DEF CheckoutsStay, Orders, CheckoutsSound
  <2>3. Books!Settle
    BY <1>1, <1>3, <2>1, <2>2, BooksCredit DEF Books!Settle
  <2> QED
    BY <2>3 DEF Books!Next
<1>4. CASE now' > now /\ UNCHANGED <<sub, payment, grants>>
  BY <1>4 DEF Books!Next, Books!Pass, Until, Credit, Exists
<1> QED
  BY <1>3, <1>4, TimePasses

\* Billing implements Ledger.
THEOREM BooksAreKept ==
    ASSUME InOrder
    PROVE  Spec => KeepsTheBooks
<1>1. ASSUME TypeOK, TypeOK', PaymentsInv, PaymentsInv', Orders, Orders', FiniteSent',
             DeferredAreApplied, Moves, Moves', [Next]_vars
      PROVE  [Books!Next]_(Books!vars)
  BY <1>1, BooksStep
<1>2. Spec => []DeferredAreApplied
  BY DeferredAlwaysApplied
<1>3. Spec => []Moves
  BY MovesCorrect
<1> QED
  BY <1>1, <1>2, <1>3, BooksOpenEmpty, TypeCorrect, PaymentsCorrect, OrdersCorrect,
     SentFinite, PTL DEF Spec, KeepsTheBooks, Books!Spec

=============================================================================
