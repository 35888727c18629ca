----------------------------- MODULE TermsProofs -----------------------------
(***************************************************************************)
(* What holds of the calendar for every date and every number of months,   *)
(* and of Terms for every set of prices and periods, every grace period    *)
(* and every day an order may be made on.                                  *)
(***************************************************************************)
EXTENDS Terms, TLAPS

-----------------------------------------------------------------------------
(***************************************************************************)
(* The calendar                                                            *)
(***************************************************************************)
\* A month has 28 to 31 days.
LEMMA DaysInRange ==
    ASSUME NEW m \in Nat
    PROVE  DaysIn(m) \in 28..31
  BY DEF DaysIn

\* A clamped day exists in its month, and clamping again changes nothing more
\* than three days; the first 28 days are never clamped.
LEMMA ClampRange ==
    ASSUME NEW m \in Nat, NEW d \in 1..31
    PROVE  /\ Clamp(d, m) \in 1..31
           /\ Clamp(d, m) <= DaysIn(m)
           /\ Clamp(d, m) <= d
           /\ d <= 28 => Clamp(d, m) = d
           /\ Clamp(d, m) = d \/ Clamp(d, m) >= 28
  BY DaysInRange DEF Clamp

\* A date n months later is a date, as many months later.
LEMMA AddMonthsType ==
    ASSUME NEW x \in Date, NEW n \in Nat
    PROVE  /\ AddMonths(x, n) \in Date
           /\ AddMonths(x, n).month = x.month + n
           /\ AddMonths(x, n).day = Clamp(x.day, x.month + n)
<1>1. x.month \in Nat /\ x.day \in 1..31 /\ x.month + n \in Nat
  BY DEF Date
<1>2. Clamp(x.day, x.month + n) \in 1..31
  BY <1>1, ClampRange
<1>3. Clamp(x.day, x.month + n) <= DaysIn(x.month + n)
  BY <1>1, ClampRange
<1> QED
  BY <1>1, <1>2, <1>3 DEF AddMonths, Date

\* The next day is a date.
LEMMA NextDayType ==
    ASSUME NEW x \in Date
    PROVE  NextDay(x) \in Date
<1>1. x.month \in Nat /\ x.day \in 1..31 /\ x.day <= DaysIn(x.month)
  BY DEF Date
<1>2. DaysIn(x.month) \in 28..31 /\ DaysIn(x.month + 1) \in 28..31
  BY <1>1, DaysInRange
<1>3. CASE x.day < DaysIn(x.month)
  BY <1>1, <1>2, <1>3 DEF NextDay, Date
<1>4. CASE ~(x.day < DaysIn(x.month))
  BY <1>1, <1>2, <1>4 DEF NextDay, Date
<1> QED
  BY <1>3, <1>4

\* The order of the dates is a linear one.
LEMMA NotAfterOrder ==
    ASSUME NEW x \in Date, NEW y \in Date, NEW z \in Date
    PROVE  /\ NotAfter(x, x)
           /\ NotAfter(x, y) \/ NotAfter(y, x)
           /\ NotAfter(x, y) /\ NotAfter(y, z) => NotAfter(x, z)
           /\ NotAfter(x, y) /\ NotAfter(y, x) => x.month = y.month /\ x.day = y.day
  BY DEF NotAfter, Date

\* The later of two dates is one of them, and not before either.
LEMMA LaterFacts ==
    ASSUME NEW x \in Date, NEW y \in Date
    PROVE  /\ Later(x, y) \in {x, y}
           /\ NotAfter(x, Later(x, y))
           /\ NotAfter(y, Later(x, y))
  BY NotAfterOrder DEF Later

\* Whoever pays no earlier is entitled no shorter: adding months keeps the order
\* of the dates, clamped or not.
THEOREM AddMonthsMonotonic ==
    ASSUME NEW x \in Date, NEW y \in Date, NEW n \in Nat, NotAfter(x, y)
    PROVE  NotAfter(AddMonths(x, n), AddMonths(y, n))
<1>1. /\ x.month \in Nat /\ y.month \in Nat
      /\ x.day \in 1..31 /\ y.day \in 1..31
  BY DEF Date
<1>2. /\ AddMonths(x, n).month = x.month + n
      /\ AddMonths(y, n).month = y.month + n
      /\ AddMonths(x, n).day = Clamp(x.day, x.month + n)
      /\ AddMonths(y, n).day = Clamp(y.day, y.month + n)
  BY AddMonthsType
<1>3. CASE x.month < y.month
  <2>1. AddMonths(x, n).month < AddMonths(y, n).month
    BY <1>1, <1>2, <1>3
  <2> QED
    BY <2>1 DEF NotAfter
<1>4. CASE x.month = y.month /\ x.day <= y.day
  <2>1. Clamp(x.day, x.month + n) <= Clamp(y.day, x.month + n)
    <3>1. DaysIn(x.month + n) \in 28..31
      BY <1>1, DaysInRange
    <3> QED
      BY <1>1, <1>4, <3>1 DEF Clamp
  <2>2. /\ AddMonths(x, n).month = AddMonths(y, n).month
        /\ AddMonths(x, n).day <= AddMonths(y, n).day
    BY <1>2, <1>4, <2>1
  <2> QED
    BY <2>2 DEF NotAfter
<1> QED
  BY <1>3, <1>4 DEF NotAfter

\* The next day is later, and no later than the day a month or more from now.
LEMMA NextDayFacts ==
    ASSUME NEW x \in Date, NEW n \in Nat \ {0}
    PROVE  /\ NotAfter(x, NextDay(x))
           /\ NotAfter(NextDay(x), AddMonths(x, n))
<1>1. /\ x.month \in Nat /\ x.day \in 1..31
      /\ DaysIn(x.month) \in 28..31
  BY DaysInRange DEF Date
<1>2. Clamp(x.day, x.month + n) \in 1..31
  BY <1>1, ClampRange
<1>3. AddMonths(x, n).month = x.month + n /\ AddMonths(x, n).day \in 1..31
  BY <1>2, AddMonthsType
<1>4. NextDay(x).month \in {x.month, x.month + 1}
      /\ (NextDay(x).month = x.month => NextDay(x).day = x.day + 1)
      /\ (NextDay(x).month = x.month + 1 => NextDay(x).day = 1)
  <2>1. CASE x.day < DaysIn(x.month)
    <3>1. NextDay(x) = [x EXCEPT !.day = x.day + 1]
      BY <2>1 DEF NextDay
    <3> QED
      BY <1>1, <3>1 DEF Date
  <2>2. CASE ~(x.day < DaysIn(x.month))
    BY <1>1, <2>2 DEF NextDay
  <2> QED
    BY <2>1, <2>2
<1> QED
  BY <1>1, <1>3, <1>4 DEF NotAfter

\* A day no later than d, and no less than d or than 28, is what it was before
\* when it is clamped to another month, or up to three days less.
THEOREM ClampingCostsThreeDays ==
    ASSUME NEW d \in 1..31, NEW m \in Nat, NEW k \in Nat
    PROVE  /\ Clamp(d, k) - Clamp(Clamp(d, m), k) \in 0..3
           /\ d <= 28 => Clamp(Clamp(d, m), k) = Clamp(d, k)
<1>1. DaysIn(m) \in 28..31 /\ DaysIn(k) \in 28..31
  BY DaysInRange
<1> QED
  BY <1>1 DEF Clamp

-----------------------------------------------------------------------------
(***************************************************************************)
(* The orders                                                              *)
(***************************************************************************)
\* The periods are numbers of months, none of them zero.
LEMMA PeriodsAreNat ==
    ASSUME NEW n \in Periods
    PROVE  n \in Nat \ {0}
  BY TermsAssumption DEF SupportedBillingMonths

\* The first period of an order is one of the periods.
LEMMA InitialMonthsType ==
    ASSUME TypeOK, NEW used \in BOOLEAN
    PROVE  InitialMonths(used) \in Periods
  BY DEF TypeOK, PlanRow, InitialMonths

\* The next charge of a rule is on a day of the calendar, in the month that
\* follows the last one by the period of the rule.
LEMMA NextChargeType ==
    ASSUME TypeOK, RuleInv, rule # None
    PROVE  /\ NextCharge \in Date
           /\ NextCharge.month = rule.next.month + rule.months
           /\ anchored => NextCharge = AddMonths(rule.first, (rule.nr + 1) * rule.months)
           /\ ~anchored => NextCharge = AddMonths(rule.next, rule.months)
<1>1. /\ rule \in RuleRow /\ rule.first \in Date /\ rule.next \in Date
      /\ rule.months \in Nat /\ rule.nr \in Nat
  BY PeriodsAreNat DEF TypeOK, RuleRow
<1>2. rule.first.month \in Nat
  BY <1>1 DEF Date
<1>3. rule.next.month = rule.first.month + rule.nr * rule.months
  BY DEF RuleInv
<1>4. /\ rule.nr * rule.months \in Nat
      /\ (rule.nr + 1) * rule.months = rule.nr * rule.months + rule.months
  BY <1>1
<1>5. (rule.nr + 1) * rule.months \in Nat
  BY <1>1, <1>4
<1>6. CASE anchored
  <2>1. NextCharge = AddMonths(rule.first, (rule.nr + 1) * rule.months)
    BY <1>6 DEF NextCharge
  <2>2. /\ NextCharge \in Date
        /\ NextCharge.month = rule.first.month + (rule.nr + 1) * rule.months
    BY <2>1, <1>1, <1>5, AddMonthsType
  <2> QED
    BY <2>1, <2>2, <1>1, <1>2, <1>3, <1>4, <1>6
<1>7. CASE ~anchored
  <2>1. NextCharge = AddMonths(rule.next, rule.months)
    BY <1>7 DEF NextCharge
  <2> QED
    BY <2>1, <1>7, <1>1, AddMonthsType
<1> QED
  BY <1>6, <1>7

-----------------------------------------------------------------------------
(***************************************************************************)
(* Type correctness                                                        *)
(***************************************************************************)
\* TypeOK needs RuleInv for the day of the next charge, and no more.
LEMMA TypeStep ==
    ASSUME TypeOK, RuleInv, [Next]_vars
    PROVE  TypeOK'
<1> USE TermsAssumption
<1>1. CASE \E p \in Prices : UpdatePrice(p)
  BY <1>1 DEF UpdatePrice, ChangePlan, TypeOK, PlanRow
<1>2. CASE \E n \in Periods : UpdateDuration(n)
  BY <1>2 DEF UpdateDuration, ChangePlan, TypeOK, PlanRow
<1>3. CASE \E p \in Prices \cup {None}, n \in Periods : ConfigureTrial(p, n)
  BY <1>3 DEF ConfigureTrial, ChangePlan, TypeOK, PlanRow
<1>4. CASE ArchivePlan
  BY <1>4 DEF ArchivePlan, ChangePlan, TypeOK, PlanRow
<1>5. CASE RestorePlan
  BY <1>5 DEF RestorePlan, ChangePlan, TypeOK, PlanRow
<1>6. CASE SwitchTestMode
  BY <1>6 DEF SwitchTestMode, TypeOK
<1>7. CASE ReadTestMode
  BY <1>7 DEF ReadTestMode, TypeOK
<1>8. CASE CreateCheckout
  <2> PICK used \in BOOLEAN : checkout' = IF plan.active THEN NewCheckout(used) ELSE None
    BY <1>8 DEF CreateCheckout
  <2>1. DateNext(used) \in Date
    BY InitialMonthsType, PeriodsAreNat, AddMonthsType DEF DateNext, TypeOK
  <2>2. (IF UsesTrial(used) THEN plan.trial ELSE plan.price) \in Prices
    BY DEF UsesTrial, TypeOK, PlanRow
  <2>3. request # None => request \in {"live", "test"}
    BY DEF TypeOK
  <2>4. checkout' \in CheckoutRow \cup {None}
    BY <1>8, <2>1, <2>2, <2>3, InitialMonthsType
    DEF CreateCheckout, NewCheckout, CheckoutRow, TypeOK, PlanRow
  <2> QED
    BY <1>8, <2>4 DEF CreateCheckout, TypeOK
<1>9. CASE PayCheckout
  <2>1. checkout \in CheckoutRow
    BY <1>9 DEF PayCheckout, TypeOK
  <2>2. AddMonths(today, checkout.initial_months) \in Date
    BY <2>1, PeriodsAreNat, AddMonthsType DEF TypeOK, CheckoutRow
  <2>3. checkout' \in CheckoutRow
    BY <1>9, <2>1 DEF PayCheckout, CheckoutRow
  <2>4. sub' \in SubRow \cup {None}
    BY <1>9, <2>1, <2>2 DEF PayCheckout, CheckoutRow, SubRow, TypeOK
  <2>5. rule' \in RuleRow \cup {None}
    BY <1>9, <2>1 DEF PayCheckout, NewRule, CheckoutRow, RuleRow, TypeOK
  <2>6. refused' \in Nat
    BY <1>9 DEF PayCheckout, Counted, TypeOK
  <2> QED
    BY <1>9, <2>3, <2>4, <2>5, <2>6 DEF PayCheckout, TypeOK
<1>10. CASE ChargeRule
  <2>1. rule \in RuleRow /\ rule # None
    BY <1>10 DEF ChargeRule, ChargeIsDue, TypeOK
  <2>2. rule' \in RuleRow
    <3>1. rule' = [rule EXCEPT !.nr = @ + 1, !.next = NextCharge]
      BY <1>10 DEF ChargeRule
    <3>2. NextCharge \in Date
      BY <2>1, NextChargeType
    <3>3. rule.nr + 1 \in Nat
      BY <2>1 DEF RuleRow
    <3> QED
      BY <2>1, <3>1, <3>2, <3>3 DEF RuleRow
  <2>3. sub \in SubRow
    BY <2>1 DEF RuleInv, TypeOK
  <2>4. AddMonths(RenewedFrom, RenewedMonths) \in Date
    BY <2>3, PeriodsAreNat, AddMonthsType, LaterFacts
    DEF RenewedFrom, RenewedMonths, SubRow, TypeOK
  <2>5. sub' \in SubRow
    BY <1>10, <2>3, <2>4 DEF ChargeRule, SubRow
  <2>6. renewals' \in Nat /\ refused' \in Nat
    BY <1>10 DEF ChargeRule, Counted, TypeOK
  <2> QED
    BY <1>10, <2>2, <2>5, <2>6 DEF ChargeRule, TypeOK
<1>11. CASE Expire
  BY <1>11 DEF Expire, SubRow, TypeOK
<1>12. CASE Tick
  BY <1>12, NextDayType DEF Tick, TypeOK
<1>13. CASE UNCHANGED vars
  BY <1>13 DEF vars, TypeOK
<1> QED
  BY <1>1, <1>2, <1>3, <1>4, <1>5, <1>6, <1>7, <1>8, <1>9, <1>10, <1>11,
     <1>12, <1>13 DEF Next

-----------------------------------------------------------------------------
(***************************************************************************)
(* The inductive invariant                                                 *)
(***************************************************************************)
IInv ==
    /\ TypeOK
    /\ CheckoutInv /\ RuleInv /\ DriftInv
    /\ AgreedTermsStand /\ TrialIsADiscount /\ MonthsAreExact /\ PaidMembersStay

\* The steps of the administrators, none of which reaches an order.
AdminStep ==
    UNCHANGED <<today, request, checkout, sub, rule, anchored, renewals, refused>>

\* What an administrator does leaves every order as it was agreed.
LEMMA AdminKeeps ==
    ASSUME IInv, TypeOK', AdminStep
    PROVE  IInv'
  BY DEF IInv, AdminStep, CheckoutInv, RuleInv, DriftInv, AgreedTermsStand,
         TrialIsADiscount, MonthsAreExact, PaidMembersStay, ChargesComeInTime,
         MayDrift

\* The facts of the types that the steps below need.
LEMMA RowFacts ==
    ASSUME TypeOK
    PROVE  /\ checkout # None =>
                 /\ checkout \in CheckoutRow
                 /\ checkout.created \in Date /\ checkout.date_next \in Date
                 /\ checkout.initial_months \in Nat \ {0}
                 /\ checkout.billing_months \in Nat \ {0}
                 /\ checkout.mode \in {"live", "test"}
           /\ sub # None =>
                 /\ sub \in SubRow
                 /\ sub.start \in Date /\ sub.period_end \in Date
                 /\ sub.months \in Nat \ {0}
           /\ rule # None =>
                 /\ rule \in RuleRow
                 /\ rule.first \in Date /\ rule.next \in Date
                 /\ rule.months \in Nat \ {0} /\ rule.nr \in Nat
           /\ today \in Date /\ renewals \in Nat
<1>1. checkout # None => checkout \in CheckoutRow
  BY DEF TypeOK
<1>2. sub # None => sub \in SubRow
  BY DEF TypeOK
<1>3. rule # None => rule \in RuleRow
  BY DEF TypeOK
<1>4. ASSUME checkout # None
      PROVE  /\ checkout.created \in Date /\ checkout.date_next \in Date
             /\ checkout.initial_months \in Periods
             /\ checkout.billing_months \in Periods
             /\ checkout.mode \in {"live", "test"}
  BY <1>1, <1>4 DEF CheckoutRow
<1>5. ASSUME sub # None
      PROVE  sub.start \in Date /\ sub.period_end \in Date /\ sub.months \in Periods
  BY <1>2, <1>5 DEF SubRow
<1>6. ASSUME rule # None
      PROVE  /\ rule.first \in Date /\ rule.next \in Date
             /\ rule.months \in Periods /\ rule.nr \in Nat
  BY <1>3, <1>6 DEF RuleRow
<1> QED
  BY <1>1, <1>2, <1>3, <1>4, <1>5, <1>6, PeriodsAreNat DEF TypeOK

\* A new order keeps the terms that the tariff has now.
LEMMA CreateKeeps ==
    ASSUME IInv, TypeOK', CreateCheckout
    PROVE  IInv'
<1>1. checkout = None /\ sub = None /\ rule = None /\ renewals = 0 /\ refused = 0
  BY DEF IInv, CheckoutInv, RuleInv, AgreedTermsStand, CreateCheckout
<1>2. /\ UNCHANGED <<today, sub, rule, anchored, renewals, refused>>
      /\ request' = None
  BY DEF CreateCheckout
<1> PICK used \in BOOLEAN : checkout' = IF plan.active THEN NewCheckout(used) ELSE None
  BY DEF CreateCheckout
<1>3. checkout' # None =>
         /\ checkout'.created = today
         /\ checkout'.date_next = AddMonths(today, checkout'.initial_months)
         /\ checkout'.initial_months = InitialMonths(used)
         /\ checkout'.billing_months = plan.months
         /\ checkout'.recurring_amount = plan.price
         /\ checkout'.amount = (IF UsesTrial(used) THEN plan.trial ELSE plan.price)
  BY DEF NewCheckout, DateNext
<1>4. CheckoutInv'
  BY <1>1, <1>2, <1>3, NotAfterOrder DEF CheckoutInv, IInv, TypeOK
<1>5. TrialIsADiscount'
  <2>1. plan.price \in Nat /\ (plan.trial # None => plan.trial \in Nat)
    BY TermsAssumption DEF IInv, TypeOK, PlanRow
  <2>2. CASE UsesTrial(used)
    BY <1>3, <2>1, <2>2 DEF TrialIsADiscount, UsesTrial
  <2>3. CASE ~UsesTrial(used)
    BY <1>3, <2>1, <2>3 DEF TrialIsADiscount, InitialMonths
  <2> QED
    BY <2>2, <2>3
<1> QED
  BY <1>1, <1>2, <1>4, <1>5
  DEF IInv, RuleInv, DriftInv, AgreedTermsStand, MonthsAreExact, PaidMembersStay

\* The payment of an order opens a period that its rule continues in time: the
\* rule starts when the period would end if the order had been paid at once.
LEMMA PayKeeps ==
    ASSUME IInv, TypeOK', PayCheckout
    PROVE  IInv'
<1>1. /\ checkout # None /\ ~checkout.paid
      /\ checkout \in CheckoutRow
      /\ checkout.created \in Date /\ today \in Date
      /\ checkout.initial_months \in Nat \ {0}
      /\ sub = None /\ rule = None /\ renewals = 0
  BY RowFacts DEF PayCheckout, IInv, CheckoutInv, RuleInv
<1>2. /\ checkout' = [checkout EXCEPT !.paid = TRUE]
      /\ NotAfter(today, NextDay(checkout.created))
      /\ UNCHANGED <<today, request, anchored, renewals, refused>>
  BY DEF PayCheckout, Accepted, VerifiedWith, Counted
<1>3. checkout' \in CheckoutRow /\ checkout' # None
  BY <1>1, <1>2, NoneAssumption DEF CheckoutRow
<1>4. /\ checkout'.paid
      /\ checkout'.created = checkout.created
      /\ checkout'.date_next = checkout.date_next
      /\ checkout'.initial_months = checkout.initial_months
      /\ checkout'.billing_months = checkout.billing_months
      /\ checkout'.recurring_amount = checkout.recurring_amount
      /\ checkout'.amount = checkout.amount
      /\ checkout'.mode = checkout.mode
  BY <1>1, <1>2 DEF CheckoutRow
<1>5. sub' = [active     |-> TRUE,
              amount     |-> checkout.recurring_amount,
              months     |-> checkout.billing_months,
              start      |-> today,
              period_end |-> AddMonths(today, checkout.initial_months)]
  BY DEF PayCheckout, Accepted, VerifiedWith
<1>6. rule' = NewRule
  BY DEF PayCheckout, Accepted, VerifiedWith
<1>7. sub' # None
  <2>1. AddMonths(today, checkout.initial_months) \in Date
    BY <1>1, AddMonthsType
  <2>2. sub' \in SubRow
    BY <1>1, <1>5, <2>1 DEF SubRow, CheckoutRow
  <2> QED
    BY <2>2, NoneAssumption
<1>8. CheckoutInv'
  BY <1>1, <1>2, <1>4, <1>5, <1>7, <1>3 DEF CheckoutInv, IInv
<1>9. NotAfter(today, checkout.date_next)
  <2>1. NotAfter(NextDay(checkout.created), checkout.date_next)
    BY <1>1, NextDayFacts DEF IInv, CheckoutInv
  <2>2. NextDay(checkout.created) \in Date /\ checkout.date_next \in Date
    BY <1>1, NextDayType, RowFacts DEF IInv
  <2> QED
    BY <1>1, <1>2, <2>1, <2>2, NotAfterOrder
<1>10. NotAfter(checkout.date_next, sub'.period_end)
  BY <1>1, <1>5, AddMonthsMonotonic DEF IInv, CheckoutInv
<1>11. rule' # None =>
          /\ rule'.amount = checkout.recurring_amount
          /\ rule'.months = checkout.billing_months
          /\ rule'.first = checkout.date_next
          /\ rule'.next = checkout.date_next
          /\ rule'.nr = 0
  BY <1>6 DEF NewRule
<1>12. checkout.mode = "live" => rule' # None
  BY <1>1, <1>6, NoneAssumption, RowFacts
  DEF NewRule, RuleRow, CheckoutRow, IInv
<1>13. AddMonths(checkout.date_next, 0) = checkout.date_next
  <2>1. checkout.date_next \in Date
    BY <1>1, RowFacts DEF IInv
  <2> QED
    BY <2>1 DEF AddMonths, Clamp, Date
<1>14. RuleInv'
  <2>1. checkout.date_next.month \in Nat /\ checkout.billing_months \in Nat
    BY <1>1, RowFacts DEF IInv, Date
  <2>2. /\ 0 * checkout.billing_months = 0
        /\ checkout.date_next.month + 0 = checkout.date_next.month
    BY <2>1
  <2> QED
    BY <1>1, <1>2, <1>4, <1>5, <1>7, <1>9, <1>11, <1>12, <1>13, <2>2 DEF RuleInv
<1>15. DriftInv'
  BY <1>10, <1>11 DEF DriftInv
<1>16. MonthsAreExact'
  <2>1. sub'.period_end.month = today.month + checkout.initial_months
    BY <1>1, <1>5 DEF AddMonths
  <2>2. today.month \in Nat /\ checkout.billing_months \in Nat
    BY <1>1, RowFacts DEF IInv, Date
  <2> QED
    BY <1>1, <1>2, <1>4, <1>5, <2>1, <2>2 DEF MonthsAreExact
<1>17. TrialIsADiscount' /\ AgreedTermsStand' /\ PaidMembersStay'
  BY <1>1, <1>2, <1>4, <1>5, <1>7, <1>11
  DEF IInv, TrialIsADiscount, AgreedTermsStand, PaidMembersStay
<1> QED
  BY <1>8, <1>14, <1>15, <1>16, <1>17 DEF IInv

\* A charge finds the paid-through date in the month of its own day or later, and
\* moves both by the same number of months: what the two lose at the ends of the
\* months is never more than the three days from the 28th to the 31st.
LEMMA ChargeKeeps ==
    ASSUME IInv, TypeOK', ChargeRule
    PROVE  IInv'
<1>1. /\ rule # None /\ sub # None /\ sub.active /\ checkout # None
      /\ rule.nr < RegularCount /\ rule.next = today
      /\ rule.amount = sub.amount /\ rule.months = sub.months
      /\ rule.nr = renewals
  BY DEF ChargeRule, ChargeIsDue, IInv, RuleInv, CheckoutInv
<1>2. /\ rule \in RuleRow /\ sub \in SubRow
      /\ rule.first \in Date /\ rule.next \in Date /\ sub.period_end \in Date
      /\ sub.start \in Date /\ today \in Date
      /\ sub.months \in Nat \ {0} /\ rule.nr \in Nat /\ renewals \in Nat
      /\ checkout.initial_months \in Nat
  BY <1>1, RowFacts DEF IInv
<1>3. /\ rule' = [rule EXCEPT !.nr = @ + 1, !.next = NextCharge]
      /\ sub' = [sub EXCEPT !.period_end = AddMonths(RenewedFrom, RenewedMonths)]
      /\ renewals' = renewals + 1
      /\ UNCHANGED <<today, request, checkout, anchored, refused>>
  BY <1>1 DEF ChargeRule, Accepted, VerifiedWith, Counted
<1>4. rule' # None /\ sub' # None
  <2>1. NextCharge \in Date /\ rule.nr + 1 \in Nat
    BY <1>1, <1>2, NextChargeType DEF IInv
  <2>2. rule' \in RuleRow
    BY <1>2, <1>3, <2>1 DEF RuleRow
  <2>3. RenewedFrom \in Date /\ RenewedMonths \in Nat
    BY <1>2, LaterFacts DEF RenewedFrom, RenewedMonths
  <2>4. AddMonths(RenewedFrom, RenewedMonths) \in Date
    BY <2>3, AddMonthsType
  <2>5. sub' \in SubRow
    BY <1>2, <1>3, <2>4 DEF SubRow
  <2> QED
    BY <2>2, <2>5, NoneAssumption
<1> DEFINE base == RenewedFrom
<1>5. /\ rule'.nr = rule.nr + 1 /\ rule'.next = NextCharge
      /\ rule'.first = rule.first /\ rule'.months = rule.months
      /\ rule'.amount = rule.amount
  BY <1>2, <1>3 DEF RuleRow
<1>6. /\ sub'.period_end = AddMonths(base, sub.months)
      /\ sub'.active = sub.active /\ sub'.amount = sub.amount
      /\ sub'.months = sub.months /\ sub'.start = sub.start
  BY <1>2, <1>3 DEF SubRow, RenewedMonths
<1>7. /\ base \in Date
      /\ NotAfter(today, base)
      /\ base.month = sub.period_end.month
  <2>1. /\ base \in {sub.period_end, today}
        /\ NotAfter(today, base) /\ NotAfter(sub.period_end, base)
    BY <1>2, LaterFacts DEF RenewedFrom
  <2>2. NotAfter(today, sub.period_end) \/ today.month = sub.period_end.month
    BY <1>1 DEF IInv, DriftInv
  <2>3. base = today => base.month = sub.period_end.month
    BY <1>2, <2>1, <2>2, NotAfterOrder
  <2> QED
    BY <1>2, <2>1, <2>3
<1>8. /\ NextCharge \in Date
      /\ NextCharge.month = today.month + sub.months
      /\ anchored => NextCharge = AddMonths(rule.first, (rule.nr + 1) * rule.months)
      /\ ~anchored => NextCharge = AddMonths(today, sub.months)
  BY <1>1, NextChargeType DEF IInv
<1> HIDE DEF base
<1>9. /\ sub'.period_end \in Date
      /\ sub'.period_end.month = base.month + sub.months
      /\ sub'.period_end.day = Clamp(base.day, base.month + sub.months)
  <2>1. sub.months \in Nat
    BY <1>2
  <2> QED
    BY <1>6, <1>7, <2>1, AddMonthsType
<1>10. /\ today.month \in Nat /\ base.month \in Nat
       /\ today.day \in 1..31 /\ base.day \in 1..31 /\ rule.first.day \in 1..31
       /\ rule.first.month \in Nat
  BY <1>2, <1>7 DEF Date
<1>11. CheckoutInv'
  BY <1>1, <1>3, <1>4, <1>6 DEF CheckoutInv, IInv
<1>12. (rule.nr + 1) * rule.months = rule.nr * rule.months + rule.months
  BY <1>1, <1>2
<1>13. RuleInv'
  <2>1. NextCharge.month = rule.first.month + (rule.nr + 1) * rule.months
    <3>1. today.month = rule.first.month + rule.nr * rule.months
      BY <1>1 DEF IInv, RuleInv
    <3>2. rule.nr * rule.months \in Nat
      BY <1>1, <1>2
    <3> QED
      BY <1>1, <1>2, <1>8, <1>10, <1>12, <3>1, <3>2
  <2>2. NotAfter(today, NextCharge)
    BY <1>2, <1>8, <1>10 DEF NotAfter
  <2>3. rule.first = checkout.date_next
    BY <1>1 DEF IInv, RuleInv
  <2> QED
    BY <1>1, <1>3, <1>4, <1>5, <1>6, <1>8, <2>1, <2>2, <2>3 DEF RuleInv
<1>14. DriftInv'
  <2>1. CASE ~anchored
    <3>1. NotAfter(NextCharge, sub'.period_end)
      BY <2>1, <1>2, <1>6, <1>7, <1>8, AddMonthsMonotonic
    <3> QED
      BY <3>1, <1>4, <1>5 DEF DriftInv
  <2>2. CASE anchored /\ today.month < base.month
    <3>1. NotAfter(NextCharge, sub'.period_end)
      BY <2>2, <1>2, <1>8, <1>9, <1>10 DEF NotAfter
    <3> QED
      BY <3>1, <1>4, <1>5 DEF DriftInv
  <2>3. CASE anchored /\ today.month = base.month
    <3> DEFINE m == today.month
               k == today.month + sub.months
               d == rule.first.day
    <3>1. m \in Nat /\ k \in Nat /\ d \in 1..31
      BY <1>2, <1>10
    <3>2. today.day = Clamp(d, m)
      <4>1. today = AddMonths(rule.first, rule.nr * rule.months)
        BY <2>3, <1>1 DEF IInv, RuleInv
      <4>2. rule.nr * rule.months \in Nat
        BY <1>1, <1>2
      <4>3. /\ today.month = rule.first.month + rule.nr * rule.months
            /\ today.day = Clamp(d, rule.first.month + rule.nr * rule.months)
        BY <1>2, <4>1, <4>2, AddMonthsType
      <4> QED
        BY <4>3
    <3>3. NextCharge.day = Clamp(d, k) /\ NextCharge.month = k
      <4>1. (rule.nr + 1) * rule.months \in Nat
        BY <1>1, <1>2
      <4>2. /\ NextCharge.month = rule.first.month + (rule.nr + 1) * rule.months
            /\ NextCharge.day = Clamp(d, rule.first.month + (rule.nr + 1) * rule.months)
        <5>1. NextCharge = AddMonths(rule.first, (rule.nr + 1) * rule.months)
          BY <2>3, <1>8
        <5> QED
          BY <5>1, <1>2, <4>1, AddMonthsType
      <4> QED
        BY <4>2, <1>8
    <3>4. sub'.period_end.month = k /\ sub'.period_end.day = Clamp(base.day, k)
      BY <2>3, <1>9
    <3>5. Clamp(d, m) \in 1..31 /\ Clamp(d, m) <= base.day
      BY <2>3, <3>1, <3>2, <1>7, <1>10, ClampRange DEF NotAfter
    <3> HIDE DEF m, k, d
    <3>6. Clamp(Clamp(d, m), k) <= Clamp(base.day, k)
      BY <3>1, <3>5, <1>10, DaysInRange DEF Clamp
    <3>7. /\ Clamp(d, k) \in 1..31 /\ Clamp(base.day, k) \in 1..31
          /\ Clamp(Clamp(d, m), k) \in 1..31
          /\ Clamp(d, k) - Clamp(Clamp(d, m), k) \in 0..3
          /\ d <= 28 => Clamp(Clamp(d, m), k) = Clamp(d, k)
      BY <3>1, <3>5, <1>10, ClampRange, ClampingCostsThreeDays
    <3>8. Clamp(d, k) - Clamp(base.day, k) <= 3
      BY <3>6, <3>7
    <3>9. CASE d <= 28
      <4>1. NotAfter(NextCharge, sub'.period_end)
        BY <3>9, <3>3, <3>4, <3>6, <3>7, <3>1 DEF NotAfter
      <4> QED
        BY <4>1, <1>4, <1>5 DEF DriftInv
    <3>10. CASE d > 28
      <4>1. MayDrift'
        BY <3>10, <2>3, <1>3, <1>5 DEF MayDrift, d
      <4> QED
        BY <4>1, <3>3, <3>4, <3>8, <1>5 DEF DriftInv
    <3> QED
      BY <3>1, <3>9, <3>10
  <2> QED
    BY <2>1, <2>2, <2>3, <1>7, <1>10 DEF NotAfter
<1>15. MonthsAreExact'
  <2>1. (renewals + 1) * sub.months = renewals * sub.months + sub.months
    <3>1. renewals \in Int /\ sub.months \in Int
      BY <1>2
    <3>2. \A i, j \in Int : (i + 1) * j = i * j + j
      OBVIOUS
    <3> QED
      BY <3>1, <3>2
  <2>2. /\ sub.period_end.month = sub.start.month + checkout.initial_months
                                      + renewals * sub.months
        /\ sub.start.month \in Nat /\ renewals * sub.months \in Nat
    BY <1>1, <1>2 DEF IInv, MonthsAreExact, Date
  <2> QED
    BY <1>2, <1>3, <1>6, <1>7, <1>9, <2>1, <2>2 DEF MonthsAreExact
<1>16. TrialIsADiscount' /\ AgreedTermsStand' /\ PaidMembersStay'
  BY <1>1, <1>3, <1>4, <1>5, <1>6
  DEF IInv, TrialIsADiscount, AgreedTermsStand, PaidMembersStay
<1> QED
  BY <1>11, <1>13, <1>14, <1>15, <1>16 DEF IInv

\* A member is removed in the days between the paid-through date and a charge
\* that comes late, and only there, while the rule has charges left.
LEMMA ExpireKeeps ==
    ASSUME IInv, TypeOK', Expire
    PROVE  IInv'
<1>1. /\ sub # None /\ sub.active /\ checkout # None /\ sub \in SubRow
      /\ sub.period_end \in Date /\ today \in Date
      /\ AtLeastDaysAfter(today, sub.period_end, Grace)
      /\ NotAfter(sub.period_end, today)
  BY RowFacts DEF Expire, IInv, CheckoutInv
<1>2. /\ sub' = [sub EXCEPT !.active = FALSE] /\ rule' = None
      /\ UNCHANGED <<today, request, checkout, anchored, renewals, refused>>
  BY DEF Expire
<1>3. /\ sub' # None /\ ~sub'.active /\ sub'.amount = sub.amount
      /\ sub'.months = sub.months /\ sub'.start = sub.start
      /\ sub'.period_end = sub.period_end
  BY <1>1, <1>2, NoneAssumption DEF SubRow, IInv, TypeOK
<1>4. CheckoutInv' /\ RuleInv' /\ DriftInv' /\ AgreedTermsStand'
      /\ TrialIsADiscount' /\ MonthsAreExact'
  BY <1>1, <1>2, <1>3
  DEF IInv, CheckoutInv, RuleInv, DriftInv, AgreedTermsStand,
      TrialIsADiscount, MonthsAreExact
<1>5. PaidMembersStay'
  <2> SUFFICES ASSUME checkout.mode = "live", renewals < RegularCount, Grace > 0
               PROVE  anchored /\ checkout.date_next.day > 28 /\ Grace <= 3
    BY <1>2 DEF PaidMembersStay
  <2>1. /\ rule # None /\ rule.next \in Date /\ rule.first = checkout.date_next
        /\ NotAfter(today, rule.next)
    BY <1>1, RowFacts DEF IInv, RuleInv
  <2>2. Grace \in Nat
    BY TermsAssumption
  <2>3. /\ today.month \in Nat /\ today.day \in 1..31
        /\ sub.period_end.month \in Nat /\ sub.period_end.day \in 1..31
        /\ rule.next.month \in Nat /\ rule.next.day \in 1..31
    BY <1>1, <2>1 DEF Date
  <2>4. CASE NotAfter(rule.next, sub.period_end)
    <3>1. NotAfter(today, sub.period_end)
      BY <2>4, <1>1, <2>1, NotAfterOrder
    <3>2. today.month = sub.period_end.month /\ DaysAfter(today, sub.period_end) = 0
      BY <3>1, <1>1, <2>3, NotAfterOrder DEF DaysAfter
    <3> QED
      BY <3>2, <1>1, <2>2, <2>3 DEF AtLeastDaysAfter
  <2>5. CASE /\ MayDrift /\ rule.next.month = sub.period_end.month
             /\ rule.next.day - sub.period_end.day <= 3
    <3>1. today.month = sub.period_end.month /\ today.day <= rule.next.day
      BY <2>5, <1>1, <2>1, <2>3 DEF NotAfter
    <3>2. DaysAfter(today, sub.period_end) <= 3
      BY <3>1, <2>5, <2>3 DEF DaysAfter, NotAfter
    <3>3. DaysAfter(today, sub.period_end) >= Grace
      BY <3>1, <1>1, <2>3 DEF AtLeastDaysAfter
    <3>4. DaysAfter(today, sub.period_end) \in Int
      BY <3>1, <2>3 DEF DaysAfter
    <3> QED
      BY <3>2, <3>3, <3>4, <2>1, <2>2, <2>5 DEF MayDrift
  <2> QED
    BY <2>1, <2>4, <2>5 DEF IInv, DriftInv
<1> QED
  BY <1>4, <1>5 DEF IInv

\* A day ends after the charge that was due on it.
LEMMA TickKeeps ==
    ASSUME IInv, TypeOK', Tick
    PROVE  IInv'
<1>1. /\ today' = NextDay(today) /\ today \in Date
      /\ UNCHANGED <<request, checkout, sub, rule, anchored, renewals, refused>>
      /\ NotAfter(today, today')
      /\ today' \in Date
  BY NextDayFacts, NextDayType DEF Tick, IInv, TypeOK
<1>2. ASSUME rule # None, rule.nr < RegularCount
      PROVE  NotAfter(today', rule.next)
  <2>1. /\ NotAfter(today, rule.next) /\ rule.next # today /\ rule.next \in Date
    BY <1>2, RowFacts DEF Tick, ChargeIsDue, IInv, RuleInv
  <2>2. /\ today \in [month : Nat, day : 1..31]
        /\ rule.next \in [month : Nat, day : 1..31]
        /\ rule.next.day <= DaysIn(rule.next.month)
    BY <1>1, <2>1 DEF Date
  <2>3. DaysIn(today.month) \in 28..31
    BY <2>2, DaysInRange
  <2>4. today.month = rule.next.month => today.day # rule.next.day
    BY <2>1, <2>2
  <2> QED
    BY <1>1, <2>1, <2>2, <2>3, <2>4 DEF NextDay, NotAfter
<1>3. ASSUME checkout # None
      PROVE  NotAfter(checkout.created, today')
  <2>1. checkout.created \in Date /\ NotAfter(checkout.created, today)
    BY <1>3, RowFacts DEF IInv, CheckoutInv
  <2> QED
    BY <1>1, <2>1, NotAfterOrder
<1> QED
  BY <1>1, <1>2, <1>3
  DEF IInv, CheckoutInv, RuleInv, DriftInv, MayDrift, AgreedTermsStand,
      TrialIsADiscount, MonthsAreExact, PaidMembersStay

\* The first read of a request touches no row.
LEMMA ReadKeeps ==
    ASSUME IInv, TypeOK', ReadTestMode
    PROVE  IInv'
  BY DEF ReadTestMode, IInv, CheckoutInv, RuleInv, DriftInv, MayDrift,
         AgreedTermsStand, TrialIsADiscount, MonthsAreExact, PaidMembersStay

-----------------------------------------------------------------------------
(***************************************************************************)
(* The theorems                                                            *)
(***************************************************************************)
LEMMA Initially ==
    ASSUME Init
    PROVE  IInv
<1>1. TypeOK
  BY TermsAssumption DEF Init, TypeOK, PlanRow
<1> QED
  BY <1>1 DEF Init, IInv, CheckoutInv, RuleInv, DriftInv, AgreedTermsStand,
     TrialIsADiscount, MonthsAreExact, PaidMembersStay

\* The invariant is inductive.
LEMMA Inductive ==
    ASSUME IInv, [Next]_vars
    PROVE  IInv'
<1>1. TypeOK'
  BY TypeStep DEF IInv
<1>2. ASSUME \/ \E p \in Prices : UpdatePrice(p)
             \/ \E n \in Periods : UpdateDuration(n)
             \/ \E p \in Prices \cup {None}, n \in Periods : ConfigureTrial(p, n)
             \/ ArchivePlan \/ RestorePlan \/ SwitchTestMode
             \/ UNCHANGED vars
      PROVE  IInv'
  <2>1. AdminStep
    BY <1>2 DEF UpdatePrice, UpdateDuration, ConfigureTrial, ArchivePlan,
       RestorePlan, ChangePlan, SwitchTestMode, AdminStep, vars
  <2> QED
    BY <1>1, <2>1, AdminKeeps
<1> QED
  BY <1>1, <1>2, ReadKeeps, CreateKeeps, PayKeeps, ChargeKeeps, ExpireKeeps,
     TickKeeps DEF Next

\* So it always holds.
LEMMA Always == Spec => []IInv
  BY Initially, Inductive, PTL DEF Spec

\* Every row of the order, the subscription and the rule keeps its shape.
THEOREM TypeCorrect == Spec => []TypeOK
<1>1. IInv => TypeOK
  BY DEF IInv
<1> QED
  BY <1>1, Always, PTL

\* No edit of the tariff and no switch of the test mode reaches an order that
\* was made before: the charges are what the application expects.
THEOREM AgreedTermsAlwaysStand == Spec => []AgreedTermsStand
<1>1. IInv => AgreedTermsStand
  BY DEF IInv
<1> QED
  BY <1>1, Always, PTL

\* A trial is never sold for more than the tariff, whatever the prices become.
THEOREM TrialsAreDiscounts == Spec => []TrialIsADiscount
<1>1. IInv => TrialIsADiscount
  BY DEF IInv
<1> QED
  BY <1>1, Always, PTL

\* Clamping never loses or wins a month, however many renewals there are.
THEOREM MonthsAlwaysExact == Spec => []MonthsAreExact
<1>1. IInv => MonthsAreExact
  BY DEF IInv
<1> QED
  BY <1>1, Always, PTL

\* The provider's dates drift from the paid-through date by three days at the
\* most, over any number of renewals.
THEOREM ChargesAlwaysInTime == Spec => []ChargesComeInTime
<1>1. IInv => ChargesComeInTime
  <2> SUFFICES ASSUME IInv, rule # None
               PROVE  /\ rule.next.month <= sub.period_end.month
                      /\ DaysAfter(rule.next, sub.period_end)
                             <= (IF MayDrift THEN 3 ELSE 0)
    BY DEF ChargesComeInTime
  <2>1. rule.next \in Date /\ sub.period_end \in Date
    BY RowFacts DEF IInv, RuleInv
  <2> QED
    BY <2>1 DEF IInv, DriftInv, DaysAfter, NotAfter, Date
<1> QED
  BY <1>1, Always, PTL

\* A grace period of four days or more keeps every member whose charges succeed.
THEOREM PaidMembersAlwaysStay == Spec => []PaidMembersStay
<1>1. IInv => PaidMembersStay
  BY DEF IInv
<1> QED
  BY <1>1, Always, PTL

=============================================================================
