-------------------------------- MODULE Terms --------------------------------
(***************************************************************************)
(* What a checkout promises and what becomes of it: the tariff as the      *)
(* administrators edit it (services/admin.py), the checkout that copies    *)
(* its terms (create_checkout and the public pages of api.py), and the     *)
(* charges of the recurring rule against the paid-through date.            *)
(*                                                                         *)
(* One order of one tariff is followed here from day to day.  That several *)
(* orders, claims and callbacks overlap is the subject of Billing, and a   *)
(* charge that is refused or not made that of Recurring: here the provider *)
(* charges every time it is due, and the callback comes on the same day.   *)
(***************************************************************************)
EXTENDS Calendar

CONSTANTS
    Prices,        \* what an administrator may enter as a price
    Periods,       \* the billing periods in use, in months
    StartDates,    \* the days the story may begin on
    Grace,         \* payment_grace_period_hours, in days
    RegularCount,  \* charges the recurring rule is good for
    None,          \* NULL
    MaxMonth       \* bound on the calendar

ASSUME TermsAssumption ==
    /\ Prices \subseteq Nat \ {0}
    /\ 1 \in Periods /\ Periods \subseteq SupportedBillingMonths
    /\ StartDates \subseteq Date
    /\ Grace \in 0..27
    /\ RegularCount \in Nat /\ MaxMonth \in Nat
    /\ None \notin Nat
    /\ None \notin {"live", "test"}

VARIABLES
    today,      \* the calendar
    plan,       \* the row of plans
    test_mode,  \* TRUE within the window of wayforpay_test_mode_until
    request,    \* the mode a checkout request has read, between its two reads
    checkout,   \* the row of checkout_sessions
    sub,        \* the row of subscriptions
    rule,       \* the provider's recurring rule
    anchored,   \* TRUE: the provider counts its dates from the first, not the last
    renewals,   \* history: charges of the rule that were accepted
    refused     \* history: callbacks of the order that were not accepted

vars == <<today, plan, test_mode, request, checkout, sub, rule, anchored,
          renewals, refused>>

-----------------------------------------------------------------------------
(***************************************************************************)
(* Rows                                                                    *)
(***************************************************************************)
PlanRow ==
    [active : BOOLEAN, price : Prices, months : Periods,
     trial  : Prices \cup {None}, trial_months : Periods]

\* The mode stands for the prefix of the reference, CLUB or TEST.
CheckoutRow ==
    [mode : {"live", "test"}, amount : Prices, recurring_amount : Prices,
     initial_months : Periods, billing_months : Periods,
     created : Date, date_next : Date, paid : BOOLEAN]

SubRow ==
    [active : BOOLEAN, amount : Prices, months : Periods,
     start : Date, period_end : Date]

\* What build_purchase_payload asks of the provider.
RuleRow == [amount : Prices, months : Periods, first : Date, next : Date, nr : Nat]

\* NULL is not a row.
ASSUME NoneAssumption ==
    None \notin CheckoutRow /\ None \notin SubRow /\ None \notin RuleRow

Init ==
    /\ today \in StartDates
    /\ plan \in [active : {TRUE}, price : Prices, months : Periods,
                 trial : {None}, trial_months : {1}]
    /\ test_mode = FALSE
    /\ request = None
    /\ checkout = None
    /\ sub = None
    /\ rule = None
    /\ anchored \in BOOLEAN
    /\ renewals = 0
    /\ refused = 0

-----------------------------------------------------------------------------
(***************************************************************************)
(* The administrators                                                      *)
(***************************************************************************)
ChangePlan(row) ==
    /\ plan' = row
    /\ UNCHANGED <<today, test_mode, request, checkout, sub, rule, anchored,
                   renewals, refused>>

\* update_plan does not look at the trial: the price may fall below it.
UpdatePrice(p) == ChangePlan([plan EXCEPT !.price = p])
UpdateDuration(n) == ChangePlan([plan EXCEPT !.months = n])

\* The first amount is smaller than the price, or there is no trial.
ConfigureTrial(p, n) ==
    /\ plan.active
    /\ p # None => p < plan.price
    /\ ChangePlan([plan EXCEPT !.trial = p, !.trial_months = n])

ArchivePlan == plan.active /\ ChangePlan([plan EXCEPT !.active = FALSE])
RestorePlan == ~plan.active /\ ChangePlan([plan EXCEPT !.active = TRUE])

\* The test window is opened, and it is closed by hand or when its time is up.
SwitchTestMode ==
    /\ test_mode' = ~test_mode
    /\ UNCHANGED <<today, plan, request, checkout, sub, rule, anchored,
                   renewals, refused>>

-----------------------------------------------------------------------------
(***************************************************************************)
(* The checkout                                                            *)
(***************************************************************************)
\* The request reads the switch first and the tariff in a later transaction.
ReadTestMode ==
    /\ checkout = None
    /\ request = None
    /\ request' = IF test_mode THEN "test" ELSE "live"
    /\ UNCHANGED <<today, plan, test_mode, checkout, sub, rule, anchored,
                   renewals, refused>>

\* Faulty variant: an old trial is offered whatever the price has become.
UsesTrialAlways(used) == plan.trial # None /\ ~used

\* The trial is looked at again when it is offered, and an account that is known to
\* have paid for one, in an order that is not followed here, is not offered another.
UsesTrial(used) == plan.trial # None /\ plan.trial < plan.price /\ ~used

InitialMonths(used) == IF UsesTrial(used) THEN plan.trial_months ELSE plan.months

\* Faulty variant: the rule starts one ordinary period after the order.
DateNextOfPlan(used) == AddMonths(today, plan.months)

\* The rule starts when the first period of an order paid at once ends.
DateNext(used) == AddMonths(today, InitialMonths(used))

NewCheckout(used) ==
    [mode             |-> request,
     amount           |-> IF UsesTrial(used) THEN plan.trial ELSE plan.price,
     recurring_amount |-> plan.price,
     initial_months   |-> InitialMonths(used),
     billing_months   |-> plan.months,
     created          |-> today,
     date_next        |-> DateNext(used),
     paid             |-> FALSE]

\* An archived tariff is not found, and the request ends with that answer.
CreateCheckout ==
    /\ request # None
    /\ request' = None
    /\ \E used \in BOOLEAN :
          checkout' = IF plan.active THEN NewCheckout(used) ELSE None
    /\ UNCHANGED <<today, plan, test_mode, sub, rule, anchored, renewals, refused>>

-----------------------------------------------------------------------------
(***************************************************************************)
(* The provider and its callbacks                                          *)
(***************************************************************************)
\* Faulty variant: the switch decides which key a callback is verified with.
VerifiedWithSwitch == IF test_mode THEN "test" ELSE "live"

\* The reference of the order decides which key a callback is verified with.
VerifiedWith == checkout.mode

\* The rule that the paid form sets up; the test merchant does not create one.
NewRule ==
    IF checkout.mode = "test" THEN None ELSE
       [amount |-> checkout.recurring_amount,
        months |-> checkout.billing_months,
        first  |-> checkout.date_next,
        next   |-> checkout.date_next,
        nr     |-> 0]

\* The merchant of the order signs its callbacks.
Accepted(amount, expected) == VerifiedWith = checkout.mode /\ amount = expected

Counted(accepted) == refused' = IF accepted THEN refused ELSE refused + 1

\* The form can be paid on the day it was made and on the next one.
PayCheckout ==
    LET accepted == Accepted(checkout.amount, checkout.amount)
    IN  /\ checkout # None
        /\ ~checkout.paid
        /\ NotAfter(today, NextDay(checkout.created))
        /\ checkout' = [checkout EXCEPT !.paid = TRUE]
        /\ sub' = IF ~accepted THEN sub ELSE
              [active     |-> TRUE,
               amount     |-> checkout.recurring_amount,
               months     |-> checkout.billing_months,
               start      |-> today,
               period_end |-> AddMonths(today, checkout.initial_months)]
        /\ rule' = IF ~accepted THEN rule ELSE NewRule
        /\ Counted(accepted)
        /\ UNCHANGED <<today, plan, test_mode, request, anchored, renewals>>

ChargeIsDue == rule # None /\ rule.nr < RegularCount /\ rule.next = today

\* Faulty variant: a renewal is as long as a period of the tariff is now.
RenewedMonthsOfPlan == plan.months

RenewedMonths == sub.months

\* A renewal starts where the last period ends, or now when that was earlier.
RenewedFrom == Later(sub.period_end, today)

NextCharge ==
    IF anchored THEN AddMonths(rule.first, (rule.nr + 1) * rule.months)
    ELSE AddMonths(rule.next, rule.months)

\* The provider takes the recurring amount on its day.
ChargeRule ==
    LET accepted == Accepted(rule.amount, sub.amount)
    IN  /\ ChargeIsDue
        /\ rule' = [rule EXCEPT !.nr = @ + 1, !.next = NextCharge]
        /\ sub' = IF ~accepted THEN sub ELSE
              [sub EXCEPT !.period_end = AddMonths(RenewedFrom, RenewedMonths)]
        /\ renewals' = IF accepted THEN renewals + 1 ELSE renewals
        /\ Counted(accepted)
        /\ UNCHANGED <<today, plan, test_mode, request, checkout, anchored>>

\* The worker removes a member when the grace period is over, and stops the rule.
Expire ==
    /\ sub # None
    /\ sub.active
    /\ AtLeastDaysAfter(today, sub.period_end, Grace)
    /\ NotAfter(sub.period_end, today)
    /\ sub' = [sub EXCEPT !.active = FALSE]
    /\ rule' = None
    /\ UNCHANGED <<today, plan, test_mode, request, checkout, anchored,
                   renewals, refused>>

\* The days before the order are like one another, and no charge is left out.
Tick ==
    /\ checkout # None
    /\ ~ChargeIsDue
    /\ today' = NextDay(today)
    /\ today'.month < MaxMonth
    /\ UNCHANGED <<plan, test_mode, request, checkout, sub, rule, anchored,
                   renewals, refused>>

Next ==
    \/ \E p \in Prices : UpdatePrice(p)
    \/ \E n \in Periods : UpdateDuration(n)
    \/ \E p \in Prices \cup {None}, n \in Periods : ConfigureTrial(p, n)
    \/ ArchivePlan \/ RestorePlan \/ SwitchTestMode
    \/ ReadTestMode \/ CreateCheckout
    \/ PayCheckout \/ ChargeRule \/ Expire
    \/ Tick

Spec == Init /\ [][Next]_vars

-----------------------------------------------------------------------------
(***************************************************************************)
(* Properties                                                              *)
(***************************************************************************)
\* Every variable has the shape of its table.
TypeOK ==
    /\ today \in Date
    /\ plan \in PlanRow
    /\ test_mode \in BOOLEAN
    /\ request \in {None, "live", "test"}
    /\ checkout \in CheckoutRow \cup {None}
    /\ sub \in SubRow \cup {None}
    /\ rule \in RuleRow \cup {None}
    /\ anchored \in BOOLEAN
    /\ renewals \in Nat
    /\ refused \in Nat

\* "Existing checkout and subscription terms do not change when the tariff is
\* edited" and "switching the admin toggle cannot reinterpret an already-created
\* order" (README): whatever the administrators do in the meantime, the provider
\* charges what the application expects, signed with the key it expects, for
\* periods of the length it grants.
AgreedTermsStand ==
    /\ refused = 0
    /\ rule # None => /\ sub # None
                      /\ rule.amount = sub.amount
                      /\ rule.months = sub.months

\* A first amount is smaller than the recurring one or equal to it, and another
\* first period than the tariff's is sold at a discount only, even when the price
\* has fallen below the amount of a trial that was configured before.
TrialIsADiscount ==
    checkout # None =>
        /\ checkout.amount <= checkout.recurring_amount
        /\ checkout.initial_months # checkout.billing_months =>
              checkout.amount < checkout.recurring_amount

\* No month is lost or won in any number of renewals, though the ends of the
\* months are clamped and a charge may come late: the paid-through date lies as
\* many months after the payment as were paid for.
MonthsAreExact ==
    sub # None =>
        sub.period_end.month = sub.start.month + checkout.initial_months
                                   + renewals * sub.months

\* A date that was clamped once: the 31st and its like.
MayDrift == anchored /\ rule.first.day > 28

\* The charge for a period is due when the last one ends or before; a provider
\* that remembers the 31st, which the paid-through date forgets in a shorter
\* month, is up to three days late.
ChargesComeInTime ==
    rule # None =>
        /\ rule.next.month <= sub.period_end.month
        /\ DaysAfter(rule.next, sub.period_end) <= (IF MayDrift THEN 3 ELSE 0)

\* A member whose charges all succeed is removed before the rule is used up only
\* if the provider's dates drift from the application's and the grace period is
\* no longer than the drift.
PaidMembersStay ==
    (/\ sub # None /\ ~sub.active /\ checkout.mode = "live"
     /\ renewals < RegularCount /\ Grace > 0)
        => anchored /\ checkout.date_next.day > 28 /\ Grace <= 3

-----------------------------------------------------------------------------
(***************************************************************************)
(* Why the charges come in time: an inductive invariant                    *)
(***************************************************************************)
\* A request comes before the checkout, and nothing follows without one.
CheckoutInv ==
    /\ request # None => checkout = None
    /\ checkout # None =>
          /\ NotAfter(checkout.created, today)
          /\ checkout.date_next = AddMonths(checkout.created, checkout.initial_months)
    /\ checkout = None => sub = None
    /\ sub # None =>
          /\ checkout.paid
          /\ sub.months = checkout.billing_months
          /\ sub.amount = checkout.recurring_amount
          /\ NotAfter(checkout.created, sub.start)
    /\ checkout # None /\ sub = None => renewals = 0
    /\ checkout = None => renewals = 0

\* The rule follows the order's terms, and no charge of it has been left out.
RuleInv ==
    /\ sub # None /\ sub.active /\ checkout.mode = "live" => rule # None
    /\ rule # None =>
          /\ sub # None /\ sub.active
          /\ rule.amount = sub.amount /\ rule.months = sub.months
          /\ rule.first = checkout.date_next
          /\ rule.nr = renewals
          /\ rule.next.month = rule.first.month + rule.nr * rule.months
          /\ anchored => rule.next = AddMonths(rule.first, rule.nr * rule.months)
          /\ rule.nr < RegularCount => NotAfter(today, rule.next)

\* The next charge is not after the paid-through date, or it is in the same month
\* and a few days later, since a shorter month has clamped that date.
DriftInv ==
    rule # None =>
        \/ NotAfter(rule.next, sub.period_end)
        \/ /\ MayDrift
           /\ rule.next.month = sub.period_end.month
           /\ rule.next.day - sub.period_end.day <= 3

=============================================================================
