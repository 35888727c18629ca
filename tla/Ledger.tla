------------------------------- MODULE Ledger -------------------------------
(***************************************************************************)
(* What the payments of the club promise, without callbacks, claims, row   *)
(* locks or operators: a subscription is opened by a first payment, every  *)
(* later payment is credited to one subscription at most, once and for     *)
(* good, and the paid-through date moves by what was credited and by       *)
(* nothing else (README.md, "Current capabilities").  Billing implements   *)
(* this specification.                                                     *)
(***************************************************************************)
EXTENDS Integers, FiniteSets

CONSTANTS
    Subscriptions, \* the subscriptions that may be opened
    Payments,      \* the payments that may be credited
    None,          \* a payment nobody has been credited for
    Period,        \* what a payment buys
    FirstPeriods   \* what a first payment may buy

VARIABLES
    today,  \* the date
    open,   \* the subscriptions that have been opened
    until,  \* their paid-through dates
    credit  \* the subscription each payment has been credited to

vars == <<today, open, until, credit>>

Init ==
    /\ today  = 0
    /\ open   = {}
    /\ until  = [s \in Subscriptions |-> 0]
    /\ credit = [p \in Payments |-> None]

\* The payments a step credits to s, and the periods they buy.
New(s) == {p \in Payments : credit[p] = None /\ credit'[p] = s}
Bought(s) == Period * Cardinality(New(s))

Later(d, e) == IF d < e THEN e ELSE d

\* The first period begins with the payment, be it confirmed long ago; payments
\* that have come in since are credited with it.
Opens(s) ==
    /\ s \in open' \ open
    /\ \E paid \in 0..today, first \in FirstPeriods :
          /\ until'[s] >= paid + first + Bought(s)
          /\ until'[s] <= today + first + Bought(s)

\* Whatever is credited follows the period that has been paid, or begins when it
\* was paid if that is over.
Extends(s) ==
    /\ s \in open /\ New(s) # {}
    /\ until'[s] >= until[s] + Bought(s)
    /\ until'[s] <= Later(until[s], today) + Bought(s)

Keeps(s) == (s \in open <=> s \in open') /\ New(s) = {} /\ until'[s] = until[s]

\* A commit may concern several subscriptions.
Settle ==
    /\ \A s \in Subscriptions : Opens(s) \/ Extends(s) \/ Keeps(s)
    /\ \A p \in Payments : credit[p] # None => credit'[p] = credit[p]
    /\ open \subseteq open'
    /\ today' = today

Pass == today' > today /\ UNCHANGED <<open, until, credit>>

Next == Settle \/ Pass

Spec == Init /\ [][Next]_vars

=============================================================================
