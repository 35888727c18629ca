------------------------------ MODULE MCBilling ------------------------------
(***************************************************************************)
(* Instances of Billing for TLC: the provider's callbacks.                 *)
(***************************************************************************)
EXTENDS Billing, TLC

CONSTANTS c1, c2, t1

Callback(c, recurring, nr, approved, amount, token) ==
    [ref |-> c, recurring |-> recurring, nr |-> nr, approved |-> approved,
     amount |-> amount, token |-> token]

\* The first payment of c, in a trial for 1 and otherwise for 2.
First(c, nr, amount) == Callback(c, FALSE, nr, TRUE, amount, None)
Renewal(c, nr) == Callback(c, TRUE, nr, TRUE, 2, None)
Refusal(c, nr) == Callback(c, TRUE, nr, FALSE, 2, None)

\* The smallest trial that can be renewed.
LiveEvents == {First(c1, 1, 1), Renewal(c1, 1)}

\* A trial with two renewals and a refused one.
TrialEvents == LiveEvents \cup {Renewal(c1, 2), Refusal(c1, 3)}

\* Two tariffs without a trial paid with one card, a wrong first payment, and a
\* sale made elsewhere.
FirstPayments ==
    {Callback(c1, FALSE, 1, TRUE, 2, t1), Callback(c1, FALSE, 2, TRUE, 2, t1),
     Callback(c2, FALSE, 1, TRUE, 2, t1), Callback(c2, FALSE, 3, TRUE, 1, t1),
     Callback(Foreign, FALSE, 1, TRUE, 2, None)}

\* The second approval of the first is a renewal with the plain reference, or an
\* ordinary renewal comes as well.
OneCardEvents == FirstPayments \cup {Renewal(c1, 1)}

\* Accounts and webhook requests are interchangeable.
Symmetry == Permutations(Users) \cup Permutations(Handlers)

=============================================================================
