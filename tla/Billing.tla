------------------------------- MODULE Billing -------------------------------
(***************************************************************************)
(* Checkouts, payments and claims: services/subscriptions.py from          *)
(* create_checkout to reconcile_unmatched_recurring_callbacks.             *)
(*                                                                         *)
(* The API, the bot and the operator's command line meet only in the       *)
(* database.  A transaction that other transactions can overlap is several *)
(* actions here: what it read before it got its row lock, and the commit.  *)
(* A transaction that holds the row lock of everything it reads is one.    *)
(* A crash between two actions rolls the transaction back.                 *)
(*                                                                         *)
(* The payment provider is the environment.  An event is a signed callback *)
(* with its fingerprint: delivering it again is the same event, a second   *)
(* callback about the same order is another one (its number differs).  A   *)
(* renewal carries the derived reference <ref>_WFPREG-..., which is        *)
(* `recurring' here: canonical_wayforpay_order_reference is the field ref. *)
(***************************************************************************)
EXTENDS SubscriptionState, FiniteSets

CONSTANTS
    Users,          \* Telegram accounts the bot knows
    Checkouts,      \* order references; also the subscriptions they become
    Handlers,       \* webhook requests that can run at the same time
    Events,         \* the callbacks the provider may send
    Tokens,         \* card tokens
    None,           \* NULL
    Foreign,        \* an order reference that is no checkout of this database
    Price,          \* plan.price
    TrialPrice,     \* plan.trial_price, or Price when the plan has no trial
    BillingMonths,  \* length of a billing period, in ticks
    TrialMonths,    \* length of the first period of a trial, in ticks
    CheckoutTTL,    \* lifetime of an unpaid claim link, in ticks
    Grace,          \* grace period after the paid-through date, in ticks
    InOrder,        \* TRUE: no renewal before the first payment is recorded
    MaxTime,        \* bound on the clock
    MaxCrashes      \* bound on the transactions that are rolled back

ASSUME BillingAssumption ==
    /\ None \notin Users \cup Checkouts \cup Tokens \cup Events
    /\ Foreign \notin Checkouts \cup {None}
    /\ Price \in Nat \ {0} /\ TrialPrice \in 1..Price
    /\ BillingMonths \in Nat \ {0} /\ TrialMonths \in Nat \ {0}
    /\ CheckoutTTL \in Nat /\ Grace \in Nat
    /\ InOrder \in BOOLEAN
    /\ MaxTime \in Nat /\ MaxCrashes \in Nat
    /\ Events \subseteq [ref       : Checkouts \cup {Foreign},
                         recurring : BOOLEAN,
                         nr        : Nat,
                         approved  : BOOLEAN,
                         amount    : Nat \ {0},
                         token     : Tokens \cup {None}]

VARIABLES
    now,       \* the clock
    checkout,  \* checkout_sessions
    sub,       \* subscriptions, by provider_subscription_id
    rec_token, \* provider_rec_token of each subscription
    payment,   \* payments, by provider_event_id
    referral,  \* users.referred_by_user_id and the referrals row
    meta,      \* purchase reservations handed to a browser, per checkout
    sent,      \* the callbacks the provider has sent so far
    handler,   \* webhook requests between their first reads and their commit
    claim,     \* claim transactions, by the checkout row they hold
    recon,     \* the reconciliation transaction of the command line
    crashes,   \* transactions rolled back so far
    grants     \* history: how often each event has moved a paid-through date

vars == <<now, checkout, sub, rec_token, payment, referral, meta, sent,
          handler, claim, recon, crashes, grants>>

-----------------------------------------------------------------------------
(***************************************************************************)
(* Rows                                                                    *)
(***************************************************************************)
CheckoutStatus == {"none", "created", "paid", "claimed"}

CheckoutRow ==
    [status           : CheckoutStatus,
     owner            : Users \cup {None},
     referrer         : Users \cup {None},
     amount           : Nat,
     recurring_amount : Nat,
     initial_months   : Nat,
     expires_at       : Nat,
     paid_at          : Nat]

NoCheckout ==
    [status |-> "none", owner |-> None, referrer |-> None, amount |-> 0,
     recurring_amount |-> 0, initial_months |-> 0, expires_at |-> 0,
     paid_at |-> 0]

PaymentRow ==
    [stored       : BOOLEAN,
     subscription : Checkouts \cup {None},
     checkout     : Checkouts \cup {None},
     failed       : BOOLEAN,          \* failure_reason is set
     created_at   : Nat]

NoPayment ==
    [stored |-> FALSE, subscription |-> None, checkout |-> None,
     failed |-> FALSE, created_at |-> 0]

ReferralRow ==
    [by : Users \cup {None}, status : {"none", "registered", "qualified"}]

\* A webhook request: its event, whether its first lookup, made without any
\* lock on the checkout, found a subscription, and when its transaction began
\* (created_at defaults to the database's now(), the start of the transaction).
HandlerState == [event : Events \cup {None}, seen : BOOLEAN, began : Nat]
IdleHandler == [event |-> None, seen |-> FALSE, began |-> 0]

\* A claim of a paid checkout: who claims, the subscription as it was read
\* (base) and as the transaction will write it (work), the deferred payments it
\* has locked and those of them it has not looked at yet.
ClaimState ==
    [user : Users \cup {None}, base : SubscriptionRow, work : SubscriptionRow,
     held : SUBSET Events, todo : SUBSET Events]
IdleClaim ==
    [user |-> None, base |-> NoSubscription, work |-> NoSubscription,
     held |-> {}, todo |-> {}]

\* The reconciliation: the payments it has locked, those it has not looked at
\* yet and those it has applied, the subscriptions it has locked, their new rows.
ReconState ==
    [running : BOOLEAN, held : SUBSET Events, todo : SUBSET Events,
     done : SUBSET {e \in Events : e.ref # Foreign},
     locked : SUBSET Checkouts,
     work : [Checkouts -> SubscriptionRow]]
IdleRecon ==
    [running |-> FALSE, held |-> {}, todo |-> {}, done |-> {}, locked |-> {},
     work |-> [c \in Checkouts |-> NoSubscription]]

Stored(e) == payment[e].stored
Exists(c) == sub[c].status # "none"
Claiming(c) == claim[c].user # None
KnownPlain(e) == ~e.recurring /\ e.ref \in Checkouts

\* The payments that can come first in the order of created_at; the order of
\* those created within one tick is left open.
Earliest(S) == {e \in S : \A f \in S : payment[e].created_at <= payment[f].created_at}

Init ==
    /\ now = 0
    /\ checkout  = [c \in Checkouts |-> NoCheckout]
    /\ sub       = [c \in Checkouts |-> NoSubscription]
    /\ rec_token = [c \in Checkouts |-> None]
    /\ payment   = [e \in Events |-> NoPayment]
    /\ referral  = [u \in Users |-> [by |-> None, status |-> "none"]]
    /\ meta      = [c \in Checkouts |-> 0]
    /\ sent      = {}
    /\ handler   = [h \in Handlers |-> IdleHandler]
    /\ claim     = [c \in Checkouts |-> IdleClaim]
    /\ recon     = IdleRecon
    /\ crashes   = 0
    /\ grants    = [e \in Events |-> 0]

-----------------------------------------------------------------------------
(***************************************************************************)
(* Parts of several transactions                                           *)
(***************************************************************************)
\* Faulty variant: whoever opens his own link refers himself.
AttachReferrerSelf(table, u, r) ==
    IF u = None \/ r = None THEN table
    ELSE IF table[u].by # None THEN table
    ELSE [table EXCEPT ![u] = [by |-> r, status |-> "registered"]]

\* The first referrer stays, and nobody refers himself.
AttachReferrer(table, u, r) ==
    IF u = None \/ r \in {None, u} THEN table
    ELSE IF table[u].by # None THEN table
    ELSE [table EXCEPT ![u] = [by |-> r, status |-> "registered"]]

QualifyReferral(table, u) ==
    IF table[u].status = "registered"
    THEN [table EXCEPT ![u].status = "qualified"] ELSE table

\* Faulty variant: the first period starts with the claim.
ActivatedRowLate(c, paidAt) ==
    NewSubscription(now, checkout[c].initial_months, "pending")

\* The row a paid checkout becomes: entitled from the payment, not the claim.
ActivatedRow(c, paidAt) ==
    NewSubscription(paidAt, checkout[c].initial_months, "pending")

\* Faulty variant: the row is written back as a whole.
FlushAll(base, work, current) == work

\* Columns that the unit of work changed are written over the current row.
Flush(base, work, current) ==
    [f \in DOMAIN current |-> IF work[f] # base[f] THEN work[f] ELSE current[f]]

-----------------------------------------------------------------------------
(***************************************************************************)
(* Checkouts                                                               *)
(***************************************************************************)
\* An account with a paid trial does not get another; an unknown one always
\* gets the trial, for nobody knows yet who it is.
UsesTrial(u) ==
    /\ TrialPrice < Price
    /\ \A c \in Checkouts :
          ~ /\ u # None /\ checkout[c].owner = u
            /\ checkout[c].amount < checkout[c].recurring_amount
            /\ checkout[c].status \in {"paid", "claimed"}

\* u is the Telegram account of a bot checkout, None for the public page.
CreateCheckout(c, u, r) ==
    /\ checkout[c].status = "none"
    /\ checkout' = [checkout EXCEPT ![c] =
          [status           |-> "created",
           owner            |-> u,
           referrer         |-> r,
           amount           |-> IF UsesTrial(u) THEN TrialPrice ELSE Price,
           recurring_amount |-> Price,
           initial_months   |-> IF UsesTrial(u) THEN TrialMonths ELSE BillingMonths,
           expires_at       |-> now + CheckoutTTL,
           paid_at          |-> 0]]
    /\ referral' = AttachReferrer(referral, u, r)
    /\ UNCHANGED <<now, sub, rec_token, payment, meta, sent, handler,
                   claim, recon, crashes, grants>>

\* One browser emission per production checkout, reserved under its lock.
ClaimMetaPurchase(c) ==
    /\ ~Claiming(c)
    /\ checkout[c].status \in {"paid", "claimed"}
    /\ \E e \in Events : /\ Stored(e) /\ KnownPlain(e) /\ payment[e].checkout = c
                         /\ e.approved /\ ~payment[e].failed
                         /\ e.amount = checkout[c].amount
    /\ meta[c] = 0
    /\ meta' = [meta EXCEPT ![c] = @ + 1]
    /\ UNCHANGED <<now, checkout, sub, rec_token, payment, referral,
                   sent, handler, claim, recon, crashes, grants>>

-----------------------------------------------------------------------------
(***************************************************************************)
(* Claims                                                                  *)
(***************************************************************************)
\* Faulty variant: a link that somebody has opened may be opened by another.
MayClaimAnybody(c, u) ==
    /\ ~Claiming(c)
    /\ checkout[c].status # "none"
    /\ ~ (checkout[c].expires_at < now /\ checkout[c].status = "created")

\* What every claim requires of a checkout whose row it has locked.
MayClaim(c, u) ==
    /\ ~Claiming(c)
    /\ checkout[c].status # "none"
    /\ ~ (checkout[c].expires_at < now /\ checkout[c].status = "created")
    /\ checkout[c].owner \in {None, u}

\* The link is opened before the payment is confirmed: the account is bound.
ClaimUnpaid(c, u) ==
    /\ MayClaim(c, u)
    /\ checkout[c].status = "created"
    /\ checkout' = [checkout EXCEPT ![c].owner = u]
    /\ referral' = AttachReferrer(referral, u, checkout[c].referrer)
    /\ UNCHANGED <<now, sub, rec_token, payment, meta, sent, handler,
                   claim, recon, crashes, grants>>

\* Renewals kept for a checkout until somebody claims it.
Deferred(c) ==
    {e \in Events : /\ Stored(e) /\ payment[e].checkout = c
                    /\ payment[e].subscription = None
                    /\ ~KnownPlain(e)}

\* Faulty variants: the payments the reconciliation holds are not waited for,
\* and the deferred payments are not looked at.
BeginClaimUnlocked(c, u) ==
    /\ MayClaim(c, u)
    /\ checkout[c].status \in {"paid", "claimed"}
    /\ LET row == IF Exists(c) THEN sub[c] ELSE ActivatedRow(c, checkout[c].paid_at)
       IN  claim' = [claim EXCEPT ![c] =
              [user |-> u, base |-> row, work |-> row,
               held |-> Deferred(c), todo |-> Deferred(c)]]
    /\ UNCHANGED <<now, checkout, sub, rec_token, payment, referral,
                   meta, sent, handler, recon, crashes, grants>>

BeginClaimForgetful(c, u) ==
    /\ MayClaim(c, u)
    /\ checkout[c].status \in {"paid", "claimed"}
    /\ LET row == IF Exists(c) THEN sub[c] ELSE ActivatedRow(c, checkout[c].paid_at)
       IN  claim' = [claim EXCEPT ![c] = [IdleClaim EXCEPT !.user = u,
                                                          !.base = row, !.work = row]]
    /\ UNCHANGED <<now, checkout, sub, rec_token, payment, referral,
                   meta, sent, handler, recon, crashes, grants>>

\* The claim of a paid checkout reads the subscription without locking it and
\* locks the deferred payments, waiting for whoever holds them.
BeginClaim(c, u) ==
    /\ MayClaim(c, u)
    /\ checkout[c].status \in {"paid", "claimed"}
    /\ Deferred(c) \cap recon.held = {}
    /\ LET row == IF Exists(c) THEN sub[c] ELSE ActivatedRow(c, checkout[c].paid_at)
       IN  claim' = [claim EXCEPT ![c] =
              [user |-> u, base |-> row, work |-> row,
               held |-> Deferred(c), todo |-> Deferred(c)]]
    /\ UNCHANGED <<now, checkout, sub, rec_token, payment, referral,
                   meta, sent, handler, recon, crashes, grants>>

\* What a deferred payment does to the row: an approved and validated one
\* extends it from the moment it arrived, a declined one opens the dunning.
Settles(e) == ~e.approved \/ ~payment[e].failed
ApplyDeferred(s, e) ==
    IF ~Settles(e) THEN s
    ELSE IF e.approved THEN ExtendSubscription(s, BillingMonths, payment[e].created_at)
    ELSE ApplyFailedPayment(s)

DrainDeferred(c) ==
    /\ Claiming(c)
    /\ \E e \in Earliest(claim[c].todo) :
          claim' = [claim EXCEPT
              ![c].work = ApplyDeferred(@, e),
              ![c].todo = @ \ {e}]
    /\ UNCHANGED <<now, checkout, sub, rec_token, payment, referral,
                   meta, sent, handler, recon, crashes, grants>>

\* The commit: activation on the first claim, the deferred payments linked,
\* and every other approved payment of the checkout linked to the row as well.
CommitClaim(c) ==
    LET u      == claim[c].user
        linked == {e \in Events : Stored(e) /\ payment[e].subscription = None
                     /\ payment[e].checkout = c
                     /\ \/ e \in claim[c].held /\ Settles(e)
                        \/ e.approved /\ ~payment[e].failed}
        paying == {e \in claim[c].held : e.approved /\ Settles(e)}
        table  == AttachReferrer(referral, u, checkout[c].referrer)
    IN  /\ Claiming(c)
        /\ claim[c].todo = {}
        /\ claim[c].work # claim[c].base => c \notin recon.locked
        /\ sub' = [sub EXCEPT ![c] =
              IF Exists(c) THEN Flush(claim[c].base, claim[c].work, @)
              ELSE claim[c].work]
        /\ checkout' = [checkout EXCEPT ![c] =
              [@ EXCEPT !.owner = u, !.status = "claimed"]]
        /\ payment' = [e \in Events |->
              IF e \in linked THEN [payment[e] EXCEPT !.subscription = c]
              ELSE payment[e]]
        /\ grants' = [e \in Events |->
              IF e \in paying THEN grants[e] + 1 ELSE grants[e]]
        /\ referral' = IF Exists(c) THEN table ELSE QualifyReferral(table, u)
        /\ claim' = [claim EXCEPT ![c] = IdleClaim]
        /\ UNCHANGED <<now, rec_token, meta, sent, handler, recon,
                       crashes>>

-----------------------------------------------------------------------------
(***************************************************************************)
(* Callbacks                                                               *)
(***************************************************************************)
\* Faulty variant: no card token matches no card token.
MatchesNull(e) ==
    {c \in Checkouts : /\ Exists(c)
                       /\ c = e.ref \/ rec_token[c] = e.token}

\* The subscriptions by_provider_identifiers can return: the one the reference
\* names, or any one that carries the same card token.
Matches(e) ==
    {c \in Checkouts : /\ Exists(c)
                       /\ c = e.ref \/ (e.token # None /\ rec_token[c] = e.token)}

\* The first transaction statements, before any row is locked: a fingerprint
\* that is stored already is a repeated delivery and is answered at once.
ReceiveCallback(h, e) ==
    /\ handler[h].event = None
    /\ e \in sent
    /\ ~Stored(e)
    /\ handler' = [handler EXCEPT ![h] =
          [event |-> e, seen |-> Matches(e) # {}, began |-> now]]
    /\ UNCHANGED <<now, checkout, sub, rec_token, payment, referral,
                   meta, sent, claim, recon, crashes, grants>>

\* Faulty variant: the renewal does not look again after it had to wait.
FoundBefore(h) ==
    LET e == handler[h].event
    IN  IF e.recurring /\ ~handler[h].seen THEN {} ELSE Matches(e)

\* What the handler works with once it has its locks.  A renewal that found no
\* subscription locks the checkout and looks again: a claim may have committed.
\* A row it did find and had to wait for is matched again when it gets the lock.
Found(h) ==
    LET e == handler[h].event
    IN  IF e.recurring /\ ~handler[h].seen /\ e.ref = Foreign THEN {} ELSE Matches(e)

\* The rows the handler locks are free.
LocksFree(h) ==
    LET e == handler[h].event
        byLookup == e.recurring /\ handler[h].seen /\ Found(h) # {}
    IN  /\ (e.ref \in Checkouts /\ ~byLookup) => ~Claiming(e.ref)
        /\ Found(h) \cap recon.locked = {}

\* The subscription the handler goes on with: any match, or NULL.
Picks(h) == IF Found(h) = {} THEN {None} ELSE Found(h)

\* Handler h commits for the first time the fingerprint e, with subscription s.
Commits(h, e, s) ==
    /\ handler[h].event = e
    /\ e # None
    /\ ~Stored(e)
    /\ LocksFree(h)
    /\ s \in Picks(h)

\* The payment row is inserted whatever else the callback does; linked is the
\* subscription it is linked to, failed says that a failure reason is recorded.
StorePayment(h, e, linked, s, failed) ==
    /\ payment' = [payment EXCEPT ![e] =
          [stored       |-> TRUE,
           subscription |-> linked,
           checkout     |-> IF e.ref \in Checkouts /\ (~e.recurring \/ s = None)
                            THEN e.ref ELSE None,
           failed       |-> failed,
           created_at   |-> handler[h].began]]
    /\ handler' = [handler EXCEPT ![h] = IdleHandler]
    /\ UNCHANGED <<now, meta, sent, claim, recon, crashes>>

\* The unique index on the fingerprint refuses the second of two deliveries
\* that were checked at the same time; its transaction is rolled back.
RejectDuplicate(h) ==
    /\ handler[h].event # None
    /\ Stored(handler[h].event)
    /\ handler' = [handler EXCEPT ![h] = IdleHandler]
    /\ UNCHANGED <<now, checkout, sub, rec_token, payment, referral,
                   meta, sent, claim, recon, crashes, grants>>

\* What the payment has to amount to; 0 when nothing is known of it.
Expected(e, s) ==
    CASE KnownPlain(e)                        -> checkout[e.ref].amount
      [] ~KnownPlain(e) /\ s # None           -> checkout[s].recurring_amount
      [] ~KnownPlain(e) /\ s = None /\ e.ref # Foreign
                                              -> checkout[e.ref].recurring_amount
      [] OTHER                                -> 0

\* Faulty variant: the amount is not compared.
MismatchNever(e, s) == FALSE

Mismatch(e, s) == Expected(e, s) \notin {0, e.amount}

\* The callback names a checkout that has had its first payment, so that the
\* approval says nothing new: it is the pending claim's, or a trial's invoice.
Absorbed(e) ==
    /\ KnownPlain(e)
    /\ \/ checkout[e.ref].status = "paid"
       \/ /\ checkout[e.ref].status = "claimed"
          /\ checkout[e.ref].recurring_amount # checkout[e.ref].amount

\* Faulty variant: whatever carries the plain reference is the first invoice.
FirstPaymentAlways(e) == KnownPlain(e)

\* The approval is the first one of the checkout it names.
FirstPayment(e) == KnownPlain(e) /\ checkout[e.ref].status = "created"

DeclinedCallback(h, e, s) ==
    /\ Commits(h, e, s)
    /\ ~e.approved
    /\ StorePayment(h, e, s, s, TRUE)
    /\ sub' = IF s = None THEN sub
              ELSE IF sub[s].status \notin Entitled THEN sub
              ELSE [sub EXCEPT ![s] = ApplyFailedPayment(@)]
    /\ UNCHANGED <<checkout, rec_token, referral, grants>>

MismatchedCallback(h, e, s) ==
    /\ Commits(h, e, s)
    /\ e.approved
    /\ Mismatch(e, s)
    /\ StorePayment(h, e, s, s, TRUE)
    /\ UNCHANGED <<checkout, sub, rec_token, referral, grants>>

\* A validated renewal of a checkout nobody has claimed is kept for the claim.
DeferredCallback(h, e, s) ==
    /\ Commits(h, e, s)
    /\ e.approved /\ ~Mismatch(e, s)
    /\ e.recurring /\ s = None /\ e.ref \in Checkouts
    /\ StorePayment(h, e, None, s, FALSE)
    /\ UNCHANGED <<checkout, sub, rec_token, referral, grants>>

AbsorbedCallback(h, e, s) ==
    /\ Commits(h, e, s)
    /\ e.approved /\ ~Mismatch(e, s)
    /\ Absorbed(e)
    /\ StorePayment(h, e, s, s, FALSE)
    /\ UNCHANGED <<checkout, sub, rec_token, referral, grants>>

\* The first payment of a checkout without an owner waits for its claim.
PaidCallback(h, e, s) ==
    /\ Commits(h, e, s)
    /\ e.approved /\ ~Mismatch(e, s)
    /\ FirstPayment(e) /\ checkout[e.ref].owner = None
    /\ checkout' = [checkout EXCEPT ![e.ref] =
          [@ EXCEPT !.status = "paid", !.paid_at = now]]
    /\ StorePayment(h, e, s, s, FALSE)
    /\ UNCHANGED <<sub, rec_token, referral, grants>>

\* Faulty variant: a checkout with an owner waits for its claim as well.
ActivatingCallbackPaid(h, e, s) ==
    /\ Commits(h, e, s)
    /\ e.approved /\ ~Mismatch(e, s)
    /\ FirstPayment(e) /\ checkout[e.ref].owner # None
    /\ checkout' = [checkout EXCEPT ![e.ref] =
          [@ EXCEPT !.status = "paid", !.paid_at = now]]
    /\ StorePayment(h, e, s, s, FALSE)
    /\ UNCHANGED <<sub, rec_token, referral, grants>>

\* The first payment of a checkout with an owner activates it at once.
ActivatingCallback(h, e, s) ==
    /\ Commits(h, e, s)
    /\ e.approved /\ ~Mismatch(e, s)
    /\ FirstPayment(e) /\ checkout[e.ref].owner # None
    /\ checkout' = [checkout EXCEPT ![e.ref] =
          [@ EXCEPT !.status = "claimed", !.paid_at = now]]
    /\ sub' = [sub EXCEPT ![e.ref] = ActivatedRow(e.ref, now)]
    /\ rec_token' = [rec_token EXCEPT ![e.ref] = e.token]
    /\ referral' = QualifyReferral(referral, checkout[e.ref].owner)
    /\ StorePayment(h, e, e.ref, s, FALSE)
    /\ UNCHANGED grants

\* Any other approval with a subscription is a renewal of that subscription.
RenewalCallback(h, e, s) ==
    /\ Commits(h, e, s)
    /\ e.approved /\ ~Mismatch(e, s)
    /\ ~Absorbed(e) /\ ~FirstPayment(e) /\ s # None
    /\ sub' = [sub EXCEPT ![s] = ExtendSubscription(@, BillingMonths, now)]
    /\ rec_token' = IF e.token = None THEN rec_token
                    ELSE [rec_token EXCEPT ![s] = e.token]
    /\ grants' = [grants EXCEPT ![e] = @ + 1]
    /\ StorePayment(h, e, s, s, FALSE)
    /\ UNCHANGED <<checkout, referral>>

\* A genuine payment that belongs to nothing here is kept for the operator.
UnmatchedCallback(h, e, s) ==
    /\ Commits(h, e, s)
    /\ e.approved /\ ~Mismatch(e, s)
    /\ e.ref = Foreign /\ s = None
    /\ StorePayment(h, e, None, s, TRUE)
    /\ UNCHANGED <<checkout, sub, rec_token, referral, grants>>

-----------------------------------------------------------------------------
(***************************************************************************)
(* Reconciliation of unlinked renewals, run by an operator                 *)
(***************************************************************************)
\* It locks every unlinked renewal no other transaction has locked.
BeginReconcile ==
    LET free == {e \in Events : /\ Stored(e) /\ e.recurring
                                /\ payment[e].subscription = None
                                /\ \A c \in Checkouts : e \notin claim[c].held}
    IN  /\ ~recon.running
        /\ free # {}
        /\ recon' = [IdleRecon EXCEPT !.running = TRUE, !.held = free, !.todo = free]
        /\ UNCHANGED <<now, checkout, sub, rec_token, payment, referral,
                       meta, sent, handler, claim, crashes, grants>>

\* What the reconciliation does with a payment of the subscription row s.
ReconciledRow(s, e) ==
    IF e.approved THEN ExtendSubscription(s, BillingMonths, payment[e].created_at)
    ELSE IF s.status \in Entitled THEN ApplyFailedPayment(s)
    ELSE s

\* One payment: it is skipped when its subscription is missing or when its
\* amount is not the subscription's; otherwise the locked row takes it.
ReconcileOne(e) ==
    LET c     == e.ref
        known == c # Foreign /\ Exists(c)
        row   == IF c \in recon.locked THEN recon.work[c] ELSE sub[c]
        takes == known /\ e.amount = checkout[c].recurring_amount
    IN  /\ recon.running
        /\ recon' = [recon EXCEPT
              !.todo   = @ \ {e},
              !.done   = IF takes THEN @ \cup {e} ELSE @,
              !.locked = IF known THEN @ \cup {c} ELSE @,
              !.work   = IF ~known THEN @
                         ELSE IF takes THEN [@ EXCEPT ![c] = ReconciledRow(row, e)]
                         ELSE [@ EXCEPT ![c] = row]]
        /\ UNCHANGED <<now, checkout, sub, rec_token, payment, referral,
                       meta, sent, handler, claim, crashes, grants>>

ReconcileNext == \E e \in Earliest(recon.todo) : ReconcileOne(e)

\* Faulty variant: a payment that has been applied is not linked.
CommitReconcileUnlinked ==
    /\ recon.running
    /\ recon.todo = {}
    /\ sub' = [c \in Checkouts |->
          IF c \in recon.locked THEN recon.work[c] ELSE sub[c]]
    /\ grants' = [e \in Events |->
          IF e \in recon.done /\ e.approved THEN grants[e] + 1 ELSE grants[e]]
    /\ recon' = IdleRecon
    /\ UNCHANGED <<now, checkout, rec_token, payment, referral, meta, sent,
                   handler, claim, crashes>>

CommitReconcile ==
    /\ recon.running
    /\ recon.todo = {}
    /\ sub' = [c \in Checkouts |->
          IF c \in recon.locked THEN recon.work[c] ELSE sub[c]]
    /\ payment' = [e \in Events |->
          IF e \notin recon.done THEN payment[e]
          ELSE [payment[e] EXCEPT !.subscription = e.ref,
                                  !.failed       = @ /\ ~e.approved]]
    /\ grants' = [e \in Events |->
          IF e \in recon.done /\ e.approved THEN grants[e] + 1 ELSE grants[e]]
    /\ recon' = IdleRecon
    /\ UNCHANGED <<now, checkout, rec_token, referral, meta, sent,
                   handler, claim, crashes>>

-----------------------------------------------------------------------------
(***************************************************************************)
(* Expiration, crashes and the environment                                 *)
(***************************************************************************)
\* The database part of the worker's revocation; Recurring models all of it.
Expire(c) ==
    /\ now >= Grace
    /\ IsDueForExpiration(sub[c], now - Grace)
    /\ c \notin recon.locked
    /\ sub' = [sub EXCEPT ![c] = ExpireSubscription(@, TRUE)]
    /\ UNCHANGED <<now, checkout, rec_token, payment, referral, meta,
                   sent, handler, claim, recon, crashes, grants>>

MayCrash == crashes < MaxCrashes /\ crashes' = crashes + 1

CrashHandler(h) ==
    /\ MayCrash
    /\ handler[h].event # None
    /\ handler' = [handler EXCEPT ![h] = IdleHandler]
    /\ UNCHANGED <<now, checkout, sub, rec_token, payment, referral,
                   meta, sent, claim, recon, grants>>

CrashClaim(c) ==
    /\ MayCrash
    /\ Claiming(c)
    /\ claim' = [claim EXCEPT ![c] = IdleClaim]
    /\ UNCHANGED <<now, checkout, sub, rec_token, payment, referral,
                   meta, sent, handler, recon, grants>>

CrashReconcile ==
    /\ MayCrash
    /\ recon.running
    /\ recon' = IdleRecon
    /\ UNCHANGED <<now, checkout, sub, rec_token, payment, referral,
                   meta, sent, handler, claim, grants>>

\* The provider charges a renewal only after it has charged the first amount;
\* with InOrder it does so when the application has recorded that payment.
FirstCharge(e, c) ==
    KnownPlain(e) /\ e.ref = c /\ e.approved /\ e.amount = checkout[c].amount

ProviderSends(e) ==
    /\ e \notin sent
    /\ e.ref \in Checkouts =>
          /\ checkout[e.ref].status # "none"
          /\ e.recurring => \E f \in sent : /\ FirstCharge(f, e.ref)
                                            /\ InOrder => Stored(f)
    /\ sent' = sent \cup {e}
    /\ UNCHANGED <<now, checkout, sub, rec_token, payment, referral,
                   meta, handler, claim, recon, crashes, grants>>

Tick ==
    /\ now < MaxTime
    /\ now' = now + 1
    /\ UNCHANGED <<checkout, sub, rec_token, payment, referral, meta,
                   sent, handler, claim, recon, crashes, grants>>

CommitCallback(h) ==
    \E e \in Events, s \in Checkouts \cup {None} :
        \/ DeclinedCallback(h, e, s)
        \/ MismatchedCallback(h, e, s)
        \/ DeferredCallback(h, e, s)
        \/ AbsorbedCallback(h, e, s)
        \/ PaidCallback(h, e, s)
        \/ ActivatingCallback(h, e, s)
        \/ RenewalCallback(h, e, s)
        \/ UnmatchedCallback(h, e, s)

Next ==
    \/ \E c \in Checkouts, u \in Users \cup {None}, r \in Users \cup {None} :
          CreateCheckout(c, u, r)
    \/ \E c \in Checkouts, u \in Users : ClaimUnpaid(c, u) \/ BeginClaim(c, u)
    \/ \E c \in Checkouts : \/ DrainDeferred(c) \/ CommitClaim(c)
                            \/ ClaimMetaPurchase(c) \/ Expire(c) \/ CrashClaim(c)
    \/ \E h \in Handlers, e \in Events : ReceiveCallback(h, e)
    \/ \E h \in Handlers : \/ CommitCallback(h) \/ RejectDuplicate(h)
                           \/ CrashHandler(h)
    \/ BeginReconcile \/ ReconcileNext \/ CommitReconcile \/ CrashReconcile
    \/ \E e \in Events : ProviderSends(e)
    \/ Tick

\* A callback is sent again until it is answered, and a transaction that has
\* begun goes on.  One that waits for a row lock gets it if the lock is released
\* again and again, for the database grants a lock in the order of the waiters.
\* Nobody has to open a link, and no operator has to reconcile.
Fairness ==
    /\ \A e \in Events : WF_vars(\E h \in Handlers : ReceiveCallback(h, e))
    /\ \A h \in Handlers : SF_vars(CommitCallback(h) \/ RejectDuplicate(h))
    /\ \A c \in Checkouts : SF_vars(DrainDeferred(c) \/ CommitClaim(c))
    /\ WF_vars(ReconcileNext \/ CommitReconcile)

Spec == Init /\ [][Next]_vars
FairSpec == Spec /\ Fairness

-----------------------------------------------------------------------------
(***************************************************************************)
(* Properties                                                              *)
(***************************************************************************)
\* Every variable has the shape of its table or of its transaction.
TypeOK ==
    /\ now \in Nat
    /\ checkout  \in [Checkouts -> CheckoutRow]
    /\ sub       \in [Checkouts -> SubscriptionRow]
    /\ rec_token \in [Checkouts -> Tokens \cup {None}]
    /\ payment   \in [Events -> PaymentRow]
    /\ referral  \in [Users -> ReferralRow]
    /\ meta      \in [Checkouts -> Nat]
    /\ sent      \subseteq Events
    /\ handler   \in [Handlers -> HandlerState]
    /\ claim     \in [Checkouts -> ClaimState]
    /\ recon     \in ReconState
    /\ crashes   \in Nat
    /\ grants    \in [Events -> Nat]

\* An approved payment moves a paid-through date at most once, however often
\* it is delivered and whether the callback, a claim or the reconciliation
\* applies it, with any of them overlapping or rolled back.
AppliedAtMostOnce == \A e \in Events : grants[e] <= 1

\* The payments whose periods subscription c has received.
GrantedTo(c) == {e \in Events : grants[e] > 0 /\ payment[e].subscription = c}

\* Only an approved payment of the recurring price extends a subscription, and
\* the row says which one it extended.
GrantsAreValidated ==
    \A e \in Events : grants[e] > 0 =>
        /\ Stored(e) /\ e.approved /\ ~payment[e].failed
        /\ \E c \in Checkouts : /\ payment[e].subscription = c
                                /\ e.amount = checkout[c].recurring_amount

\* The provider's approval of the first amount of c is recorded.
FirstPaymentRecorded(c) ==
    \E e \in Events : /\ FirstCharge(e, c) /\ Stored(e)
                      /\ payment[e].checkout = c /\ ~payment[e].failed

\* No return page, no opened link and no renewal turns a checkout into a
\* subscription: an owner and the approved first amount do.
SubscriptionsArePaidFor ==
    /\ GrantsAreValidated
    /\ \A c \in Checkouts :
        /\ checkout[c].status \in {"paid", "claimed"} => FirstPaymentRecorded(c)
        /\ Exists(c) <=> checkout[c].status = "claimed"
        /\ Exists(c) => checkout[c].owner # None

\* A checkout keeps its prices, goes on to be paid and claimed, keeps the moment it
\* was paid for the first time, and belongs to whoever has opened its link first.
CheckoutsStay ==
    \A c \in Checkouts : checkout[c].status # "none" =>
        /\ checkout'[c].amount = checkout[c].amount
        /\ checkout'[c].recurring_amount = checkout[c].recurring_amount
        /\ checkout'[c].status # "none"
        /\ checkout[c].status \in {"paid", "claimed"} =>
              /\ checkout'[c].status \in {"paid", "claimed"}
              /\ checkout'[c].paid_at = checkout[c].paid_at
        /\ checkout[c].status = "claimed" => checkout'[c].status = "claimed"
        /\ checkout[c].owner # None => checkout'[c].owner = checkout[c].owner

\* Two accounts may hold the same link, and claims, first payments and repeated
\* approvals write the same row: none of them takes back what another has settled.
OrdersStand == [][CheckoutsStay]_vars

\* "Validated renewals received before claim are applied once" (README): as soon
\* as a checkout is a subscription, each of them has moved its paid-through date.
DeferredAreApplied ==
    \A e \in Events :
        (/\ Stored(e) /\ e.recurring /\ e.approved /\ ~payment[e].failed
         /\ e.ref \in Checkouts /\ checkout[e.ref].status = "claimed")
            => grants[e] = 1

\* "The application canonicalizes that value back to the original subscription
\* reference before applying an approved or declined event" (README): a payment
\* extends the subscription its reference names, if there is one.  The code does
\* not keep this for two subscriptions paid with one card (README, section 8).
RenewalsExtendTheirOwn ==
    \A e \in Events : grants[e] > 0 /\ e.ref # Foreign /\ Exists(e.ref) =>
        payment[e].subscription = e.ref

\* What it does keep: a payment never reaches a subscription that neither its
\* reference names nor its own card has paid for, whoever applies it.
RenewalsStayOnTheCard ==
    [][\A e \in Events : grants'[e] > grants[e] =>
          LET c == payment'[e].subscription
          IN  c = e.ref \/ (e.token # None /\ rec_token[c] = e.token)]_vars

\* The paid-through date is what was paid for: the first period from the
\* moment of the payment and one period for each renewal applied, no less when
\* transactions overlap, and no more than if all of it had started just now.
PaidThroughIsWhatWasPaid ==
    \A c \in Checkouts : Exists(c) =>
        LET paid == checkout[c].initial_months
                        + BillingMonths * Cardinality(GrantedTo(c))
        IN  /\ sub[c].current_period_end >= checkout[c].paid_at + paid
            /\ sub[c].current_period_end <= now + paid
            /\ GrantedTo(c) = {} => sub[c].current_period_end = checkout[c].paid_at + paid

\* A referral is qualified by a subscription of the person referred, and nobody
\* refers himself, whatever is bound, claimed or paid first.
ReferralsAreEarned ==
    \A u \in Users :
        /\ referral[u].by # u
        /\ referral[u].status = "qualified" =>
              \E c \in Checkouts : checkout[c].owner = u /\ Exists(c)

\* "If confirmation arrives after the account is bound, activation happens
\* automatically" (README): the provider's retries are enough.
ConfirmationActivates ==
    \A e \in Events, c \in Checkouts :
        (e \in sent /\ FirstCharge(e, c) /\ checkout[c].owner # None) ~> Exists(c)

\* A renewal of the right amount that the provider sends for a subscription is
\* applied without an operator, even if it raced with the claim.
RenewalIsApplied ==
    \A e \in Events, c \in Checkouts :
        (/\ e \in sent /\ e.ref = c /\ e.recurring /\ e.approved
         /\ Exists(c) /\ e.amount = checkout[c].recurring_amount)
            ~> grants[e] = 1

-----------------------------------------------------------------------------
(***************************************************************************)
(* What Billing implements                                                 *)
(***************************************************************************)
\* The paid-through dates, and the subscription a payment has extended.
Until == [c \in Checkouts |-> sub[c].current_period_end]
Credit == [e \in Events |->
              IF grants[e] = 0 THEN None ELSE payment[e].subscription]

Books == INSTANCE Ledger WITH
    Subscriptions <- Checkouts, Payments <- Events,
    Period <- BillingMonths, FirstPeriods <- {BillingMonths, TrialMonths},
    today <- now, open <- {c \in Checkouts : Exists(c)},
    until <- Until, credit <- Credit

\* Whatever callbacks, claims, the operator and crashes do to each other, every
\* commit moves the paid-through dates as the ledger does: by the payments it
\* credits, each of them once, never back and never without one.
KeepsTheBooks == Books!Spec

-----------------------------------------------------------------------------
(***************************************************************************)
(* Why a payment is applied once: an inductive invariant                   *)
(***************************************************************************)
\* The payment that has moved a date is linked, so nobody looks for it again.
GrantedAreLinked ==
    \A e \in Events : grants[e] > 0 =>
        grants[e] = 1 /\ Stored(e) /\ payment[e].subscription # None

\* While a checkout is locked, its claim holds exactly the payments kept for it.
ClaimsHoldDeferred ==
    \A c \in Checkouts :
        /\ claim[c].todo \subseteq claim[c].held
        /\ claim[c].held = IF Claiming(c) THEN Deferred(c) ELSE {}

\* The reconciliation holds unlinked renewals that no claim holds.
ReconHoldsUnlinked ==
    /\ recon.todo \cup recon.done \subseteq recon.held
    /\ recon.todo \cap recon.done = {}
    /\ \A e \in recon.held :
          /\ Stored(e) /\ e.recurring /\ payment[e].subscription = None
          /\ \A c \in Checkouts : e \notin claim[c].held

PaymentsInv == GrantedAreLinked /\ ClaimsHoldDeferred /\ ReconHoldsUnlinked

\* Every table and transaction has its shape, and nobody holds a payment that
\* another may apply: no step can lead out of this.
Inv == TypeOK /\ PaymentsInv

=============================================================================
