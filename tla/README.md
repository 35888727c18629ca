# A TLA+ model of the club's entitlements

The repository is the backend of a paid Telegram club: an HTTP API and a bot
(aiogram + FastAPI), one worker process, a command line, PostgreSQL, the
payment provider WayForPay and the Telegram Bot API. What can go wrong in it is
who is entitled, for how long, and who can still be charged: decisions that are
made by several processes which share nothing but database rows, while the
provider repeats, delays and reorders its callbacks and its calls time out.

This directory models those decisions, checks them with TLC on small instances
and proves the most important ones with TLAPS for every instance. Source paths
below are relative to `src/src/club_bot/`.

## 1. Inventory

| Component | Source | State | Operations | Module |
|---|---|---|---|---|
| Checkouts and claims | `services/subscriptions.py` | `checkout_sessions`, `users.referred_by`, `referrals`, the Meta reservation in `app_settings` | create_checkout, claim_checkout, claim_meta_purchase | `Billing` |
| Payment callbacks | `services/subscriptions.py`, `repositories.py` | `payments`, `subscriptions` | process_callback | `Billing` |
| Callback reconciliation | same, `cli.py` | `payments`, `subscriptions` | reconcile_unmatched_recurring_callbacks | `Billing` |
| Subscription row | same, `models.py` | `subscriptions` | _extend_subscription, _apply_failed_payment, ... | `SubscriptionState` |
| Expiration | same, `services/access.py`, `worker.py` | `subscriptions`, the provider's rule | expire_due, prepare_subscription_for_expiration, revoke | `Recurring` |
| Rule after an approval | same, `api.py` | same | approved_callback_context, recover_recurring_after_approved, verify_recurring_for_order, audit | `Recurring` |
| Cancellation | same | same | cancel_for_telegram_user | `Recurring` |
| Expired-rule repair | same, `cli.py` | same | reconcile_expired_recurring_rules | `Recurring` |
| Telegram access | `services/access.py`, `bot/system_router.py` | `resource_memberships`, `access_events`, access notices; memberships, bans and links at Telegram | create_invites, handle_join_request, revoke_subscription_access, moderation updates | `Access` |
| Access notices | same | `app_settings` (`access_notice:*`) | _alert_access_error, _resolve_access_alert, deliver_access_resolutions | `AccessNotices` |
| Dunning | `services/subscription_notifications.py` | the notification marks of `subscriptions` and `payments` | send_payment_failed, the five jobs of the worker, send_recurring_rule_alert | `Notifications` |
| Broadcasts | `services/broadcasts.py` | `broadcasts`, `broadcast_deliveries` | queue, process_batch | `Broadcasts` |
| Worker | `worker.py` | none of its own | one job after the other | `WorkerLoop`, `Worker` |
| Tariffs, trials and test mode | `services/admin.py`, `services/subscriptions.py`, `api.py` | `plans`, `app_settings` (`wayforpay_test_mode_until`), the terms copied into a checkout | update_plan, configure_trial, archive, the test window, create_checkout, the charges of a rule | `Terms` |
| Billing calendar | `domain/billing.py` | none | validate_billing_months, add_billing_months | `Calendar` |
| Catalogue | `services/admin.py`, `bot/system_router.py` | `plans`, `plan_resources`, `telegram_resources` | create_plan, archive_plan, restore_plan, toggle_plan_resource, the bot's own membership updates | `Catalogue` |
| Administrator's dialogues | `bot/admin_router.py`, `bot/admin_states.py`, `services/admin.py` | the dialogue's state and data in the memory of the process; `admins` | every dialogue: begin, fields, collected messages, preview, save, cancel | `Panel` |
| Users | `services/users.py` | `users`, `referrals` | upsert with a referral code | the referrer of a checkout is in `Billing`; the one of a `/start` link is not modelled |
| Presentation | `services/landing_templates.py`, `services/checkout_links.py`, `services/meta_pixel.py`, `services/stats.py`, `bot/routers.py`, keyboards | none of their own | formatting and forms around the services | not modelled (section 7) |

How they interact. The API stores each signed callback in one transaction and
then runs a background task that talks to the provider. The bot calls the claim,
the invitation and the cancellation. The worker's loop audits the recurring
rules, sends dunning notices, expires subscriptions (STATUS, SUSPEND, then the
removal from Telegram) and delivers broadcasts, each part guarded by its own
`try`. Administrators edit the tariffs, settings and pages in dialogues of the bot; their
handlers run concurrently and meet the services in the rows they save. All of them take
PostgreSQL row locks (`FOR UPDATE`, READ COMMITTED), and none holds a transaction across a provider call, except the revocation, which
calls Telegram with the row locked. A checkout copies the terms of its tariff and
the payment mode into its row; from then on the tariff is not read again.

What is hard: the order of callbacks against claims, cancellation and expiration;
what was read before a lock or a provider call and used after it; calls that time
out after they took effect; background tasks lost with their process; retries;
dates that the application and the provider compute separately; two updates of one
administrator between whose awaits the dialogue changes. Section 8 lists what the models
found in these places; `PROJECT.json` lists the hazards by line.

## 2. The modules

**SubscriptionState** holds the subscription row and the functions of the service
that rewrite it, so that every module resets the same fields together. Time is
counted in ticks, a period is a number of ticks, and timestamps that are only
compared with NULL are Booleans.

**Ledger** is what the payments promise, without callbacks, claims, locks or
operators: subscriptions are opened, each payment is credited to at most one of
them, once and for good, and a paid-through date moves by what is credited
(`Settle`) and by nothing else. `Billing` implements it under the mapping at its
end: `open` is the set of subscription rows, `until` their dates, `credit` the link
and the grant of each payment. Its `Pass` is the clock of `Billing`; every other
step is a `Settle` or a stutter. One commit may settle several subscriptions, as the
reconciliation does.

**Billing** is one action per transaction, or two or three for a transaction that
others overlap:

* `CreateCheckout`, `ClaimUnpaid`, `ClaimMetaPurchase` are single transactions
  under the lock of the checkout row.
* A claim of a paid checkout is `BeginClaim` (lock the checkout, read the
  subscription *without* a lock, lock the deferred payments), one
  `DrainDeferred` per deferred payment, and `CommitClaim`, which writes back the
  columns it changed over whatever the row is by then (`Flush`: the ORM's
  UPDATE lists changed columns only).
* A callback is `ReceiveCallback` (the fingerprint lookup and the first
  subscription lookup) and one of eight commits, one per branch of
  `process_callback`. `RejectDuplicate` is the unique index on the fingerprint.
  The lookup by reference *or* card token may return any matching row.
* The reconciliation locks what is free (`SKIP LOCKED`), looks at one payment at
  a time in the order of `created_at`, and commits.
* `CrashX` rolls an open transaction back. `Expire` is the database part of the
  revocation, which `Recurring` has in full.
* `sent` is the set of callbacks the provider has sent. Any of them may be
  delivered at any time and any number of times until it is stored.

Trial terms, the price and the periods are constants; a checkout's own snapshot
is in its row, as in the code. The expired status of an unpaid checkout is never
written, because the exception that follows the assignment rolls it back
(`subscriptions.py:241`); the guard alone is modelled. The Meta reservation and
the browser's report are one counter.

**Recurring** adds the provider's rule. A process has a *task*: the step it is
at, the subscription, and what it has read or been answered. Every provider call
is an action of its own, between the transaction that read the row and the one
that writes it. A call succeeds, fails without effect, or fails after it took
effect (the 15 s HTTP timeout of `container.py`); STATUS may fail as well. The
processes are webhook requests with their background task, the worker, a
cancelling member and the operator's repair. `Confirmed` behaves as `Created` and
`Completed` as `Removed` in every test of the code, so each pair is one value.
An approved renewal is `pending` until a request commits it (`ProcessApproved`);
with `Mismatched` it may have a wrong amount and extend nothing
(`ProcessMismatched`). `cancelled` is a history variable: what the member was
told, and whether anything else concerned the subscription when it was committed
("raced") or not ("clean", which allows one late renewal to be announced still); a
subscription whose rule a cancellation has stopped while it marked another one, or none,
is "lost".

The two transactions that only read before a provider call are merged with the
step that starts the task, and `claim_checkout`'s final STATUS check is the same
`Verification` that follows an approval. Declined callbacks, which no rule of the
provider depends on, are in `Billing` only. Test-mode subscriptions (`TEST-`)
never meet the provider's rules and are left out.

**Access** is the Telegram side. A *seat* is a user's place in a resource.
`create_invites`, the worker's `expire_due` and the handler of a join request are
processes; each Telegram call and each transaction is an action:

* `create_invites`: `BeginInvites` (what the user's subscriptions cover),
  per resource `EnsureNotBanned`, the verified unban (`LiftBan`, `VerifyUnban`,
  `RecordUnban`), `ReuseInvite` or `CreateInvite`, and `CommitInvites`. The lock
  on the user's row leaves one such process per user.
* `expire_due`: `BeginExpire` takes the batch, `LockSubscription` reads a row again
  under its lock, per resource `CheckCovered`, `CheckMember`, `BanMember` (or
  `BanRefused` for the owner of a chat), `RecordBan`, the verified unban and
  `RevokeMembership`, then `CommitExpire`. `SkipSubscription` is a subscription
  whose recurring rule could not be stopped, which `Recurring` models in full.
* a join request: `Request` (by Telegram), `ReviewRequest`, `Approve` or `Decline`,
  `BurnLink`, `MarkJoined` or `ClearPending`.

Both long transactions keep their row changes in `task.writes` until they commit;
`Merge` stores only the columns they changed. `Fail` is an exception of any call,
before or after it took effect, or the loss of the process: the writes are
forgotten, Telegram is not rolled back, and the worker goes on with its batch.
Two facts about Telegram are assumed: a ban dismisses a pending join request, and
its clock agrees with the bot's (a moderation update is older than an event the bot
records later). An update that is older than the latest event changes no decision
and is dropped. The 30 seconds an invitation must still be valid for are less than
a tick. All resources are active and the plans do not change; `Catalogue` changes
them. Ids, names and texts are left out.

**Worker** composes the rest of what the worker and the requests do, from four
modules. `WorkerLoop` has the processes and the bounds they share. An idle worker may
turn to any job that has something to do, in any order, which includes the order of
`worker.py` and the jobs skipped after an exception.

* `Notifications`: the six notices about a subscription. A job lists what is due
  (`ListDue`, `ListRefused`, `ListDeclined`, `ListUnhealthy` after the STATUS answers
  of `Verify`), and for each claims the mark (`Claim`, `ClaimRefused`), sends (`Send`,
  `SendFails`) and releases (`Release`). `StillDue` is what a claim looks at again, which
  is less than what the list looked at. `heard` is a history: an *incident* lasts from
  one reset of a mark to the next, and `task.current` knows to which a message belongs.
  `SendFails` may have delivered the message.
* `AccessNotices`: the row of a notice, `Alert`, `Resolve`, `ListResolutions` or
  `RetryResolutions`, `Deliver`. `ErrandLost` is a rollback after messages were sent.
* `Broadcasts`: `Queue`, `ClaimBroadcast`, per recipient `DeliverCopy` or `DeliveryFails`,
  then `MarkDelivery`, or `RetryAfter`, which ends the batch and records nothing;
  `RefreshCounts` and `Complete`. A message and its buttons are two calls
  (`telegram_content.py:43-54`), so that any error of a delivery may come after the copy
  has arrived (`ArrivesPerhaps`). `pauses` is a history: how often Telegram asked for a
  pause over a recipient.
* `Worker`: the expiration again, as far as notices depend on it (its provider and
  Telegram calls succeed or fail; `Recurring` and `Access` have them in full), the jobs,
  and the loss of processes.

A payment is found by its reference, which is taken to be its own; a user who has
blocked the bot does not return.

**Calendar** has the dates: a month, counted from the January of a leap year, and a
day. `AddMonths` is `add_billing_months`, which clamps the day to the length of the month.

**Terms** follows one order of one tariff from day to day. Administrators change
the price, the periods, the trial and the test window at any time; a checkout request
reads the switch (`ReadTestMode`) and, in a later transaction, the tariff
(`CreateCheckout`); the provider takes the first payment (`PayCheckout`) and charges the
rule on its dates (`ChargeRule`); the worker expires what is overdue (`Expire`). Which
date the provider computes from the 31st is not the repository's to say: `anchored`
is TRUE if it counts from the first date and FALSE if from the last one, and every
property is checked for both. Here the provider charges on the day it is due and the
callback arrives the same day; that charges are refused, late or overtaken is the subject
of the modules above, and that several orders meet is the subject of `Billing`. Whether the
account has already paid for a trial in another order is a free choice of
`CreateCheckout` (`used`), because that order is not followed here.

**Catalogue** has the rows the panel shares with other administrators and with
Telegram: tariffs, of which the first takes the default code, one resource, and its
links to tariffs. Other administrators, and Telegram when it makes or dismisses the bot
as an administrator of the chat, act at any time (`CatalogueMoves`). Whether a link may be
made depends on nothing in the code but the link itself (section 8).

**Panel** extends it by the dialogues of one administrator. She may have two updates in
hand at once, because aiogram starts a task for each; a handler runs from one await to
the next. `Arrive` matches the update against the dialogue's state; an administrator
named in the settings is admitted at once, another after a query (`Admit`, `Refuse`), in
which time the state may change. Then the handler runs to its next await (`Run`: `Home`,
`Start`, `Field`, `Collect`, `Done`, `Buttons`, `Preview`, `Fetch`, `BeginToggle`,
`BeginSave`) and after it (`Show`, `Open`, `AskToConfirm`, `CommitToggle`,
`CommitSave`, or `GiveUp` when the row is gone, Telegram refuses or a constraint is
violated). The table `Dialogues` says for each button whether it clears the dialogue, what
it stores, and which state it leads to. `Restart` loses the dialogues, which are kept in
memory. The content of fields is left out: what is kept is which keys are set, which
tariff is open and which messages were collected. A landing page may come as a document,
which is fetched from Telegram before the dialogue's data are read (`Download`,
`Downloaded`). A list of messages is read and written back without an await in between
(`Collect`), so that two messages of an album cannot overwrite each other. `agenda` bounds
how often each button is pressed. The histories belong to the dialogue and begin anew with
it: `late` (messages in the hands of other handlers when `/done` was handled), `previewed`
(what was shown), `swept` (it was begun or cleared while another handler was at work);
`broken` says that a handler has missed a key in a dialogue that was not swept.

`MCBilling`, `MCRecurring`, `MCAccess`, `MCWorker`, `MCTerms` and `MCPanel` give the
constants of TLC's runs: the callbacks the provider may send, the plans, the days orders
are made on, what an administrator has to do, and the symmetries (accounts, webhook
requests, handlers and collected messages are interchangeable). `BillingProofs`,
`OrdersProofs`, `LedgerProofs`, `RecurringProofs`, `AccessProofs`, `WorkerProofs`, `TermsProofs` and
`PanelProofs` hold the theorems of section 5.

Definitions marked *Faulty variant* are not part of the system. Each is a
plausible mistake in the definition below it; putting it in that place breaks
the property `PROJECT.json` names with it, which shows that the property
depends on the code it is about.

## 3. The runs

| Run | What it asks | Size |
|---|---|---|
| `BillingTrial` | Do renewals before and after the claim count, once and for their period? Does a checkout keep its owner, its terms and its payment when two accounts open its link (`OrdersStand`)? Does `Billing` implement `Ledger` (`KeepsTheBooks`)? Two accounts, a trial, two renewals, a refusal, two concurrent requests, a crash, `InOrder` | 0.4 M states |
| `BillingOneCard` | Do only validated payments grant access, each at most once, for its period and on its own card, when callbacks come in any order and the operator reconciles? Two checkouts with one card, a second approval, a renewal, a wrong amount, a foreign sale; also checks `Inv`, the first proof's invariant | 1.1 M |
| `BillingLive` | Does a confirmed checkout activate, is a renewal applied, does everyone get his lock? | 7 k |
| `RecurringSafety` | Expiration, a renewal, a cancellation and a repair with one failing call and one lost task; also checks `Inv`, the proof's invariant | 2.4 M |
| `RecurringLive` | Is everything overdue resolved, and a stopped rule noticed? Two requests for one renewal, perhaps of a wrong amount | 70 k |
| `Terms` | Do the agreed terms stand whatever is edited, is no month lost, do the charges come before the grace period is over? An order made at several ends of a month, renewed from December to May, with a provider of either kind | 4.0 M |
| `Panel` | Do forms find their data, is what is sent what was shown, does the default tariff stand? Also checks `Inv`, the invariant of the proofs of dialogues. Two handlers, pairs of dialogues, another administrator, the loss of rights, of the chat and of the process | 0.13 M |
| `Access` | Does everyone in a chat have a subscription for it, is nobody removed who was covered, do bans keep their author, do stored invitations work? A member with two subscriptions, a channel in both and a group he owns, a stranger, one payment | 2.3 M |
| `WorkerSafety` | Is nobody told twice, is every mark true, is no removal announced that has not happened (`NoticesAreTold`)? Is a recipient of a broadcast given up at his last attempt (`BroadcastsAddUp` with a limit of one)? A member, a request and the worker, three events, one failing delivery | 1.1 M |
| `WorkerLive` | Is everything due told in the end, does every alerted administrator get the resolution, does every broadcast end with true counters (`BroadcastsAddUp`), does who is served or given up get nothing more (`ServedAreLeftAlone`)? Two users, two administrators, one event, one failure, one lost process | 0.11 M |
| `RecurringCancelOther`, `RecurringMismatch` | Two promises of the README that the code does not keep (section 8) | violated |

Bounds. One checkout suffices wherever checkouts do not meet; they meet through
the card token (`BillingOneCard` has two) and through "the current subscription"
(`RecurringCancelOther` has two). Two requests are enough for every pairwise race
of callbacks. Two renewals distinguish "one period" from "all of them". The clock
runs just far enough for a first period with its grace to end while a renewal is
under way. `MaxCrashes` and `MaxFailures` are 1: one lost transaction, one
ambiguous call. A task of `Recurring` sees the clock advance at most once (`Tick`),
because a call gives up after seconds and a period lasts at least a month; without
this every STATUS answer could be a month old. In `Access` one thing may go wrong
(`MaxMishaps`): a failure, a leaked invitation or a manual ban; pairs of them were
run once (6.6 M states with one resource) and showed nothing new. Two links let an
invitation be replaced, and two ticks let it expire together with the first period,
while the process that created it is still running. In `Worker` three events let a
second incident begin while a delivery of the first one is being released, and a clock of
two ticks ends the paid period, then its grace. The events are shared by refusals,
renewals, grants and broadcasts, so that every pair of parts meets without multiplying
all of them. A batch of one makes the two recipients two batches; two attempts in
`WorkerLive` stand for the code's three (a retry, then the end), and one in `WorkerSafety`
reaches the limit with the one failure it has. Two administrators let a resolution
reach one of them only. In `Terms` `MaxMonth` lets an order of December or January run through
February into May, so that a clamped date meets a longer month again; three
charges (`RegularCount`) of one or two months compound the clamping, and two prices let
a trial become dearer than its tariff. In `Panel` the agendas pair the dialogues that
share something: two new tariffs, a tariff and the links of another, a broadcast and a
page of a menu, and each with the return to the start page; two handlers, because
an update meets at most one other between two of its awaits.

`CHECK_DEADLOCK FALSE` is set everywhere: the clock, the renewals and the
provider's events are bounded, nobody has to buy anything, and a system in which
everybody has finished stops.

## 4. Fairness

Liveness is checked under `FairSpec` only. In `Billing`: the provider sends a
callback again until it is answered (weak fairness of each event's delivery), a
transaction that has begun goes on, and one that waits for a row lock gets it,
because PostgreSQL queues the waiters of a row (strong fairness, as the lock may be
taken and released in between). Opening a link or reconciling is never assumed.
In `Recurring`: requests and tasks that have begun go on (weak), and the worker's
loop comes round to everything due, whatever it was busy with in between (strong
fairness of `BeginAudit`, `BeginExpire` and `AlertShutdownFailure`; each part of
the loop catches its exceptions, `worker.py:18-80`). Nobody has to cancel, repair
or be charged. In `Worker`: a job or a request that has begun goes on (weak), and the
loop comes round to the audit, to the resolutions and to the other jobs (strong, since
the worker is busy in between; the jobs of `OtherJob` run out of work, so fairness to
them together is enough, and less than the loop grants). Failures are bounded, as an ever-failing provider resolves nothing.

## 5. What is proved

Every theorem holds for all constants that satisfy the assumption of its module
(`BillingAssumption`, ...). Where it needs more, the statement says so (`ASSUME InOrder`,
`ASSUME Mismatched = FALSE`).

**`BillingProofs`: a payment is applied once.**

* `TypeCorrect`, `PaymentsCorrect`, `InvCorrect`: `Spec => []Inv`, the inductive
  invariant `TypeOK /\ PaymentsInv`.
* `AppliedOnce`: `Spec => []AppliedAtMostOnce`: an approved payment moves a
  paid-through date at most once, however many requests, claims, users and events
  there are, with `InOrder` or without.

The argument. `AppliedAtMostOnce` is not inductive: a claim about to commit could
hold a payment that has been granted already. `PaymentsInv` says why it does not.
*GrantedAreLinked*: whoever grants a payment links it to its subscription in the
same commit. *ClaimsHoldDeferred*: an open claim holds exactly the unlinked
payments of its checkout; no callback can add one because it would have to lock
the checkout, and the claim would not have begun while the reconciliation held one
of them. *ReconHoldsUnlinked*: the reconciliation holds unlinked payments that no
claim holds. So the two commits that apply held payments find `grants = 0`, and a
callback applies only an event that was not stored.

**`OrdersProofs`: what the rows say of each other.** The invariant `Orders`
(`OrdersCorrect`) relates a checkout to its owner, to the recorded approval that paid
it, to its subscription and to what an open claim, callback or reconciliation has read of
them. What a transaction has read may be stale; `Orders` says which of it cannot be: the
checkout row is locked, an approval is never unstored, an owner and a referrer are
never taken back. From it follow

* `SubscriptionsArePaid`: a checkout becomes a subscription by an owner and a recorded
  approval of its first amount, and only approvals of its price extend it.
* `RenewalsAlwaysStayOnTheCard`: whoever applies a payment, it extends the subscription
  of its reference, or one that its own card has paid for. An action property, from
  `Orders` before and after the step.
* `OrdersAlwaysStand`: a checkout keeps its terms, its first owner and the moment it was
  paid, and a paid or claimed one stays so, whoever else opens its link and whatever
  callbacks and claims overlap. An action property.
* `ReferralsAreAlwaysEarned`.
* `DeferredAlwaysApplied`, with `InOrder`: every validated renewal of a subscription has
  moved its date, whether it came before, during or after the claim. Without `InOrder`
  it is false (section 8).

**`LedgerProofs`: `Billing` implements `Ledger`.** The invariant `Moves`
(`MovesCorrect`, with `InOrder`) adds dates to `Orders`. *MomentsSound*: what was read
or recorded is not in the future. *ClaimsMove*, *ReconMoves*: an open transaction is
about to write the date that the row has now, moved by one period for each payment it has
drained, even though a claim has read the row without a lock; this is where `InOrder`
is needed. *SubscriptionsMove*: a date is the first period and one for each granted
renewal. Then

* `PaidThroughAlwaysPaid`: `PaidThroughIsWhatWasPaid`.
* `BooksAreKept`: `KeepsTheBooks`, that is, `Spec` of `Billing` implies `Spec` of `Ledger`
  under the mapping: initial states map to initial states, every commit to a `Settle`,
  the clock to a `Pass` and all else to a stutter.

A commit credits finitely many payments, because `sent` grows by one at a time: that
is what makes the cardinality in `Ledger` a number, without an assumption that
`Events` is finite.

**`AccessProofs`: who is in a chat, and who is banned from it.** For any number of
users, resources, subscriptions, invitations, failures and administrators:

* `TypeCorrect`: `Spec => []TypeOK`.
* `MembersAlwaysCovered`: `Spec => []MembersAreCovered`.
* `CoveredAlwaysStay`: `Spec => CoveredStays`.
* `BotBansAlwaysKnown`: `Spec => []BotBansAreKnown`.
* `ManualBansAlwaysStand`: `Spec => ManualBansStand`, if `AdminsWait` is TRUE.
* `RecordsAlwaysTrue`: `Spec => []RecordsAreTrue`, if `AdminsWait` is TRUE.

The argument. `MembersAreCovered` is not inductive: when the worker commits that a
subscription has expired, nobody looks into the chats any more, and a join request
may have been approved since the ban. The invariant `Safe` says why neither leaves a
member behind. *RequestsOpen*: Telegram keeps no request of somebody banned, so that the
ban takes an approval that is on its way with it. *AdmittedAreCovered*: whoever is in, or
one answer of Telegram away from it, has an entitling subscription. *RemovalSound*: the
subscription in the worker's hands is still overdue, because payments wait for its lock, so
that no review admits anybody on it; and in each resource that the worker has dealt with,
whoever is admitted has *another* one. When nothing is left to do, that holds of all the
resources of the subscription, and the commit takes it away from nobody who is in.
*LookedSound*: between its check and its ban the worker's answer "no other subscription
covers the seat" is made wrong by payments only, and these are in `paid`. The worker's
cutoff lies in the past, so a subscription that covers the seat when the ban falls covered
it at the cutoff as well.

Who banned whom (`BansInv`) is told by the *latest* event of a seat: the last of the updates
that Telegram has not delivered yet, or else the last one of the log. A ban that only the bot
has set is the bot's there (*BanKnown*), whatever the administrators do, unless an unban was
recorded after it. That no ban of an administrator passes for the bot's (*BanTrue*) needs
more: between the worker's ban and its record the seat is either open again or still banned by
the bot (*Recordable*), which administrators who ban and unban in that moment can make wrong.
`AdminsWait` excludes them, and section 8 shows what they do otherwise.

The invitations (`InvitesInv`) need the rows together with all that is going to be written
over them. A row's invitation is one for its own seat and lives as long as the row says
(*RowsSound*). A task visits no resource twice and holds at most one write for each
(*WritesTrim*); what the worker holds revokes, what `create_invites` holds invites with a link
made by this task (*WritesSound*). A join request under review is with the link's own
holder (*ReviewsSound*). As long as nothing has failed, an invitation that a row offers
is accepted by Telegram, or somebody is about to take it out of the row (*RowsWork*): the
worker that has revoked the link, or the review of the join request that has used it up. When nobody is at
work the second does not occur. `AdminsWait` comes in because a worker that finds the member
banned by somebody else in the middle of its work rolls back what it has already
done at Telegram (*UnbanHolds*).

**`WorkerProofs`: who is told, and what broadcasts record.** For any number of
subscriptions, requests, events, failures and lost processes:

* `TypeCorrect`: `Spec => []TypeOK`.
* `NoticesAlwaysTold`: `Spec => []NoticesAreTold`, that is, `ToldOnce` and `MarksAreTrue`.
* `BroadcastsAlwaysAddUp`: `Spec => []BroadcastsAddUp`: whoever is recorded as served has
  got the copy; nobody gets more copies than attempts were recorded, pauses asked for over
  him and workers lost; nobody is tried beyond the limit; the counters are right.
* `ServedAlwaysLeftAlone`: `Spec => ServedAreLeftAlone`: whoever is recorded as served or
  given up gets no further copy.

The argument. `ToldOnce` is not inductive: it does not say how many processes are about to
send. Two of them can be, for the same incident: a release removes whatever mark is in the
row, also one that somebody else has claimed meanwhile. *Tally* counts: the messages that
arrived and those about to be sent are no more than the marks that were released and the
one that is in the row. A claim adds one to both sides, because it finds no mark; a message
that is sent moves from the second number to the first; and a row rewritten for a new
incident takes the old messages out of both, because the functions that clear marks clear
exactly those whose incident begins anew (the `Row...` lemmas, one for each function of
`SubscriptionState`). *TasksFit* says that a process claims and releases only marks of its
own job. For broadcasts, *BatchSound* (a batch is of a broadcast that is sending; a copy
that is about to be recorded as sent has arrived; who is in it is pending), *CountsSound*
(the counters are right unless a batch is in hand or was lost) and *NoneAhead* (nobody has got a copy of what is
not queued yet) make `BroadcastsAddUp` inductive, and *BatchSound* alone gives
`ServedAreLeftAlone`. Users and requests are finitely many (`WorkerLoopAssumption`), so that
they can be counted.

**`TermsProofs`: clamped dates, an order and its charges.** `AddMonthsMonotonic`: a later
payment never ends earlier. `ClampingCostsThreeDays`: a day clamped in one month and then
in another is at most three days before the day clamped at once, and the 1st to the 28th
never move.

For the order the invariant is the conjunction of
`TypeOK`, *CheckoutInv* (rows come in the order of the program), *RuleInv* (the provider's
rule has the terms of the subscription and stands where so many charges lead) and
*DriftInv* (the application's date is where so many renewals lead, clamped each time, the
provider's where it leads clamped once or each time). Together with the dates it gives
`AgreedTermsAlwaysStand`, `TrialsAreDiscounts`, `MonthsAlwaysExact`,
`ChargesAlwaysInTime` and `PaidMembersAlwaysStay`: for all prices, periods, dates and
grace periods, a member whose charges succeed is removed early only if the provider
remembers a 29th to 31st that the application has forgotten and the grace period is three
days or less.

**`RecurringProofs`**, for any number of subscriptions, requests, members, operators,
failures and crashes:

* `TypeCorrect`: `Spec => []TypeOK`.
* `AccessLastsThePaidPeriod`: `Spec => PaidMembersKeepAccess`.
* `TasksAreSound`: `Spec => []Inv` and `NobodyIsChargedAfterRemoval`:
  `Spec => []NoOrphanedRule`, if `Mismatched` is FALSE. With wrong amounts the latter is
  false, as `RecurringMismatch` shows.
* `CleanCancellationsHold`: `Spec => []CleanCancellationHolds`, with wrong amounts as well.
* `AutoRenewIsAlwaysHonest`: `Spec => []AutoRenewIsHonest`, if `Mismatched` is FALSE: no
  row says "active" of a rule that the application has suspended. Of a rule that the
  provider has removed on its own it may, and nothing is claimed about that.

`Inv` is proved in four layers: `Shape` and, on it, `Cancellations` need no assumption;
`Rules`, on `Shape`, and `Honesty`, on all of them, need that no approval of a wrong amount is
processed.

The argument. A step does one of three things to a row: it keeps status and
paid-through date, renews the row for a whole period from now, or is the worker's
revocation of a row still due. `TaskSound` says that the clock has advanced at most
once since a task began and that the worker's cutoff leaves the grace period; so
only the revocation expires a row, and never early. `NoOrphanedRule` is not
inductive: a request could be about to RESUME the rule of an expired subscription,
or the worker about to revoke access while the rule is active again. `RuleSound`
excludes both. Whoever is about to RESUME (a request after its renewal, an operator
who stopped the rule of a subscription that was renewed meanwhile) works on a
subscription paid for beyond the end of his task, which the worker cannot find due;
and what the worker or the operator is about to record as stopped is stopped,
unless a renewal has overtaken him and his locked re-read will notice. This is
where the bound of `Tick` is needed: a task outlives no billing period
(`BillingMonths >= 2` ticks).

`CleanCancellationHolds` says of a mark that it is on the row when nobody is at work. The
mark is cleared in between: the late renewal extends the row, which withdraws the
cancellation, and its own background task stops the rule and sets the mark again, because
the webhook's context told it to. `StaysCancelled` therefore follows the mark through
whoever has read it. While the renewal is pending the mark is on the row, so the context
that is read of it preserves it (*CleanTask*); after it the mark is on the row or that one
task is *Restoring* it, and no second renewal can find the row in between, because one at
most was pending. Nobody else can RESUME: whoever could (the worker after its SUSPEND, the
repair, a request that does not preserve) would have been at work when the cancellation
committed, which "clean" excludes, or would find a rule that was stopped before he came and
have nothing to issue, hence nothing to undo (*AnswerSound*).

`AutoRenewIsHonest` is about rows of which nobody has cancelled anything, as long as no call
has failed. Such a rule is stopped by the worker, by the operator, or by a member whose
cancellation has not committed, and until they are done they are *Stopping* it: about to
record the shutdown, to undo it, to report that undoing failed, or to cancel. `StaysHonest`
says that a stopped rule that nobody is stopping is recorded as stopped, and that nobody is
about to write "active" over it (*Claiming*). The second part is about a STATUS answer
"active" that was read before the SUSPEND. It is excluded because the background task of a
request works on a renewed subscription, and the audit on one that has not expired
(*AuditSound*): a shutdown that meets them is overtaken and undone.

**`PanelProofs`: what a dialogue holds.** For any sets of tariffs, messages and handlers,
and for any agenda:

* `PanelIsSound`: `Spec => []Inv`.
* `WhatIsSentWasShown`: `Spec => []PreviewedIsSent`.
* `DefaultPlanAlwaysStands`: `Spec => []DefaultPlanStands`.

The argument. Every handler acts on a copy: it has compared its update with a state that
another handler may have left since (`ActsFor`). `DialogueInv` says what this copy is worth. Unless
the dialogue was begun or cleared under a handler (`swept`), the state a handler acts for is
`Ready`: the keys that the earlier steps keep are there, and if it is the step that sends, the
content was shown, but for messages that came too late. That messages come too late at all
is decided at `/done`: while messages are collected nobody acts for a later step of the
broadcast, and afterwards every message still in a handler's hands is one of those that were
in hand then (`late`), because the later states take no messages. A preview that was copied
before such a message came in therefore lacks nothing else. The
catalogue has an invariant of its own (`Shop`), whose hard part is the commit of a new
tariff, which takes the default code if its handler has found no tariff. Two handlers may both
have found none; the constraint on the code then refuses the second. The other way round,
`TariffInv` says that a handler that has found tariffs is still right when it commits, so
that no first tariff goes without the default code.

## 6. What is only model-checked

All liveness, because fairness and ENABLED are beyond the prover: `ConfirmationActivates`,
`RenewalIsApplied`, `OverdueIsResolved`, `StoppedRuleIsNoticed`, `EveryoneIsTold`,
`ResolutionsReachTheTold` and `BroadcastsFinish`. Every invariant and every action property that
a passing run checks is proved, and so is the refinement of `Ledger`. That
`AddMonths` is the calendar's is by its definition: its month is n later and its day the
same or the last one; there is no recursion to check it against.

## 7. What is not modelled

* The pages and texts: `landing_templates.py`, `meta_pixel.py`,
  keyboards and the buttons of messages render what the services decided.
* `services/stats.py` and the metrics of `api.py` only read.
* `services/checkout_links.py` signs and verifies a personal link, a pure conversion; that
  the account of such a link opens the checkout is the owner a checkout of `Billing` may
  have from the beginning.
* `bot/routers.py`, the member's menus, calls the claim, the invitation and the cancellation
  of the services and keeps nothing between two updates. The referral code of a `/start`
  link is part of it.
* The registration of a chat beyond its being served or not (titles, kinds, migration of
  a group to a supergroup), the schema migrations, the configuration.
* The cryptography of the provider's callbacks: an event of the models is a callback whose
  signature is valid.

## 8. Where the code does not do what the documents say

Two runs end in a violation; `PROJECT.json` quotes the sentences.

* `RecurringMismatch`: a signed approval of a wrong amount is "processed" for the
  webhook, so the rule of a member who has been removed is resumed although nothing
  was extended.
* `RecurringCancelOther`: the cancellation looks up "the current subscription" a
  second time after the SUSPEND.

The same models show narrower races if a bound is changed. The properties above
are stated so that they say exactly where the code holds its promise:

* `RenewalsExtendTheirOwn` of `Billing`, added to `BillingOneCard`, is violated: the lookup by reference or card token may take another
  subscription of the same card (`repositories.py`). `RenewalsStayOnTheCard` is what
  remains true, and it is proved.
* `CoveredIsNotRemoved` of `Access`, added to its run, is violated: the revocation locks only
  the subscription it expires, and another one that is paid between its check and its ban
  does not stop the ban. `CoveredStays` says for whom the promise holds.
* `InOrder = FALSE` in `BillingTrial` violates `DeferredAreApplied`: a renewal
  recorded before the first payment of a checkout with a known owner is not applied
  when that payment activates it (`subscriptions.py:404`). It also violates
  `PaidThroughIsWhatWasPaid` and `KeepsTheBooks`: a repeated claim then drains that renewal onto a row
  it read without a lock (`subscriptions.py:1071`) and overwrites a concurrent one.
* Without "clean", `CleanCancellationStays`, a part of
  `CleanCancellationHolds`, fails: a cancellation between the
  webhook's context and its commit loses its mark (`subscriptions.py:1134`), and the
  worker may RESUME after it has released the lock under which it saw no cancellation
  (`subscriptions.py:615`), which violates `CleanCancellationStops`.
* "Clean" allows one late renewal. With two both parts fail, even one after the other: the
  first clears the mark, and its SUSPEND fails or its task is lost before it has set it
  again; the second finds no mark, and its task RESUMEs the rule that the member has cancelled.
* Without `Faultless`, `AutoRenewIsHonest` fails: a SUSPEND that times out after it
  took effect leaves the row "active", and the audit skips such rows. With wrong amounts it
  fails as well: the task that follows such an approval may have read "active" before the
  worker's shutdown and write it afterwards, because it extends nothing that would overtake
  the worker.
* `MaxCrashes = 1` in `RecurringLive` violates `StoppedRuleIsNoticed`: with such a
  row a lost background task leaves nobody to look.
* A renewal whose context was read before the worker's shutdown committed leaves the
  rule suspended (`api.py:367`); `StoppedRuleIsNoticed` shows that the
  administrators hear of it.
* With a failure, `StoredInvitesWork` (in `RecordsAreTrue`) fails: the removal burns the unused invitation
  for one resource, another resource raises, and the rollback restores the burned
  link (`access.py:537`). If the member pays meanwhile, `create_invites` hands it out
  again until it expires. A handler lost between burning and storing does the same.
* `ResolutionsAreTrue` of `Worker`, added to `WorkerSafety`, is violated: a new incident
  that finds the notice of an old one resolved but not yet delivered leaves it resolved
  (`access.py:251`), and the next round of the worker reports the new problem as solved.
  README.md:433-435 promises a resolution after "successful retries" only.
* Without `lost`, `MarksAreTrue` (in `NoticesAreTold`) and `EveryoneIsTold` fail: a mark is claimed before the
  message is sent, and a process lost in between leaves it set
  (`subscription_notifications.py:641`). Without `uncounted`,
  `FinishedMeansCounted` (in `BroadcastsAddUp`) fails:
  a batch lost after its last mark leaves a broadcast to `_complete`, which does not
  count (`broadcasts.py:100`).
* `AdminsWait = FALSE` violates `ManualBansStand`: an administrator who bans between
  the bot's ban and its record is taken for the bot (`access.py:601`), and the ban is
  lifted.
* Without `overtaken`, `BotBansAreKnown` (in `RecordsAreTrue`) fails: `create_invites` confirms an unban,
  the worker bans, `create_invites` records its unban, the worker fails; the ban now
  needs an administrator although the bot made it.

* Without `pauses`, `CopiesAreAccounted` (in `BroadcastsAddUp`) fails: a RetryAfter of the call that
  adds the buttons ends the batch (`broadcasts.py:107`) when the copy has arrived
  (`telegram_content.py:43-54`), nothing is recorded, and the next batch copies again.
* Without `swept`, `DataIsThere` and `PreviewedIsSent` of `Panel` fail: a dialogue begun
  while a handler of the last one waits for Telegram is carried on with the old data or
  loses its own. Without `late`, `PreviewedIsSent` fails: a message in hand when `/done` is
  handled is added after the preview was copied.

Two things happen in the model and no property excludes them, because nothing in the code does:

* A confirmation delivered twice queues two broadcasts, if both presses find the dialogue's
  state before the first has stored its broadcast and cleared it
  (`bot/admin_router.py:1600-1623`); a form may be saved twice in the same way.
* A keyboard shown before the bot lost a channel still links it to a tariff afterwards:
  `toggle_plan_resource` does not look at `is_active` (`services/admin.py:412`). README.md:136-139
  says that the channel is removed from every tariff and has to be attached again explicitly.

And one of dates:

* With `Grace <= 3` and a provider that remembers the 31st, `PaidMembersStay` allows the
  worker to remove a member who is charged a day or two later: the application clamps the
  day at each renewal (`domain/billing.py:25`), the provider may not.

## 9. Plan

Done: all modules above with their runs, and the proofs of every invariant, action property
and refinement that the runs check. Left, in this order:

1. That retries remove whoever is overdue, as a liveness property of `Access`.
2. The registration of chats and the referral of a `/start` link.
3. Abstract specifications of `Access` and of `Recurring`, as `Ledger` is one of `Billing`:
   a seat that is open, invited or closed, and a rule that follows the status of its row.
