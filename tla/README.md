# Formal verification of the aumigao backend

TLA+ models of the backend's core logic, TLC configurations that check them on
small instances, and TLAPS proofs of the properties that matter most.

## 1. The system

The backend is a FastAPI application over one PostgreSQL database, with the
payment gateway Asaas behind it.  A *tutor* books a walk for a pet, pays it (or
spends a plan credit), a *walker* is found, serves it and reports it, an *admin*
approves the report, and the money is split between walker, tenant and platform.

Three kinds of actor run concurrently and share only the database:

- **request handlers**: one SQLAlchemy session per request.  Isolation is READ
  COMMITTED, rows carry no version column, and only a few handlers take
  `FOR UPDATE`; a handler that awaits the gateway holds what it read meanwhile;
- **the webhook** `POST /payments/webhooks/asaas`: the gateway's events, at least
  once and in any order; an event id is recorded in `webhook_events`, committed
  *before* the event's effect, and deleted when the effect fails;
- **the scheduler** (`operational_scheduler_service`): every cycle it runs its
  tasks one by one, under a Postgres advisory lock, and cron routes run the
  billing and expiry sweeps.

### Components

| component | state | operations | correct when | modelled |
|---|---|---|---|---|
| Walk matching and lifecycle (`operational_matching_service`, walk routes of `walks`, `walker`, `admin`, `operational_walks`) | `walks`, `walk_matching_attempts`, `walk_completion_reviews` | create, release, start, rematch, accept, decline, expire, decide, serve, report, review, cancel, recover, raw status | a searching walk has a live offer; only who accepted serves; answers are final; budget and exclusive choice respected; completed only on approval | `WalkMatching`, `OfferRaces` |
| Walk payments (`payments.py`, unpaid-walk task) | `payments`, `webhook_events`, the gateway's charges | create/regenerate charge, webhook, cancel charge, refund | the books say what the gateway says; a confirmed payment leaves only by a refund; money that arrives moves the walk | `WalkPayments` |
| Cancellation settlement (`cancel_walk_service`, tutor decision) | payment refund columns, compensation review | partial refund, compensation | a refund is settled; compensation paid once | refund: `WalkPayments`; walk: `WalkMatching`; compensation: `WalkerWallet` |
| Plan credits (`recurring_plan_service`, `credit_expiry`, `credit_refund`) | `tutor_subscriptions`, credit ledger | subscribe, consume, return, grant, renew, reverse, expire, cancel, downgrade | no period gives more walks than its credits; spent credits were paid for; who paid gets them | `PlanCredits` |
| Coupons (`coupon_service`) | `coupons`, `coupon_redemptions` | redeem, edit | a redemption is atomic; a free walk is covered | `CouponUse`, abstractly `Voucher` |
| Referrals (`tutor_referrals`, `tutor_referral_rewards`, `walker_referrals`) | `tutor_referrals`, `walker_referrals`, bonus entries | invite, link, convert, reward, staff decisions | each side is rewarded once | `TutorReferrals`, `WalkerReferrals` |
| Shared walks (`shared_walk_service`) | `shared_walks`, participants | create, join, check out, confirm, cancel | group within its limits; confirmed only when paid; nobody left behind | `SharedWalks` |
| Walker wallet (`walker_earning_service`, `walker_payout_service`, withdrawals) | `walker_earnings`, withdrawal `payments` | accrue, compensate, void, request, approve, reject, transfer | a transfer leaves once; never overdrawn | `WalkerWallet` |
| Commission billing (`commission_billing_service`) | `commission_entries` | accrue, reverse, bill, mark paid | charges and entries agree; a reversed walk is settled | `CommissionBilling` |
| Tips (`walks` tip routes, tip webhook) | `walk_tips` | checkout, webhook | one open session; only money received counts | `TipLedger` |
| SaaS billing (`tenant_saas_billing_service`) | `tenant_saas_subscriptions`, `tenants.status` | start, cancel, webhook, overdue sweep | billed once; a live row is billed | `SaasBilling` |
| Fiscal notes (`nfse_service`) | `nfse_invoices` | issue, webhook | one note stands per bill | `FiscalNotes` |
| Tenant plans (`tenant_free_plan_service`, `tenant_plan_service`, `tenant_units_admin_service`) | `tenants` plan columns | create, change, negotiate, end of trial, limits | the plan rules commission, limits and subscriptions | `TenantPlans` |
| Walker onboarding, checks, training, network (`partner_application`, `background*`, `walker_training*`, `walker_network`) | profiles, certificates, quiz progress, links | apply, decide, validate, expire, grade, link, accept, revoke | only who may work works | `WalkerApplication`, `WalkerBackground`, `WalkerTraining`, `WalkerNetwork` |
| Walker CR wallet (`walker_cr_service`, boost, weekly mission) | wallet, transactions | earn, spend, penalty, mission | a deed pays once; totals are the transactions' | `WalkerCredits` |
| Accounts (`auth.py`) | password hash, `token_version`, reset codes | login, refresh, change, reset, logout | old sessions and used codes fail | `Accounts` |
| Data rights (`data_subject_rights_service`) | the person's rows | delete account | nothing pending and no address is left | `AccountDeletion` |
| Complaints (`complaint_service`) | `complaints`, `risk_scores` | file, restate | the risk adds up | `Complaints` |
| Cost alerts (`cost_alert_service`) | `cost_alerts`, `cost_alert_events` | edit, pause, evaluate | a threshold crossed is told, and once | `CostAlerts` |
| Legal texts of a tenant (`tenant_legal_document_service`, `legal_gate`) | `tenant_legal_documents`, `legal_acceptances` | publish, restore, accept, pass | who passes accepted the text in force | `LegalTerms` |
| Chat of a walk (`protected_chat`) | `protected_chat_messages` | send, list, mark read | what is marked read was seen by who it was for | `Conversations` |
| Support tickets (`support_tickets`) | `support_tickets` | open, work on, answer | the author is told of the answer in force | `SupportTickets` |
| Notifications and push (`notifications`, `push_notifications`) | `notifications`, `push_tokens`, the executor's jobs | register, notify, send, retry, read | a push rings for whom it is; a live device stays registered | `Inbox`; the log of failures: `Scheduler` |
| Track of a walk (`walk_locations`, `live_share`) | `walk_location_pings`, the share link | record, send, poll, show | the tutor's app sees all that is saved; the public view hides home | `LiveTracking` |
| Emergency calls (`walk_emergency_service`) | `walk_emergency_calls` | press, bridge, record, tell | both the tutor and the staff are told | `EmergencyCalls` |
| Limits on attempts (`login_rate_limiter`) | a counter in Redis, lists in memory | check, count, forget | guesses are bounded; who is blocked is let in again | `RateLimiter` |
| Tenant of a request (`tenant_resolver_service`, `database`, `tenant_scope`) | the resolver's cache, the setting of a transaction | resolve, remember, tell, commit | each transaction works under the tenant last given | `TenantScope` |
| Configuration cache (`data_cache`, `tenant_app_config_service`) | Redis, a fallback per process | read, store, invalidate | stale no longer than its life | `ConfigCache` |
| Scheduler (`operational_scheduler_service`, push retry) | locks, operational log | cycle, reminders, recovery signals, retries | done once per turn, whoever runs it | `Scheduler` (its expiries are in `WalkMatching` and `WalkPayments`) |

### What is hard here

1. Offers expire in the scheduler, in reads and at accept time, while the walker
   answers, the tutor decides and staff rematch by hand.
2. A payment's confirmation and the start of the search it releases are two
   transactions; the second is best effort.
3. A handler reads a row, awaits the gateway for up to 20 seconds, and writes what
   it decided before the call.
4. Webhook events are repeated and reordered; the deduplication marker and the
   effect are separate transactions.
5. Credits are spent, granted, renewed, refunded and expired by five code paths.
6. Staff write statuses directly.
7. Most services read, decide in Python and write what they computed: two requests that
   cross lose one of the updates, unless an index, a conditional UPDATE or a lock of the
   row stops the second.
8. Every process runs the scheduler's loop, and what it did is remembered in rows of a log.

`PROJECT.json` lists the hazards at their lines, with the properties that would catch them.

## 2. Plan

The order followed: first what decides walks and money (`WalkMatching`, `WalkPayments`,
`PlanCredits`), then the ledgers these feed (`WalkerWallet`, `CommissionBilling`,
`TipLedger`, `SaasBilling`, `FiscalNotes`), what is sold beside a walk (`CouponUse`,
`SharedWalks`, the referrals), then what decides who may work and what a tenant may do, and
the scheduler, and what people are told.  Proofs follow the hazards: the three core modules
first, then, component by component, the two unions `Market` and `Office`, then `Backstage`.

Left, in this order:

1. `BookingSystem`: one walk with its matching, payment and credit composed.  Today each
   module holds the little it reads of the others (`paid`, `covered`, `released`) as state
   that changes freely, which over-approximates them; the composition would state that a
   covered walk is not charged and a cancelled one is settled once.
2. Abstract specifications for the other ledgers: a purse for `PlanCredits` and for
   `WalkerWallet`, as `Voucher` is for `CouponUse`.
3. Theorems about the abstract specifications of 1 and 2, once stated: that each component
   implements its own, as `RedemptionsAreAtomic` does for coupons.
4. The remaining tasks of the scheduler, the staff side of tips and of CR credits.
5. Pure algorithms: split and rounding, period end, payable date.

## 3. Modules

### `WalkMatching`

One walk.  `walk` is its row of `walks` with its `walk_matching_attempts` as the
sequence `offers`; `finished` is `matching_finished_at IS NOT NULL`; `review` is
the status of the completion report per walker; `paid` and `covered` say whether
a payment is confirmed or a plan credit pays; `starting` says that a handler has
committed the release of the walk and not yet run `start_matching`.  `orphan` is
a ghost: that start failed.

One action per handler, named after it: `Accept`, `Decline`, `ExpireOffers`
(scheduler and the reads that sweep first), `StartRoute`, `RematchRoute`,
`PaymentConfirmed`, `PlanConfirmed`, `CancelWalk`, `Recover`, ...  A handler is
one transaction and so one step; the webhook and confirm-plan commit twice and are
two.  A handler that raises rolls back and is a step that does not happen.
`Sweep` and `Rematches` carry `process_expired_attempts`: the due offers expire in
order and each expiry calls `rematch`, until the walk stops waiting.

Abstracted: who is eligible (any walker not excluded, or nobody), time (an offer
becomes `due`), notifications, logs, addresses.  Two handlers are never
interleaved inside their transactions here: see the hazards of kind `atomicity`.

| run | instance | shows |
|---|---|---|
| `walk_safety` | 3 walkers (symmetric), 2 attempts, new searches while fewer than 3 offers | the invariants and action properties, all handlers except raw writes |
| `walk_overrides` | 2 walkers, raw writes of a waiting and a serving status, gate off | the offers' own rules survive raw writes; `SearchHasOffer` and `ServedByAccepter` do not, which is why the theorems exclude them |
| `walk_liveness` | 2 walkers, fairness | every search ends |

Bounds: `MaxAttempts` 2 (the code's default is 3) already has a first offer, a
rematch and an exhausted search; `MaxOffers` only stops *new* searches, and leaves
room for a second one after the tutor's decision; three walkers leave a third to
be chosen after two answers.

Fairness (`walk_liveness`): `Elapse` - time passes; `ExpireOffers` - the scheduler
runs `matching_expiration` in every cycle; `StartAfterRelease \/ StartFails` - a
handler that started ends.  No fairness is assumed of walkers, tutors or staff.

### `WalkPayments`

The money of one walk.  `walk` is its `operational_status` as far as money is concerned
(`released` stands for every status of a search or of the service after it, `decision` for
the two in which the tutor may decide), and whether a plan credit covers it; `row` are its rows of
`payments`, with `status` grouped as the code groups it (pending, confirmed, refunded, failed,
regenerated) and `refund_status`; `gate` is what the gateway knows of each charge; `mail` are the
events it has not delivered; `task[h]` is what request or scheduler run `h` holds, `hook[w]` what
delivery `w` of an event holds, between their reads and their commits.

A handler is split at its gateway calls and between what it reads and what it commits:
`BeginCreate` (checks, pending rows, deletion of their charges), `Regenerate` (their rows),
`Charge` (new charge and row) are `create_payment`; `CancelUnpaid` or `BeginCancel`, then
`CommitCancel` or `CommitWalk`, the two cancel routes through `process_tutor_cancellation`;
`BeginRefund`, `DecideAgain`, then `CommitWalk`, the tutor's decision; `BeginDelete` and
`CommitWalk` the deletion; `BeginExpire`, `ExpireCharges`, `CommitExpire` the expiry task.  Three
facts about the session shape them: it does not autoflush, so nothing is written or
locked before the commit; a commit writes only columns whose value differs from the
one loaded (`Written`), without looking at what the row is by then; an UPDATE of a
deleted row fails the commit (`CommitFails`).  Only what one statement decides is one action:
`PlanConfirmed` is a conditional UPDATE.

The branch of a walk payment in `asaas_webhook` is three actions: `BeginWebhook` commits the event's
marker and reads the row, without a lock; `ReadWalk` reads the walk of a payment that is to be
confirmed; `CommitWebhook` writes both, over whatever they have become.  `Resolve` is
`resolve_payment_webhook_status`, applied to the status as read.  `Taken` is the deduplication,
which needs an event id (`NoIds` are kinds that come without); `WebhookFails` a commit that fails
because the walk is gone (the marker is removed, the event comes again); `WebhookDies` a crash
between the marker's commit and the effect's.

The routes that ask for no payment are there too: `SearchByHand` (matching/start, rematch,
continue_search) and `RawStatus` (the status as given, by the tutor's PUT or the admin's PATCH).
External: `Pay`, `Lapse` (a card charge stays payable after its due date, a Pix one does not), the
gateway's answers, which may be lost after the money moved (`AskRefund`).

Abstracted: time (a pending row is recent or not, the cut-off has passed or not: free
choice), amounts (all, or a part), the tutor's data, tips and subscriptions, payments
without a walk, the charge made up when the sandbox is down.

Two ghosts.  `walk.hand` says that somebody asked for the status by a route that asks for no
payment.  `row[c].lost` says that the books lost something of the payment, in one of three ways: a
regeneration was written over a row the webhook confirmed during the gateway call; an event whose
delivery read the row before another recorded the payment was committed after it; an event was lost
between its marker and its effect.

| run | instance | shows |
|---|---|---|
| `pay_safety` | 2 handlers, 2 deliveries (each symmetric), 2 of the four in flight, 1 charge, cards, crashes, failures without event id | the invariants and action properties: books against gateway, at all times and when settled; the walk against its payments |
| `pay_recorded` | 1 handler, 1 delivery, 1 charge, two events per payment, crashes, fairness | paid and returned money is recorded eventually (`MoneyIsRecorded`), also across a regeneration |
| `pay_stuck` | 1 handler, 1 delivery, 1 charge | a statement of the repository that the code does not keep |

Bounds: every race of these handlers is between two of them - requests, deliveries, or one of
each - hence `MaxInFlight` 2 of two requests and two deliveries; one charge suffices, since handlers
touch each row by itself and a regenerated row is still paid by its old charge.  What the properties
tell of a crossing they name by what is overwritten (`Overtaken`, `WalkOvertaken`, `lost`), never by
the number of handlers; the proofs have no bound at all.  Counterexamples reached the same way and not
kept as runs (most are hazards in `PROJECT.json`): an `OVERDUE` that read a pending row is committed
over `CONFIRMED`, and stays, though the comment at `payments.py:1680` has a late event never take a
confirmed payment back; a cancellation commits between the webhook's read of the walk and its
commit, and a confirmed payment stands beside a cancelled walk; two requests that see no pending
row create two pending charges; a walk covered by the plan keeps a payable charge; a partial refund
leaves the payment open to a second decision; a cancellation writes `pending` over the `done` of its
own refund's event; a deleted walk's charge is paid.

Fairness (`pay_recorded`): the gateway sends an event until the webhook answers 200, and a delivery a
process has begun it ends, unless it dies.

### `PlanCredits`

The plan of one tutor.  `sub` are the rows of `tutor_subscriptions`, in the order they
were created: `credits` and `granted` are `credits_remaining` and `credits_granted`,
`down` says that the cancellation's reason was the tenant's downgrade, `over` that
`current_period_end` has passed, `broken` and `reversed` are the breakage and reversal
entries of the credit ledger.  `walk` are the tutor's walks with the subscription that
paid (`by`), whether the credit came back (`back`), and the subscriptions whose current
period began after the walk was created (`older`), which is what
`refund_credit_for_walk` compares.  `bill` and `mail` are the gateway; `task[h]` is the
request, webhook or sweep `h` with what it loaded.

Handlers that load a subscription and write it later are two actions: `BeginHook` /
`CommitHook` (the subscription branch of the webhook), `BeginSubscribe` /
`CommitSubscribe` or `SubscribeFails`, `BeginCancel` / `CommitCancel`, `BeginDowngrade` /
`CommitDowngrade`, `BeginSweep` / `CommitSweep`.  The webhook selects the row, then selects
it again `FOR UPDATE`; the session already holds it and does not refresh it
(`populate_existing` is not asked for), so the decision rests on the first read
(`task[h].read`), while the write is a commit of the changed columns (`Written`).  Spending
(`ConfirmPlan`) is a relative UPDATE with its condition in the statement, and one action.
Returning is two: `BeginReturn` reads the subscription and decides in Python that the credit is
due, `CommitReturn` sets the walk's flag where it is not set and adds one to the credits,
whatever the subscription is by then (`CancelWalk` is a cancellation that returns nothing).

External: `Pay`, `Overdue`, `Refund`.  A bill can be paid early, late, or after the
subscription was cancelled there, as the gateway allows; events arrive in any order.
`again`, `stray` and `paidIn` are ghosts: a grant decided on a stale read, the credits returned
by a handler that had read an earlier period, and the period a walk's credit was spent in.

Abstracted: time (a period ends at any moment, `Elapse`), amounts and the entries'
values, the credit ledger's flag (on), referral bonus credits, other tutors of the
tenant in a downgrade, notifications.

| run | instance | shows |
|---|---|---|
| `credits_races` | 2 handlers, 1 walk, 2 subscriptions with 2 credits, 1 bill, 2 periods; from the second subscription on one handler at a time, within one period, one event in the mail | the types; no period gives more walks than it has credits and than were returned across a renewal, one each; who paid is granted; covered walks follow a paid bill when plans are changed, cancelled and downgraded |
| `credits_regranted` | 2 handlers, 1 subscription | "the second delivery sees the flag already set": it does not, the grant is made twice |

Bounds: a stale read takes two handlers and one subscription; what a second subscription
adds (which one pays, credits that survive a downgrade) takes one handler.  Two periods
are one renewal, enough for a walk of the period before; two credits let one be spent
while one is left.  No fairness is assumed: no liveness is stated here.

Counterexamples reached with other values and not kept as runs: a payment or overdue event
decided before a cancellation and written after it brings the subscription back; a card
payment's `RECEIVED`, a month after its `CONFIRMED`, renews the period without a new bill;
an overdue subscription is not ended by a new one and comes back beside it; an `OVERDUE`
delivered after the payment of the same bill puts the tutor in arrears.

### The other components

All follow one convention.  A handler that reads, maybe waits for the gateway, and commits
later is an action `Begin...` (its guards and what it read, kept in a record of the request:
`ask`, `run`, `task`, `req`, `desk`, `form`, ...) and an action `Commit...` (what it writes,
computed from what it *read*, unless the code writes relative to the row or locks it).  A
handler with nothing in between is one action.  Two requests are in flight, which is what a
lost update, a stale check or a double effect needs.  Where the code really loses an update a
property excuses exactly that case, through a ghost variable set by the step that overlaps
(`raced`, `crossed`, `split`, `lost`, `hurried`, ...): what remains claimed is that no *other*
sequence of calls breaks it.  Each exception is a hazard of `PROJECT.json`.

| module | one instance is | how the state maps | what may go wrong |
|---|---|---|---|
| `CouponUse` | one coupon, its tutors and walks | `coupon` its row, `redeemed` rows of `coupon_redemptions`, `checkout` requests; `Take` is the conditional UPDATE, which holds the row until `CommitRedeem` | the last use taken twice, a second use by one tutor, a walk opened that is not covered |
| `Voucher` | what a coupon promises | the limit, uses, uses of each user; a redemption is one step | - |
| `TutorReferrals` | one invitation | `invite` its row, `kept` credits held back, `given` what each side got | a side rewarded twice or never when its subscription lapses and begins |
| `WalkerReferrals` | one referral and who registers with it | `referral`, `bonus` rows of the wallets keyed by walk, `walked` approved walks | a bonus paid twice by two approvals or a status taken back |
| `SharedWalks` | one session | `session`, `seats` the participations, `asked` requests | a group over its limits, a confirmed member who did not pay, somebody left in a cancelled session |
| `WalkerWallet` | one walker of one tenant | `walk` earnings and internal payments, `wd` withdrawals, `mail` failed transfers, `task` approvals and requests with the lock they hold | a transfer repeated, more withdrawn than earned |
| `CommissionBilling` | one tenant, months | `entry` rows per walk and per credit, `charge` the gateway's, `run` billing runs | a walk in two charges, a reversal lost between read and commit |
| `TipLedger` | tips of one tutor for one walk | `tip`, `told` events on their way, `ask` checkouts | two open sessions, a tip counted that nobody paid |
| `SaasBilling` | one tenant | `sub` rows, `gw` gateway, `req` requests, `news` events; a flushed row holds the partial unique index | billed twice, or a live row not billed |
| `FiscalNotes` | one paid bill | `nfse` rows, `issued` notes at the gateway, `post` their events, `asking` webhooks that wait | two notes stand |
| `TenantPlans` | one tenant | `plan`, `trial`, `rate`, `used` counted rows, `tsub` tutors' subscriptions | a commission of another plan, a limit passed, a tutor charged after the trial |
| `WalkerApplication` | one walker | `profile`, `verified`, `desk` requests with what they loaded; a commit writes the columns that differ | a walker who works while not active, or activates themselves |
| `WalkerBackground` | one walker | `cert`, `seal` the aggregate, `clerk` requests | a seal that outlives a certificate |
| `WalkerNetwork` | one walker, two tenants | `link`, `network` profile, `demands`, `answer` acceptances | in a pool without the tenant's requirements; a count that is stale |
| `WalkerTraining` | one walker, two versions of the manual | `manual`, `score`, `diploma`, `quiz` | trained without a module, or all passed and not marked |
| `WalkerCredits` | one walker | `wallet`, `earns`, `boosts`, `mission`, `duty` | a deed paid twice, more spent than earned |
| `Accounts` | one account | `user`, `codes`, `sessions`, `call` | a session or a code that survives a change |
| `AccountDeletion` | one person | `account`, `outing`, `recurring`, `purse`, `form` | a deleted person with a walk, bill or address |
| `Complaints` | complaints about one subject | `filed`, `risk`, `filing` | a second risk row, a risk that is not the sum |
| `OfferRaces` | one search | `walk`, `offers`, `request` what each transaction loaded, closed and made, `locker` who has the row locked | a walk given to who was not asked, a substitute sought for an accepted offer |
| `CostAlerts` | one alert | `alert`, `spent`, `events`, `sweep` the evaluation, `edit` requests | told twice, or never |
| `LegalTerms` | one document, one person | `texts`, `accepted`, `publisher` requests (`desk`), `passed` | let through without the text in force |
| `TenantScope` | one key, its processes | `owner`, `identity` what is remembered, `session` what each session and transaction is told | a transaction under another tenant, an identity that outlives its life |
| `ConfigCache` | one tenant's configuration | `version`, `replica`, `redis`, `fallback`, `reading` requests | a configuration served long after it was superseded |
| `Conversations` | the chat of one walk, whose walker may be replaced | `walk`, `chat` its messages, `desk` readers with what they loaded | a message marked read by who never got it, or read by who came late |
| `SupportTickets` | one ticket | `ticket`, `desk` PATCH requests with what they loaded | the author told of no answer, or of one that was written over |
| `Inbox` | the notifications of one tenant | `tokens`, `phone` devices, `notes` rows, `jobs` pushes in the executor, `desk` requests | a push that rings on a device that changed hands, a live device deleted |
| `LiveTracking` | the track of one walk | `phone` what the walker recorded, `rows` pings, `tutor` what the app saw, `link`, `shown` | a saved position the app never asks for, home shown to the public |
| `EmergencyCalls` | the button of one walk | `walk`, `calls` rows, `press` requests | a call nobody hears of |
| `RateLimiter` | one key | `redis` counter, `ages` failures in memory, `desk` attempts | more guesses than the limit, a block that never ends |
| `Scheduler` | all workers | `lock`, `cycle`, `offer`, `journal` the log, `tried`, `crashes` | a reminder, a signal or a retry done twice |

Three unions check them: `Market` (what is sold, owed and billed; run on `MCMarket`), `Office`
(what staff, walkers and tutors settle away from any walk; `MCOffice`) and `Backstage` (what runs
behind every request, and what people are told).  The components of a union share no row of the
database, so nothing of one can disturb another, and a behaviour picks one of them (`part`):
every behaviour of each component is explored, and the numbers of states add up instead of
multiplying.  Each property is that of the components it names, guarded by `part`.

| run | instance | shows |
|---|---|---|
| `market` | 2 requests; 2 walks, tutors, tips, withdrawals, subscriptions or events each; limits 1 and 2; 2 months | redemption as on an atomic voucher (a refinement), covered free walks, referrals paid once, shared groups settled, nothing withdrawn twice or overdrawn, charges and entries agree, tips follow money, the platform bills once, one fiscal note |
| `office` | 2 requests; 2 certificates, versions, modules, tenants; 3 complaints worth 10, 44 or 70; 3 passwords; 3 texts | the plan is in force, a walker works by leave (`WorksByLeave`), the CR wallet and the risk are sums (`TotalsAddUp`), and what lets anybody in was earned (`AccessIsEarned`: secrets, deletion, terms, seal, pool, diploma) |
| `backstage` | 2 requests; 2 workers, 1 crash, a log window of 2; 3 walkers, 2 offers; 2 budgets and periods; lives of 2 ticks; 1 device, 2 users; 2 messages, 2 answers, 3 positions, 2 calls, 2 failures | offers and walk agree, the scheduler's tasks and cost alerts are done once, the tenant is current, people are served (`PeopleAreServed`) |
| `network_served` | 2 tenants | a statement of a test that the code does not keep (section 5) |

Bounds: two of everything is the least that lets one overtake the other; months, versions
and plans come in the number that allows one change and one return; `MaxLost`, `MaxCharges`,
`MaxRows`, `MaxEvents`, `MaxSignals`, `MaxCrashes`, `MaxBoosts`, `MaxCodes` only stop the
environment from repeating itself.  The window of the log is 2 instead of 20 and is passed by
three signalled walks.  Complaints are worth 10, 44 or 70, so that sums below, at and above the
cap of 100 are reached.

`TenantScope` and `ConfigCache` count time in ticks: a life in a cache is `TTL` ticks, a request
that looks something up is held up for at most `Patience`, the replica lags by at most `Lag`.
The properties are stated in these bounds, so what they say is independent of their values; 2
and 1 are enough for a lookup that ends after a change and an entry that expires.

Abstracted everywhere: amounts (units), texts, notifications, tenancy filters, time (what
falls due does so at any moment).  No fairness is assumed: nothing is said to happen.

**Refinement.** `CouponUse` declares `Voucher == INSTANCE Voucher WITH` the highest limit
so far, the counter less the requests that hold the row, and the redemptions; the run checks
`Voucher!Spec` as a property and section 4 proves it.  A `Take` is invisible; the commit is
the step of the voucher; a rejected or failed request leaves no trace.

## 4. Proofs

`WalkMatchingProofs` proves for every set of walkers, every attempt limit and
bound:

- `TypeCorrect`: `Spec => []TypeOK`;
- `ServiceIsAccepted`: `Spec => []ServedByAccepter`;
- `NoOrphanSearch`: `Spec => []SearchHasOffer`;
- `CompletionIsApproved`: `Spec => []CompletedOnApproval`;
- `AnswersStand`, `AttemptsAreBounded`, `ChoiceIsKept`: the action properties
  `AnswersAreFinal`, `AttemptBudget`, `ExclusiveChoiceKept`;

the second and the third under the assumption that no waiting or serving status is written
by hand (`RawStatuses` meets neither `Waiting` nor `Serving`).  None is inductive
without the types, so the invariant is
`Inv == TypeOK /\ CompletedOnApproval /\ (Clean => SearchHasOffer /\ ServedByAccepter)`.  The proof follows
the code: lemmas about the row operators (`Close`, `SendOffer`, `SearchOn`,
`GiveUp`, `Unavailable`), then about the composite ones (`Rematches`, `Sweep`,
`StartMatching`, `Accepted`) - each keeps the walk typed, never adds an acceptance
except for the accepter, leaves a waiting walk with an offer, and never leads into a status of
the service or into completion (`Engaged`) - then one lemma
per action, and the temporal theorems in three steps.

The action properties need no invariant of the offers but the types: they rest on `StepsMove`,
what any step may do to the row (`Moves`).  What the search does by itself is `Searched`: offers
keep their walker and answered ones their answer, new ones go to walkers not tried, none is
made once the attempts are used up or while the tutor's choice stands.  It composes
(`SearchedOn`), so lemmas about the row operators add up to the handlers'; a tutor's own
invitation is one offer more (`Answers`), and the choice is kept (`Chosen`) or lifted from a
decision of the tutor (`Lifted`).  `AnswersStand` and `AttemptsAreBounded` hold whatever statuses
are written by hand.  `ChoiceIsKept` assumes that `auto_rematching` is not (as in
`walk_overrides`): it adds the inductive `NotSearching`, that a walk of one chosen walker is
never under automatic search, without which lifting would not start from a decision.

Model-checked only: `SearchEnds`, being liveness.

`WalkPaymentsProofs` proves for every set of handlers and of deliveries in flight, every number of
charges, any kinds without id, with and without cards and crashes:

- `TypeCorrect`, `BooksAreTrue`, `SearchIsPaid`: `TypeOK`, `BooksMatchGateway`,
  `ReleasedIsPaid` always hold;
- `StatusNeverRegresses`, `PaymentReachesWalk`: the action properties `NoRegression`,
  `MoneyMovesTheWalk`;
- `BooksSettleInTheEnd`: `Spec => []BooksSettle`.

`BooksMatchGateway` is not inductive: an event in the mail writes the books, so the
mail must tell the truth (`MailIsTrue`: an event says what the gateway already did,
and the gateway never takes money back from *paid* but by a refund), so must a delivery in flight,
with the row it loaded however long ago (`HooksAreTrue`), and what a handler holds must be rows
that exist, and a search only of a walk that was paid (`TasksAreSound`).  Hence
`Inv == TypeOK /\ TasksAreSound /\ HooksAreTrue /\ RowsAreSound /\ MailIsTrue /\ ReleasedIsPaid`.
Lemmas say what the gateway's steps keep (`Grows`, `Onward`), what holding and freeing a task or a
delivery keeps, that a regenerated row claims nothing; one lemma per group of actions follows.  The
action properties rest on `StatusSteps`: the only ways a step changes a row's status.

`BooksSettle` speaks of the moment when nothing is in flight; its invariant `Books` says what is
*owed* to the books until then (`Owed`): money the gateway took or gave back is recorded, or an event
that will record it is in the mail or held by a delivery - unless the row lost it.  A delivery that
will not record what it should is one whose row was overwritten meanwhile (`Remembered`): that is
what makes two deliveries at once no exception to the proof.

Model-checked only: `MoneyIsRecorded`, being liveness.

`PlanCreditsProofs` proves for every set of handlers, every finite set of walks, any
number of credits, subscriptions, bills and periods:

- `TypeCorrect`: `Spec => []TypeOK`;
- `CreditsFollowMoney`: `Spec => []CoveredIsPaid`;
- `PeriodsAreBounded`: `Spec => []NoFreeWalk`;
- `PaymentGrants`: `Spec => []PaidIsGranted`.

The inductive invariant is `Inv == TypeOK /\ Sound /\ GrantIsComing /\ NoFreeWalk`.
`Sound` says of rows, walks, mail and tasks what makes the rest inductive: only a paid
subscription is granted or has credits, and a handler that loaded a grant loaded what is
still true, since no step takes a grant back; an event of a payment exists only for a paid
bill; a walk's `paidIn` is never ahead of its subscription's period, and a walk paid in an
earlier period is `older`, so who reads it then returns nothing; who is about to return a credit
has read the period it was spent in (`ReturnsAreSound`).
`GrantIsComing` carries `PaidIsGranted`: of a paid subscription that is not granted, a
payment event is in the mail or held by a webhook.  `NoFreeWalk` counts: spending moves one
unit from `credits` to `Drawn`, returning moves it back or, after a renewal, is counted by
`stray`, and a write of `Credits` happens only where `Drawn` is empty (first grant, new period) - or on a stale read, which the
ghost `again` excludes.  The lemma `ChangesKeep` reduces each handler to how it may change
one row; one lemma per group of actions shows that it does only that.

`GrantedOnce` is refuted by its run.

### The unions

`MarketProofs`, `OfficeProofs` and `BackstageProofs` prove about all components of a union
at once.  The names of a component are those of its instance (`Shared!Join`), its invariant is one
definition (`SharedInv`), with an `...Init` lemma and one lemma per action that says the
step keeps it.  The steps of the other components leave its variables alone, so every component keeps its
invariant whatever `part` is: that is `PartsInit` and `PartsNext`, and each
theorem is these two, what the invariant implies, and PTL.  Nothing is assumed but what the modules
say of their constants (`ParametersAssumption` and the like, which the unions ASSUME and TLC
evaluates): bounds are naturals, sets whose members are counted are finite, a default is one
of the values, and special values (`"nobody"`, `"none"`) are no member of the sets.  In
particular sets of requests, people, rows and amounts are arbitrary.

`MarketProofs`:

| theorem | property | invariant |
|---|---|---|
| `RedemptionsAreAtomic`, `FreeWalksAreCovered` | `RedeemsAtomically` (a refinement of `Voucher`), `FreeWalkIsCovered` | `CouponInv`: one request at most holds the coupon's row (`OneHolds`), the counter is at least the holders (`HeldIsCounted`) and not above the highest limit so far, nor is what a request read of it (`WithinTop`). Each step is then a `Raise`, a `Redeem` or a stutter of the voucher: an edit raises or leaves the limit, `Take` raises counter and holders together, `CommitRedeem` makes one holder less |
| `ReferralsArePaidOnce` | `ReferralsPayOnce` | `TutorInv`: until the reward is granted nobody has any of it, and a request that nobody overtook holds back what the row does (`Reading`). `WalkerInv`: the bonuses of an invitation are all there or none, and so are those a request is about to write; walks and approvals under way are within the bound |
| `GroupsAreSettled` | `GroupIsSettled` | `SharedInv`: what a request checked still holds unless its ghost says so (`StillSo`), who has not paid has no bill and who has paid has one (`BillsFit`), no participation without a session |
| `WithdrawalsLeaveOnce` | `TransferredOnce` | `WalletInv`: who transfers holds the lock of the row and nobody else does (`Locked`), and a withdrawal was sent at most once more than answers were lost, that one being recorded or held (`Once`) |
| `NobodyOverdraws` | `NeverOverdrawn` | `Within`: what stands of the withdrawals, and with it a request that holds the walker's lock, is at most the sum of the peaks, of those linked to the tenant and of the others. A request is granted on what the code reads, which covers what stands (`MayTakeFits`); no other step makes a withdrawal stand anew (`NothingStandsAnew`), and peaks only grow |
| `CommissionsAreBooked` | `BooksMatchCharges` | `CommissionInv`: what a billing run has read is of its month, and open unless two runs of the month crossed (`RunFits`); the charge it has made is of these rows, and no row is under it yet (`Charging`); a row that says it is billed is in its charge (`RowFits`) |
| `TipsAreCounted` | `TipsFollowMoney` | `TipInv`: a confirmation on its way says what came; open sessions that were not revived are one |
| `SubscriptionsAreBilled` | `RowsMatchGateway` | `SaasInv`: a row being made is unknown to everybody else (`RowsAreApart`), a request past its first gateway call has ended the row it replaces (`RequestsAreSound`), a flushed row keeps every other live one out until committed (`IndexHolds`); hence what is billed without a lost answer has a live row (`BilledIsLive`), the only one (`NoneTwice`) |
| `NotesStandAlone` | `OneNoteStands` | `FiscalInv`: an event of a note's end is true, and a row that ended has a note that did |
| `TypeCorrect` | `TypeOK` | the types, part of each of them |

The code's sums are `MapThenSumSet` over sets, a recursive function chosen by its equation.
That it exists and what it returns is an induction over finite sets, made first-order: of the
sets in which it would fail, take a minimal one (`Smallest`, from the well-foundedness of
strict inclusion).  So `FoldsExist`, `FoldsAgree` and `SumUnfolds`, from which follow what the proof uses: the sum of
nothing (`TotalOfNone`), taking one out (`TotalTakes`), and that a sum over more, or of
more, is no smaller (`TotalGrows`).

`OfficeProofs`:

| theorem | property | invariant |
|---|---|---|
| `PlansAreInForce` | `PlanIsInForce` | `TenantInv`: a request that writes the rate read the one in force or is marked (`Overlaps`), at the end of a trial every active subscription is one the sweep has read or was made too late (`Swept`), rows that count and requests about to add one exceed the limit by less than the requests there can be (`Within`, `Counting`) |
| `WalkersWorkByLeave` | `WorksByLeave` (an action property) | `ApplicationInv`: a request nobody overtook has loaded what there is, and a walker's own gives neither the flag nor the status (`LoadedFits`) |
| `TotalsAreSums` | `TotalsAddUp` | `CreditInv`: an award pays what was not paid when it was read, and if it has been paid since the wallet shows it (`DutyFits`); the wallet is worth its deeds, missions and boosts unless an update was lost (`BooksFit`). `ComplaintInv`: a complaint nobody overtook goes by the row there is (`FiledOnTop`), the row is the capped sum (`RiskFits`). That sum is a recursive function; the one fact needed of it, that a sum over a longer sequence agrees on the shorter one, is proved by its least counterexample |
| `AccessIsDue` | `AccessIsEarned` | `AccountInv`: a session of the version in force is as old as the last revocation (`SessionFits`), a code that may still be used is one more than the resets (`CodesFit`), a request not marked as late goes by the row as it is (`CallFits`). `DeletionInv`: until a request overtakes a deletion nothing blocks it and the walk is as read (`Certain`). `TermsInv`: the version accepted tells the text (`Telling`). `BackgroundInv`: who is not overtaken has read what there is (`ReadIsNow`). `NetworkInv`: met requirements were cleared. `TrainingInv`: a graded quiz and a flushed diploma fit the scores (`GradedFits`, `FlushedFits`) |
| `TypeCorrect` | `TypeOK` | the types |

`BackstageProofs`:

| theorem | property | invariant |
|---|---|---|
| `OffersTellTheWalk` | `OffersAgree` | `RacesInv`: what a request would write of the walk is an offer it made (`MadeFits`), who accepts has the walk locked as it was read (`AcceptFits`), nobody else has closed what a request has closed (`ClosedAlone`), and until one writes over what it has not read a request closes one offer and replaces it by one to who was not asked, or ends the search (`ClosesOne`, `Substitutes`). That no more offers were made than the walk allows counts them through the walkers asked (`AskedOnce`: a bijection) |
| `TenantsAreCurrent` | `TenantIsCurrent` | `ScopeInv`: a session and its transaction are told what is due (`ToldTrue`), what a lookup answers was true since it began (`AnsweredTrue`), what is remembered was true since a lookup no older than the entry (`RememberedTrue`). `ConfigInv`: what was superseded earlier is no younger and the replica lags within its bound (`AgesAreSound`), what was read was superseded within the lag or during the read (`ReadInTime`), what is stored ends before it is tolerated no more (`EndsInTime`) |
| `PeopleServed` | `PeopleAreServed` | `InboxInv`: a job under way knows whether its device moved or went (`JobFits`), a request under way wrote a note of its kind, apart from the others' (`WritingFits`, `WrittenApart`). `ChatInv`, `SupportInv`: who lists has seen what it marks; an answer no other request crossed is told or about to be. `TrackingInv`: what is saved is seen or came late (`SeenFits`), and rows, with a batch for each request that may still post, stay below the limit (`RowsFit`). `EmergencyInv`: a call has told or tried both, or a request is about to (`Answered`), and recent calls are within the limit. `LimiterInv`: in memory the recent failures are those there were (`InMemory`); in Redis the counter and who was let in are within the limit, and so are the failures younger than the counter and, counted apart, the older (`InRedis`); whoever is counted expires (`Expires`) |
| `TasksDoneOnce` | `TasksAreDoneOnce` | `RemindInv`: who is in its cycle has the lock (`CycleFits`); reminders sent are those logged, those of workers that died, and the one being counted (`Paced`). `RecoverInv`: while the log window holds all that was told (`Few`), every line of it is told once (`Once`), so the window shows all (`RecentIs`: a list without repetition is as long as its set is large) and what is retried was refused twice at most (`RetryFits`). `CostInv`: what is told is an event or about to be, and once but for a sweep that died (`ToldOnce`, `Followed`) |
| `TypeCorrect` | `TypeOK` | the types |

For these the lists of failures are sets of failures, each with its age and its number within the
tick (`WithOne`, in `RateLimiter`): the code asks how many are recent and nothing else of a
list, so a set tells what the list does and is counted by the theorems on finite sets.  What
`SetToSeq` and the like put in one order is put in any order (`InSomeOrder`, in `LiveTracking` and
`Scheduler`): the code promises none.  `RetriedOnce` names the case in which it is false, more
pushes retried within the hour than `_recent_log_exists` looks back, as `SignalledOnce` did
before: the instance never met it, the proof did.

Proving corrected the model in five places, each compared with the code again: a participation
can be stale when its session ends (`SharedWalks`), a decision needs a profile that may be decided
(`MayDecide`, `WalkerApplication`), the password a session was opened with (`Accounts`), the
bound and the cap of the risk (`Complaints`), and which writers of the rate mark which
(`TenantPlans`: only writers of the rate itself mark the others).

### What stays with TLC

- Liveness: `SearchEnds`, `MoneyIsRecorded`; the provers do not do ENABLED and fairness.
- The three statements of section 5, which are false.

Every other property a run checks is a theorem.  `ServedByAccepter`, `SearchHasOffer` and
`ExclusiveChoiceKept` are so under an assumption on the statuses written by hand, which the run
that checks them meets; all others for all values the modules assume of their constants.

## 5. Statements the code does not keep

| run | statement | what happens |
|---|---|---|
| `pay_stuck` | a late confirmation lets the tutor decide (`payments.py:1712`) | the expiry of unpaid walks commits over a confirmation that came during its gateway call: cancelled, paid, nobody is asked |
| `credits_regranted` | "a 2a agora ve o flag" (`recurring_plan_service.py:659`) | the second webhook waits for the lock with a row already loaded, and grants again |
| `network_served` | revoking takes the count to 0 (`test_multitenant_walker_phase1_step8.py:183`) | sessions do not flush by themselves, and the count is taken from before the change |

Reached while modelling, and not stated as runs: "só cacheamos resoluções POSITIVAS, para não
fixar um tenant inexistente" (`tenant_resolver_service.py:116`) holds only in the strict mode:
otherwise the default tenant stands in for the one about to be created, and is remembered for
300 seconds (`clear_tenant_cache` is called by no code of the application); a sweep of offers
that began before an acceptance expires the accepted offer and gives the walk to another;
"no maximo UMA versao ativa" (`tenant_legal_document_service.py:4`) fails when publications
cross, and an acceptance records the version in force at the click, not the one that was shown;
the notice of an answer is flushed after the only commit of the
request (`_notify_support_reply` in `support_tickets.py:268`, whose test at
`test_routes_support_tickets.py:577` finds it in the same session), so the author is told only by
a push; a cost alert's hit of the old budget is recorded under the version of the new one, which then
stays silent; an event that read a pending row is committed over the confirmation that came
meanwhile ("atrasado", `payments.py:1681`); "passeio do ciclo atual"
(`recurring_plan_service.py:697`) is decided before the credit is added, and a renewal between the
two gives the new period one more; the manual matching routes and a status by hand start a search
without a payment; only accept locks the walk; a partial refund or a late `RECEIVED` runs the
branch of a fresh confirmation; `refund_status` is written after the await over the event's
`done`; a charge stays payable after the plan covered the walk; the previous subscription of a
tutor is cancelled at the gateway before the new one exists; a suspension staff wrote is
lifted by a payment, since `update_tenant` leaves `suspended_reason`; the start of a SaaS
subscription blocks its own event loop while it waits for a flushed row.

## 6. Not modelled

- Ranking and eligibility (`matching_service`, `walker_network_matching_service`): scores over
  data; the models let the search return any walker or nobody.
- RBAC and the row policies themselves: filters of each request with no state of their own
  (which tenant a transaction is told is in `TenantScope`).
- E-mail, WhatsApp, the texts and channels of notifications.
- Pets, health, diary, routine, stored files: records with one writer and no protocol, or pure
  I/O.
- Incentives, badges, levels, metrics and reports: computed from what is stored; they decide nothing.
- Split, pricing and period arithmetic: pure functions of amounts, which the models take as units.
- What branding and settings say, onboarding of tenants: configuration (its cache is in
  `ConfigCache`).
- Social login and expiry of tokens by time.
