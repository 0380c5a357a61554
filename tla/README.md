# Landmark in TLA+

Landmark is a Flask application over one PostgreSQL database: a directory of local
businesses with paid plans (Razorpay), a referral programme that pays commissions into a
wallet, monthly growth rewards, and a point-of-sale (POS) product with plans of its own.
This directory specifies the parts in which money, entitlements, accounts and authority move, checks them with
TLC on small instances and proves the main results with TLAPS for every instance.

All of it is translated from the source in `src/`; `PROJECT.json` gives, for every definition
that models code, the file and the lines it stands for.

## 1. The system

`gunicorn.conf.py` runs one worker process with four threads. Each request opens
connections of a pool (`database/init_db.py:88`, `statement_timeout` 15 s) and runs its own
transactions at READ COMMITTED. Except for the revocation list of tokens nothing is shared in memory: components interact through
rows, row locks (`FOR UPDATE`, `SKIP LOCKED`), guarded `UPDATE ... WHERE status = ...`,
unique indexes and `ON CONFLICT`. Outside there are Razorpay (orders, webhooks that are
repeated, reordered or lost), an SMS provider, and an external scheduler that calls
`/internal/saturday-payout`, `/internal/referral-commission-retry` and
`/internal/recompute-ranks`.

| Component | State | Operations | Modules |
|---|---|---|---|
| Wallet and withdrawals (`services/wallet_service.py`) | `wallet_balance`, `withdraw_requests`, debit and refund rows of `wallet_transactions` | request, approve, reject, mark paid, credit, debit | `WalletLedger`, `Wallet` |
| Payments and subscriptions (`services/payment_service.py`, `routes/payment_routes.py`) | `payments`, plan, expiry and extra slots in `users`, `referral_commission_jobs` | create order, verify, webhook, finalize, extra slot, failed notice, admin grant | `PaymentOrders` |
| Referral commission (`services/referral_commission.py`) | the jobs, commission rows of `wallet_transactions`, `first_sub_commission_paid`, flags | batch of jobs, payout, refund | `CommissionLedger`, `Commission` |
| POS billing (`routes/pos_routes.py` from line 2060, `services/pos_billing_activation.py`) | `pos_billing_orders`, `pos_subscriptions` | create order, verify, webhook, activate | `PosSubscription`, `PosBilling` |
| Rank system (`services/rank_service.py`, `config/rank_config.py`) | `user_rank_stats`, `rank_achievements` | recompute all ranks | `RankConfig`, `RankSystem` |
| Growth rewards (`services/rank_service.py:246-612`) | `rank_rewards` | evaluate a period, approve, reject, pay | `RankConfig`, `GrowthRewards` |
| Login, one-time passwords, signup (`routes/auth_routes.py`, `services/sms_service.py`) | `otp_verifications`, `pending_referrals`, the row in `users` and its `referred_by` | send, resend, verify, suspend | `Login` |
| Sessions (`services/jwt_session.py`, `services/jwt_blocklist.py`, the refresh endpoints of `app.py`) | cookies of the browser, revoked tokens in Redis or in memory | login, page, refresh, logout | `Sessions` |
| POS shops (`routes/pos_routes.py` up to line 1134) | `pos_products`, `pos_inventory`, `pos_sales` | create and update a product, receive, adjust, sell | `PosShop` |
| Organizations (`services/organization_service.py`, `services/organization_authz.py`) | `organizations`, `organization_members`, `organization_invitations`, businesses in `listings` | provision, invite, accept, change role, remove, create, update and delete a business | `Organizations` |
| Listings, reviews, sponsorship (`routes/listing_routes.py`, `services/listing_service.py`, `services/sponsorship.py`) | `listings`, `reviews`, `sponsored_ads` | create, approve, disable, delete, review, sponsor, clean up | `Listings` |
| POS businesses and customers (`routes/pos_routes.py:311-362`, `pos_customers`) | businesses with a limit, customers | create, edit | not modelled |
| Administration (`services/admin_service.py`) | - | decisions on the rows above | the modules above |
| Pages, translations, statistics, agents | - | reads and single statements | not modelled |

What makes each of them correct, in a sentence. Wallet: money is reserved once and is either paid out or given
back. Payments: an order is applied once and leaves exactly one commission job. Commission: one first
bonus for a buyer, each commission paid once, nothing after a refund. POS billing: the time a subscription runs is the
time that was paid. Shop: stock is what was delivered minus what was sold. Ranks: the stored rank is the one the
tree of referrals gives. Rewards: one reward for a user, a period and a kind, within the cap. Login: a bounded number of
guesses for a code, one account for a number. Sessions: a signed-out token opens nothing. Organizations: one owner,
and no member without an invitation. Listings: the limit of the plan, and ratings that are those of the reviews.

### How the money flows

    create_order -> Razorpay -> webhook / verify-payment -> finalize_paid_order
         (payments row)                                        |  one transaction:
                                                               |  plan of the buyer, row 'activated',
                                                               v  commission job 'pending'
    process_pending_referral_commission_jobs -> commission row 'locked'
                                                               |
    Saturday payout -> 'released' and wallet_balance credited  |  refund -> job 'skipped',
                                                               v  row 'reversed', or agent flagged
    request_withdrawal -> balance reserved -> approve / mark paid, or reject -> balance restored

A purchase also changes what `recompute_all_ranks` counts, and the revenue that
`evaluate_monthly_rewards` shares out.

### What is hard in it

* a lookup before a lock, and a decision after it (idempotency keys of withdrawals,
  orders to reuse);
* values read under one lock and used after waiting for another (the time an activation of
  a POS plan counts from);
* notices that arrive twice, in the wrong order, or before the row they are about;
* batches that skip rows locked by others while refunds wait for the same rows;
* recomputations that are repeated while what they read changes;
* chains of short transactions with a call to a provider in between, and no lock from one to the next;
* an authority checked in one query and used in another;
* a revocation list that lives in one of two places;
* transactions that are rolled back in the middle.

`PROJECT.json` lists these hazards at their lines, with the properties that watch them.

## 2. The modules

A transaction is split into a step for each statement between which another transaction can
commit or lock; statements that run under a lock nobody else can see are one step. A lock
is either a variable that names its holder (`walletLock`) or read off the local state of the
transactions (`JobLocked`, `Rivals`, `Inserting`). What a transaction has written becomes
part of the shared variables at its commit, so a rollback only resets local state.

### WalletLedger, Wallet

`WalletLedger` is the promise: a reservation takes its amount out of a balance that covers
it, a decision is made once, only a rejection restores the amount, and the first withdrawal
needs the minimum balance at that very instant. `Wallet` follows `request_withdrawal`:
`Request` (limits, unlocked lookup of the key), `LockWallet` (`SELECT ... FOR UPDATE`),
`ReadHistory`, `CheckRules`, `CommitRequest` or `RollbackRequest` (guarded debit, insert, unique
index), and `Crash`. `BeginReject` and `CommitReject` split `reject_withdrawal` where it waits
for the wallet row. `Ledger == INSTANCE WalletLedger WITH balance <- balance, wd <- wd` is the refinement mapping;
threads, locks and refund rows are hidden.

### PaymentOrders

One row per Razorpay order, one Razorpay payment id per attempt to pay. Razorpay's word is
two growing sets, `captured` and `declined`; a handler may run at any time after its notice
exists and any number of times, which covers lost, late, duplicated and reordered webhooks and
`verify-payment` calls alike. `finalize_paid_order` holds its row lock from the load to the
commit and is one step: `Activate` for a row that waits, `Duplicate` for an activated one.
`grants` counts the writes to the buyer. `plan` names the order a plan came from, so its expiry
needs no clock. `SettleJobs` is what the commission side may do to the outbox.

### CommissionLedger, Commission

`Commission` extends `PaymentOrders`. Batches (`LockJobs`, `HandleJob` for each job, `CommitJobs`, `AbortJobs`),
payouts (`LockPayout`, `CommitPayout`) and refunds (`RefundSkipsJob`, `RefundReverses`) are
transactions that overlap; `Pay` is the payment side, made to wait for the row of a buyer that a
batch has locked. `settled` remembers what the last handled full refund found; it is there for
the properties only. Amounts are abstracted: what matters of a commission is its kind and its
status. `ImplementsPayments` says that `PaymentOrders` is implemented by the composition.

`CommissionLedger` is the promise of the referral programme, with no transactions in it: a set of pending jobs is settled at the
rates that their buyers have reached by then (`Settle`), commissions that are due are released (`Release`), a refund settles the job
it finds and reverses what is locked (`Refund`). `Ledger == INSTANCE CommissionLedger WITH ...` hides the batches, the payouts, the
progress of the refunds and the orders: of an order only remains that its payment earns (`earning`), of a handled refund that it found its job
(`stopped`). `ImplementsCommissionLedger` says that what a transaction has decided under its locks is what the ledger decides at its commit.

### PosSubscription, PosBilling

An activation is four steps: the order `FOR UPDATE` and `now = utcnow()` (`BeginActivation`), the
`INSERT ... ON CONFLICT DO NOTHING` (`ClaimRow`), the locked read of the subscription (`ReadRow`), and
the write with `activated_at` and the commit (`CommitActivation`). Time passes between them,
up to the statement timeout. A paid calendar month is a constant `Month`, so the drift of
`add_one_calendar_month` at the end of a month is abstracted away. No code in the repository
suspends a POS subscription, so `status` is left out.

`PosSubscription` is the promise: a paid order is applied once, in one step, which starts a period (the first, one after an expiry, an
upgrade), renews or leaves a growth plan alone. The one trace of the statements is the wait: the moment as of which an order is applied
lies at most `Wait` before the commit. The mapping reads `paid` and `applied` off the orders and hides attempts, notices and transactions.

### RankConfig, RankSystem

`RankConfig` is the vocabulary of `config/rank_config.py`: the ranks and their order. `parent` and `account` are the users; a recomputation reads them once (`Begin`), iterates
(`Pass`) and writes (`Save`) or rolls back (`Fail`). `Generations` is the recursive query `_DOWNLINE_CTE`, level by level, `Downline` all it
returns. The referral tree is one of `Trees` and never
changes, as `users.referred_by` does not; accounts change between recomputations. `Tiered` is
the reference definition: members from their own referrals, guides from the members
below, and so on, with no iteration.

### GrowthRewards

A run lists the leaders and rangers, reads the total allocated, handles the users of each pool
in any order and commits. Several runs may overlap; an insert of a row that another run has
inserted waits for it. Ranks, bans and revenue change at any time, also between the
statements of a run. Money is counted in the smallest unit and `Share` rounds half up.

### PosShop

A sale takes its lines one by one: `ReadProduct` (no lock), then `TakeStock`, which is the `SELECT ... FOR
UPDATE` and the checks after it. The locks are `held`, which is also the code's
`inventory_deductions`: a row is locked exactly when it will be deducted. `CommitSale` writes the sale and
all deductions; `RefuseProduct`, `RefuseLine` and `AbortSale` roll back. `receive_inventory` and
`adjust_inventory` read the product (`BeginMove`) and then run one upsert that waits for the row
(`Receive`, `Adjust`). `create_product` and `update_product` are one step each: what they read before their write
is the name, which is left out. Prices only decide whether a total is too large, so
`RefuseLine` may happen at any line. Two history variables serve the properties: `book` is
the stock that counts, deliveries and committed sales leave, `began` the products that were tracked
when a sale began. A sale that was on its way when its product got its first stock row may sell without a
deduction, as the code intends for products that are not tracked. `BreakCircle` is PostgreSQL ending one sale of
a circle of waiting sales.

### Login

One phone number. A request is a chain of steps (`pc`): a send checks the row without a lock (`PassCheck`), asks the
provider (`Send`, `SendFails`) and stores the code (`StoreCode`); a verify claims an attempt with one `UPDATE`
(`ClaimAttempt`), asks the provider (`RightCode`, `WrongCode`), binds the referrer and the account in four
transactions (`PersistAgain` to `InsertUser`) and removes the code (`DeleteCode`, `ClearPending`). The provider may answer a send
with the code that is out already, and a right code whose answer is lost is spent. The clocks are two bits of
the row: `fresh` until the cooldown is over, `live` until the code or the lock runs out, each of which may end at any
time. Three history variables serve the properties. `guesses` counts the claims of each code of the provider until the code is
used (`Spend`) or the time of its row is over, whatever becomes of the row meanwhile; `dropped` names the codes
whose row was deleted or overwritten before that (`LetGo`); `overlap` remembers the requests that ran when the row was stored or locked.

### Sessions

One account, one browser, one process with its threads (`gunicorn.conf.py`). A request leaves with the cookies of its moment
(`BeginRequest`), is checked against the revocation list and the account (`Check`; an account that cannot be looked up is let through), and answers (`Serve`, `Mint`, `AnswerLogout`), perhaps
after other answers have changed the cookies. `Revoke` and `IsRevoked` are `revoke_jti` and `is_revoked`: Redis while it
answers, the memory of the process otherwise. `Restart` empties the memory and drops the requests under way. Tokens are numbers and run out
at any time (`Expire`).

### Organizations

Every operation is two steps: the check of `authorize_organization` (`Authorize`, `AuthorizeListing`) or the read before it
(`LookUp`, `ReadInvitation`), then the guarded write with its unique indexes (`Provision`, `Invite`, `Accept`,
`ChangeMemberRole`, ...). In between, other requests change roles, remove members and let plans lapse.
A business of an organization is also a listing of the marketplace. `FindOwnListing` and `WithdrawListing` are `delete_listing`, which asks only
for the creator, and `DeleteByAdmin` is `delete_listing_admin`; neither goes through the gateway.
Row ids are given out in order, as `SERIAL` does. `via` names the invitation that made a row, `crossed` the users for whom
two activations overlapped.

### Listings

Creation takes the user's row `FOR UPDATE` and counts (`CountListings`), then inserts (`CreateListing`); an organization's business
waits for the same row through its foreign key. The limit (`Ceiling`) is the larger of the user's `allowance` (the plan and the extra slots, written
under the user's row: `ChangeAllowance`) and `floor`, the free allowance of `admin_settings`, which the admin writes under no lock of the user
(`ChangeFloor`). The count and the free allowance are read in one step: the count cannot grow while the row is held. A review is three steps: the checks (`BeginReview`), the row (`InsertReview` or
`ChangeReview`), and `_recalc_listing_ratings`, whose subqueries see what is committed when the statement starts (`Recalc`) although
it may wait before it writes (`CommitReview`). A rating is represented by the reviews it was computed from (`shown`). The cleanup of
sponsorships selects (`BeginCleanup`) and updates (`FinishCleanup`), with the admin's grants in between. `raced` and `granted` name
the listings to which the two races that the code leaves open have happened.

## 3. The runs

| Run | Shows | Instance and bounds |
|---|---|---|
| `wallet` | `KeyReservesOnce` `RefundedIffRejected` `ImplementsLedger` `NobodyWaitsForever` | one user, two withdrawals of one unit, two request threads, one key (and none), balance at most 3, first minimum 2 |
| `commission` | `OneFirstBonus` `PaidOutOnce` `RefundStopsCommission` `OutboxMatchesActivations` `ImplementsPayments` `ImplementsCommissionLedger` | two plan orders and an extra slot of one referred buyer, one payment each; two batches, two payouts, refunds of one payment |
| `commission_live` | `AppliedOnce` `CommissionIsEarned` `CommissionIsSettled` | one order captured twice (a poison job), two batches, one payout |
| `early_refund` | `EveryRefundStops` is violated | one order, one payment, its refund handled first |
| `pos_billing` | `NoFreeTime` `NoTimeLost` `GrowthIsKept` `ImplementsSubscription` | one owner, two growth orders and a starter order, periods of 3 ticks, time up to 5 |
| `shop` | `NeverOversold` `StockAccounted` `StockRequestsAnswered` | two requests, two products, sales of up to two lines of one unit, deliveries up to a stock of one |
| `ranks` | `RanksAreTiered` `OnePassPerTier` `RankHasBadge` `RanksOnlyRise` | five users, a chain and a branching tree, all mixes of accounts, two recomputations |
| `rewards` | `LeaderPoolCapped` `RowsAreNew` `RewardsAreKept` | two users, two runs, a cap that one leader fills, revenue 0 or 2 |
| `login` | `LoginTypeOK` `GuessesBounded` `RowIsStable` `ReferrerKept` | two requests, one referrer, two codes, two attempts |
| `sessions` | `SignedOutBrowser` `LogoutHolds` | two requests, three tokens |
| `organizations` | `OwnerStays` `MembershipIsInvited` `SingleOrganization` `ManagedByOwner` | two users, two organizations, one invitation, three rows, one business, two requests |
| `listings` | `RatingIsCurrent` `GrantIsShown` `LimitHolds` | two users, two listings, two requests, one star, allowances of the plan and free of 0 and 1, one approved listing at a time |

Why these are enough. Wallet rows of different users share nothing, so one user shows every
interleaving; two threads are the least that race, and two withdrawals let a second one meet
the history of the first. Two jobs of one buyer and two batches are the
least that violate `OneFirstBonus`; the extra slot is the other kind of job, and the second capture of an order has a run of its
own. In `pos_billing` three
orders cover renewal, upgrade, downgrade and the first-row race at once, and a period
of three ticks can expire before the clock stops. In `shop` two sales of two lines
lock each other out in opposite orders, and a stock of one is what two sales can want at the same time. In `ranks` five users
reach all five ranks with the lowered thresholds. The cap on the recursion (50 in the code, 6 here) is above the
depth of the trees, as it is in practice. In `login` two codes tell an old request from a new one, and the second of two attempts locks.
In `sessions` three tokens are a login and one refresh. In `organizations` three rows are two owners and a member, or one owner and a
member who is removed and tries again; `Users` cross over because a user may own one organization and be invited to the other. In
`listings` one star is enough to see whether a review is in a rating. `CHECK_DEADLOCK FALSE` appears in `ranks` only,
where the bound on the recomputations ends a behaviour.

Every bound is a constant or a guard with the word "bound" in its comment: `RowsLeft`, `MaxBalance`,
`Refundable`, `MaxTime`, `MaxLines`, `MaxStock`, `MaxRuns`, `MaxRevenue`, `Decided`, `MaxCodes`, `MaxGuesses` (the history stops one above `MaxAttempts`), `MaxTokens`, `MaxLimit`, `MaxApproved`.

### Properties with an exception

Some promises hold up to a race that the code leaves open, and the property names exactly that race: `SingleOrganization` (two activations of one
user overlap), `RatingIsCurrent` (two reviews of one listing overlap; the next one that runs alone repairs it), `GrantIsShown` (a grant
during a cleanup that had selected the listing), `RowIsStable` (a request older than the code or the lock), `LogoutHolds` (Redis has the entry
and does not answer, or the process that alone had it was restarted), `LeaderPoolCapped` (overlapping evaluations), `LimitHolds` (the admin lowers the free allowance after a request has read it). TLC reaches every
one of these races.

Two properties name exceptions that are no races. `GuessesBounded` holds for a code whose row was not deleted or overwritten while it could still be
guessed. `send_otp` deletes it when a provider call fails, and the next send may bring the same code back with a new count. `ManagedByOwner` lets a business go by a request of its owner, by the member who created it and by the admin, because all three can
delete it. TLC reaches each of these, too; the disagreements below say more.

### Disagreements between the code and its text

* `early_refund`, the one with a run. `reverse_commission_for_refund` skips a pending job "so none is created later".
  A notice handled when there is no job yet answers success as well, and a finalization
  that comes later enqueues a job that is paid. `RefundStopsCommission` is what does hold: a refund
  that finds the job stops the commission.
* A code that comes back after a failed send (the codes `dropped` in `Login`). The comment in `store_verification` (`auth_routes.py:610-611`) says of a code that the provider hands back that
  "its wrong-attempt count must survive". It survives in the row, and `send_otp` deletes the row when its call to the provider fails
  (`auth_routes.py:788`): after a guess, a failed send and a send that brings the code back, the row counts no attempts.
* Deletion by the creator (`WithdrawListing` in `Organizations`). `CAN_DELETE_BUSINESS` and the docstring of `delete_organization_business` say that only the owner deletes a
  business of an organization (`organization_authz.py:32`, `organization_service.py:580`). `delete_listing` (`listing_routes.py:356`) looks at `user_id`
  only, which names the member who created it, and so lets a manager delete it, also one who was removed since.
* Revenue pools (`rank_service.py:554-566`). The tests state that the rewards of a revenue-backed pool never exceed
  it (`tests/test_rank_system.py:886` and `1137`). The evaluation divides the whole pool by the users who qualify now and keeps the
  rows of the period's earlier evaluations: two rangers, the second of whom qualifies one night
  later, get 10 and 5 of a pool of 10. The pools are off in the committed configuration.
* `ensure_organization_for_user` (`organization_service.py:63-71`) says that "a retry never creates a duplicate organization" and calls
  `uq_org_members_single_active_owner` a backstop against races. The index allows one owner for each organization; it does not stop
  a second organization of the same owner, which two overlapping activations create.
* `sponsorship.py:10-11`: a grant that falls into a running cleanup loses its flag, see `GrantIsShown`.
* `verify_otp` binds the referrer a second time after the INSERT (`auth_routes.py:933-947`). The proof of `ReferrerKept` shows that this
  never writes anything.

Smaller observations: the row of an expired invitation stays `pending` and blocks a new one to the same phone
(`uq_org_invitations_pending`); nothing ever sets the statuses `suspended`, `cancelled` and `expired` of organizations and invitations;
`uq_reviews_listing_user`, on which the review service relies, is created by a migration script only
(`migrations/add_reviews_user_id_unique.py`).

### Fairness

`FairSpec` of `Wallet` assumes that a thread takes its next statement, that
PostgreSQL serves a lock queue (strong fairness of `LockWallet` and `CommitReject`), and that a transaction
ends. `FairSpec` of `Commission` assumes that the scheduler keeps calling the retry and payout
endpoints, that a call that can go on does, that Saturdays come, and that batches are not
rolled back for ever. `FairSpec` of `PosShop` assumes that a thread that
can go on again and again does, which is how PostgreSQL grants row locks and how gunicorn runs threads, and that
a circle is broken (`deadlock_timeout`); that requests are rolled back is allowed but never needed.
Nothing is assumed of clients, Razorpay, the SMS provider or admins. All other runs check safety and need no fairness.

## 4. The proofs

Eight modules of proofs are checked by TLAPS without gaps, from the named assumptions of the modules
(`WalletAssumption`, `PaymentAssumption`, `CommissionAssumption`, `PosAssumption`, `ShopAssumption`, `LoginAssumption`, `SessionAssumption`,
`OrganizationAssumption`, `ListingAssumption`, `RankAssumption`, `RewardAssumption`) only: constants have their types and the "none" values are not
real ones. The sets may be of any size; users are finitely many where they are counted. `RankAssumption` says in addition what
`config/rank_config.py` gives: a higher rank requires at least what a lower one does, a tier is never counted for
a tier at or below it, and the passes suffice for the four tiers (`MAX_DOWNLINE_DEPTH` is 50).

Every property of a safety run but the refuted one is a theorem. Two properties are theorems and no longer part of a run: `TypeOK` of
`Wallet` and `PaidIsFinal` of `PosBilling`; the runs check the refinements instead, which an order that is unpaid or applied again would break.

* **WalletProofs.** `RefundedIffRejected` and `KeyReservesOnce` are inductive with the types; the refinement is not.
  `CommitRequest` has to reserve while the first-withdrawal rule holds *at the debit*, whereas the code
  decides it two statements earlier. `IInv` therefore adds `FreshUnderLock` (what was read
  under the lock is still so), `RuleHolds` (the decision is still true: the balance because it is locked, the
  history because approved withdrawals stay approved or paid), `WithinLimits` and `BlankRows`. Every action has its own
  lemma; `LedgerStep` maps each step to a step of `WalletLedger` or to a stutter.
* **CommissionProofs, the payment side.** `PaymentInv` is the conjunction of the type invariant, `AppliedOnce`, `ActivatedIsPaid`,
  `OutboxMatchesActivations` and `PlanIsBought` (a plan comes from the
  user's own activated order); `Activate` and `AddSlot` are the
  only steps that disturb more than one of them.
* **CommissionProofs, the composition.** `IInv` adds `LocksHeld` (a batch holds pending jobs, no two batches hold one job or
  handle one buyer), `OutcomesHold` (what a batch has decided still holds at its commit), `RefundsHold` and
  `KindsHold`. `OneFirstBonus` needs `OutcomesHold`, which in turn needs the lock on the buyer. `StepIsAPaymentStep`
  shows the refinement: a commit of a batch or a refund is a `SettleJobs`, everything else a
  `PaymentStep` or a stutter.
* **CommissionProofs, the ledger.** `CommissionLedgerImplementation` maps a commit of a batch to `Settle`, of a payout to `Release`, of a
  refund to `Refund`, an activation or a second capture to `Purchase`, and the other steps of a transaction to stutters. `IInv` says that a
  batch's decisions are still true at its commit; `LedgerFacts` adds what the ledger asks besides: a payout holds only rows that are due, a job is skipped
  only if nobody referred the buyer, and a refund that finds no job follows none that did. That a job belongs to an
  activated subscription order is not proved again: it is `OutboxAlways`, a theorem about `PaymentSpec`, and holds because the composition
  implements `PaymentSpec`.
* **PosProofs, billing.** `NoFreeTime` and `NoTimeLost` count the orders applied to a subscription; each commit adds one order
  and at most one period. That it adds no more depends on what the writer read before it waited, so `PosInv` adds `RunsOnce` (an order that
  is being activated is paid, not applied, and was begun at most a wait ago), `WriterAlone` (one writer of a
  subscription) and `WriterKnows` (the target still fits the row it replaces). `GrowthIsKept` and `PaidIsFinal` follow from the same invariant.
  For `SubscriptionImplementation`, the facts of `WriterKnows` become the guards of `StartPeriod`, `Renew` and `KeepGrowth` at
  the commit, and `RunsOnce` bounds the age of the moment as of which the writer decided.
* **PosProofs, shops.** Neither `NeverOversold` nor `StockAccounted` is inductive. A commit subtracts amounts that were compared
  with the stock statements earlier, so `ShopInv` adds `Reserved` (what a sale will deduct is there as long
  as it holds the lock), which needs `LocksExclude`. A commit books every line that should be deducted and deducts every
  line that is locked; `LinesDeducted` says that these are the same.
* **LoginProofs.** `GuessesBounded` follows from `GuessesCounted`: while the row lives, its counter covers every guess of its code unless an
  earlier row of that code was dropped, because `store_verification` keeps the counter for the same live code, and a code without a live row has
  none to count unless it was dropped. `RowIsStable` needs `SendersOverlap` and `HoldersOverlap`: whoever is past its check while the row
  is fresh or locked, or holds another code, was there before. `NewIsBound` gives `ReferrerKept`.
* **SessionsProofs.** `Listed` (a revoked token is in one of the lists, forgotten with a process, or out of date) and `OneToken` give
  `LogoutHolds`; `LateRefresh` (after a logout only older refreshes are under way) makes `SignedOutBrowser` inductive.
* **OrganizationsProofs.** `RequestsHold` says what a request may rely on between its check and its write although no lock is held: the actor of an owner's
  operation is still the owner, because nobody but the owner ever has that role (`OwnerStays`). With it `ManagedByOwner`
  holds of the gateway's operations; a deletion in the marketplace is the creator's by its `WHERE`. `Alone` and `FirstOne` carry
  `SingleOrganization` from the lookup to the insert.
* **ListingsProofs.** `LimitHolds` needs `RoomLeft` (a request that has counted still has room), which the lock on the user's row keeps true
  (`CreatorAlone`): it keeps off other creations and changes of the allowance, the free allowance is the one that was read, and deleting can only add room. `SeenIsCurrent` and `SweptIsStale` say what a rating and a cleanup were computed from, and so that the two
  races named above are the only ones.

* **RankProofs, the query.** `Generations` is a recursive function. That it is well defined and that level `n` holds who is `n` referrals
  below (`GenerationIsChain`, `DownlineIsChains`) is an induction, for which the library's theorems need an operator as parameter; it is
  done with sets instead: `LeastNumber` (a set of numbers that is not empty has a least element) applied to the set of the levels for which the claim fails. `TeamIsWholeAlways` says that a
  team is the referred users and their teams in every tree that is no deeper than the query goes (`Shallow`); the chains that reach the depth are the reason for its hypothesis.
* **RankProofs, the iteration.** `RankInv` says that a pass settles a tier: after pass `n` the holders of the `n` lowest tiers are exactly
  `Members`, `Guides`, `Leaders`, `Rangers` (`TiersSettled`), nobody with an invalid account holds one (`HoldersValid`), and the next
  pass takes nothing from anybody (`Rising`; counts are monotone in the ranks, `MetricRises`). `RanksOnlyRise` and
  `OnePassPerTier` follow, and with them `RanksAreTiered`: the cap on the passes ends no iteration.
* **RankProofs, the rewards.** `LeaderPoolCapped` needs that a sum over users can be computed: every leader reward is the same amount, so `FlatSum` gives the
  allocated total as that amount times the number of rewarded users, by an induction over sets of users (least failing cardinality). `CapIsCounted` then says
  that a run that is alone counts every leader reward there is or that it inserts (`RunsAlone`: a run that overlaps none is the only one). `RowsAreNew`
  rests on the wait of an insert for the same row of another run; `RunOK` keeps the users a run still has to handle apart from those it has inserted.

Only model-checked: the liveness properties `NobodyWaitsForever`, `CommissionIsSettled` and `StockRequestsAnswered` (temporal reasoning with
`ENABLED` is out of the prover's reach), and the violation of `EveryRefundStops`.

## 5. What is not modelled

* Amounts of money beyond what the properties tell apart. `wallet_balance.balance` is a `REAL` column;
  its rounding is not modelled.
* The unlock time of a commission: a locked commission may become due at any later moment. On a Saturday at or after 18:00 IST the
  code gives the Saturday that has begun, so it is due at once.
* `LIMIT 100` of the retry endpoint, and with it the starvation of the queue by jobs that can never be
  paid.
* The names of products (two requests can both find a name free), `create_business` with its limit, which takes no lock
  (`pos_routes.py:332`), and customers.
* Overlapping recomputations of ranks, which the docstring rules out.
* Manual approval of legacy payments (`approve_payment_admin`), which touches rows no order of
  today's code creates.
* In login: the evidence the fraud policy logs, rate limits, the shape of phone numbers and codes. In sessions: signatures, CSRF tokens,
  several browsers (they share nothing but the account and the list).
* In organizations: names and descriptions, and with them `update_listing` by the creator of a business.
* In listings: images and videos, click counters, the verify flag, search and distance. `disable_listing_admin` hides a listing from reviews and
  approval, not from all pages; what pages show is a matter of reads.
* HTTP, templates, uploads, translations, statistics and the agents: they keep no state of
  their own.

## 6. Where to go on

In order of worth: an abstract module for the ranks (a rank is a function of the tree and the accounts) that `RankSystem` implements, and one for the
entitlements of an organization that `Organizations` implements. `Month` as a range of lengths in place of a constant, so that the drift of
`add_one_calendar_month` is in the model. A catalog module with the limit of `create_business` and the names of products, once the code decides
what should happen when two requests pass the check. Pure modules for `get_unlock_utc` and `add_one_calendar_month` against
reference definitions.
