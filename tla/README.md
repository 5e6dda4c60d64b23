# AuctionX: a TLA+ development

AuctionX issues ownership tokens on NFC chips (NTAG 424 DNA). An owner claims a
chip, transfers it for a fee, releases it, or has it replaced; admins suspend,
reset and refund; a seal ties a chip to photographs; Merkle roots of the owners
are anchored on a chain. An auction marketplace is in the repository too, parked
behind `marketplaceGate`. This directory holds TLA+ models of the core of both,
TLC configurations for small instances, and TLAPS proofs.

The system is a Node/Express backend over PostgreSQL (Supabase) with
row-level functions, plus Stripe. Two facts shape every model:

* A **database function** (`apply_transfer_fee`, `admin_reset_token`,
  `commit_seal`, ...) runs in one transaction under row locks. It is one action.
* A **backend handler** makes several calls without a transaction. Every call
  that reads something the handler relies on later, or writes, is one action; a
  request slot carries what was read from one call to the next, and may stop
  between any two (`AbortRequest`, `AbortApplier`, `Abort`, `Fails`, `Dies`:
  refusal, failed call or crash).

## 1. Inventory

| component | state it keeps | operations | hard behaviour | correct when |
|---|---|---|---|---|
| Token lifecycle (`tagManagementController.ts`, `nfc_tag_management.sql`, `token_admin.sql`) | `nfc_tags` (status, owner), `ownership_transfers`, `ownership_proofs` | claim, initiate, cancel, complete, release; suspend, reset | check-then-act over several calls, payments that land late | an owner exactly while the chip is alive; RETIRED final; every gain explained |
| Transfer fees (`completeTransfer`, `lib/payments/*`, `tokenFeeWebhook.ts`, `adminStuckPaymentsController.ts`, `stuck_payments.sql`, `ph3b_pricing_vouchers.sql`) | transfer rows, vouchers, `payment_incidents`; at Stripe: intents, idempotency keys | create and store an intent, redeem a voucher, webhook, sweep, re-apply, refund | lost, late and repeated webhooks, two requests for one transfer, crash between Stripe and the database | each transfer settled once; no payment lost from sight |
| Proof of possession (`tapSession.ts`, `tapResolver.ts`, `sunVerification.ts`, `seal_commit.sql`) | `sun_counter`, counter ledger, seal baseline, tap sessions | tap, consume a session, spend a message, commit a seal | stale counters, replays, two old messages in one seal | one read proves possession once |
| Reissue (`requestReissue`, `payReissue`, `cancelReissue`, `adminReissueController.ts`, `s_admin1_reissue.sql`) | `reissue_requests`, the fee's intents and incidents | request, review, pay, cancel, fulfil | payment races cancellation and review; the token moves meanwhile | charged once; what is paid stays paid and open for the admin |
| Seals and images (`sealController.ts`) | `seal_sessions`, `nfc_seals`, photographs | begin, capture, commit, share | a session outliving its chip's state | one seal per chip |
| Prices (`tokenPricesController.ts`, `lib/tokenPrices.ts`) | price rows with effective dates | list, schedule | a price that changes under a pending transfer | price locked at initiation |
| Anchoring (`lib/anchoring/anchorTick.ts`, `s_anchor1_registry.sql`) | `anchor_batches`, proofs' batch and stamp, `anchor_chain_state`, `anchor_alerts` | confirm, close a day, sign, claim, broadcast, scan | broadcasts that may or may not have happened, reorganisations, overlapping ticks | a root is on chain once at most and eventually; what is stamped is there; every foreign write is alerted |
| Merkle tree, registry contract (`merkle.ts`, `OwnershipRegistry.sol`) | append-only roots, a writer | anchor, change the writer | none beyond hashing | proofs verify |
| Two-admin approvals (`adminApprovalsController.ts`, `2fa_admin_approvals.sql`) | `admin_action_approvals` | request, decide, execute, record, expire | crash between decision and execution; a hold read before it is lifted | nothing runs twice or on its requester's word alone; decisions are final |
| Admin accounts (`adminAccountsController.ts`, `s_admin2_accounts_roles.sql`) | `users`, `admin_users` | suspend, retire, reactivate, delete, set a role | two admins acting upon each other | somebody can always manage accounts; authority holds when the change is made |
| MFA (`lib/mfa/*`) | factors, codes, counters, recovery requests | enrol, challenge, verify, recover | replayed codes, lockout counters | a code is accepted once |
| Bidding (`placeBid`, `place-bid`, `handle_proxy_bid`, `adminAuctionsController.ts`) | `auctions`, `bids`, proxy maxima | bid; end, restart, cancel | amounts checked against old prices; admin writes by id after a read | the lead passes only to a higher pledge; the tables agree |
| Settlement (`settle-auction`, `check-payment-window`, `process-payment`, `payment-webhook`) | `settlements`, `settlement_offers`, `transactions`, penalties | settle, pay, expire, penalise, offer to the next | cascades without transactions, overlapping runs, late payments | who pays in time is kept; one penalty per offer; no expired offer is dropped |
| Escrow (`release-escrow`, `reconcile-escrow`, admin and buyer routes) | `settlements`, `payouts`, refunds | deliver, dispute, appeal, refund, release, pay out | unguarded updates of several parties | money leaves escrow once |
| Verification, identity, messaging, notifications, search, early access, logging | single rows | CRUD | none between actors | - |
| Web, mobile, encoder, HQ | - | clients of the API | - | - |

How they interact. A completion of a transfer needs a tap (possession), then a
voucher or a paid fee (transfer fees), and ends in `apply_transfer_fee`, which
moves the token (lifecycle). A claim needs a tap and changes the same row. A
reset (lifecycle) ends a reissue, whose fee takes the same payment path. Seals
claim a chip in `commit_seal`. Every change of owner mints an ownership proof,
which the anchor tick gathers. In the marketplace bids decide an auction,
`settle-auction` turns it into a settlement, a payment puts that into escrow, and
`release-escrow` pays it out. Everything is shared through database rows;
Stripe, the chain and the `pg_cron` ticks call in from outside.

The hazards, each at its line, are in `PROJECT.json`. They fall into four kinds:
a value read in one call and used in a later one (owner, pending transfer, tap
counter, outcome of an apply); a pair of writes with a crash between them
(intent and row, refund and incident, token and proof); Stripe's at-least-once
or never delivery; and counters and ids at their boundary.

## 2. Plan

Order, the most important behaviour first. Modules marked * exist.

1. * `TokenTables`: the shared rows and the transaction that moves a token.
2. * `TokenLifecycle`: owner requests and admin operations over them.
3. * `TransferLedger` (abstract) and `TransferFee` (detailed, implements it).
4. * `TapPossession`: taps, sessions, claims, completions, seals.
5. * Proofs of 1-4.
6. * `AnchorLedger` (abstract) and `AnchorTick` (detailed, implements it, live).
7. * `AdminApprovals`: accounts, roles and the second admin.
8. * `TokenReissue`: request, review, fee, cancellation, fulfilment.
9. * `EscrowRelease` and `SettlementCascade`: a sale from the end of its auction
   to escrow, and from escrow to the seller or back to the buyer.
10. * `AuctionBidding`: the proxy trigger under concurrent bids and admins.
11. * Proofs of 6-8, of `EscrowRelease` and of `AuctionBidding`.
12. * Proofs about `SettlementCascade`: `CascadeInv`, `PenalisedOnce`,
    `NoOfferDropped` and `InTimeIsKept`.
13. Multi-factor authentication (codes accepted once, lockout, recovery), and the
    capture sessions of seals.

Composition: `TokenLifecycle` and `TransferFee` both EXTEND `TokenTables`, so
that a transfer settles by the same operators in both. Each abstracts the other:
`TokenLifecycle.SettleTransfer` is any settlement, and `TransferFee.Init` starts
from pending transfers on chips of any owner, alive or ended, the stale row of a
former owner included (section 5, 2). `TapPossession` stands on its own: of a chip's life it needs only
ENROLLED and ACTIVE. `TokenReissue` keeps of a chip its status, owner and pending
transfer, and lets the operations of the lifecycle appear as their effect. The
two marketplace modules meet at ESCROW_HOLD, where `SettlementCascade` ends and
`EscrowRelease` begins; `AuctionBidding` contains the one step of settlement that
races an admin.

## 3. Modules and the code

**`TokenTables`** - `nfc_tags`, `ownership_proofs` (the account the current
proof names), `ownership_transfers`. `RowOutcome` is the chain of checks
`applyTransferFee` and `apply_transfer_fee` both make on the row, in their order;
`ApplyOutcome` adds the chip's check; `CompleteRow` is the whole UPDATE cascade:
row, chip, proof. `CancelRow` is the sender's conditional UPDATE. Amounts, dates,
names and e-mails are left out; `to_email` is the account that owns the address.

**`TokenLifecycle`** - a request slot per `claimTag`, `initiateTransfer` or
`releaseTag` in flight, one `pc` per database call. `everOwned` is history.
`completeTransfer` appears as `ResolveRecipient` and `SettleTransfer`; its
protocol is the next module. Enrolment is the initial state (all chips ENROLLED).

**`TransferFee`** - `completeTransfer` call by call (`ReceiveComplete` to
`CancelIntent`), vouchers, Stripe as an external actor (`PayIntent`,
`ForgetKey`, `Ripens`, `PassWindow`), deliveries and sweep runs (`DeliverWebhook`,
`SweepLists` to `RecordIncident`), and the queue's two buttons (`OpenReapply`,
`OpenRefund` and what follows). `Faults` lets any database call of a run fail,
which is the path on which incidents are recorded. Only PaymentIntents whose
secret a response has carried can be paid. `ripe` marks a payment old enough for
the sweep to judge (`TOKEN_FEE_STUCK_AFTER_MINUTES`), `late` an intent, paid or
not, that has left the sweep's `created >= since` window.

**`TransferLedger`** - what the machinery promises: a transfer is open, done or
void, is decided once, and is done by one voucher or one card payment that was
taken for it. `TransferFee.Ledger` is the refinement mapping.

**`TapPossession`** - `reads` is the chip's own counter, `sun_counter` the
server's, `ledger` every counter accepted, `proofs` the history of what each read
has proved. A signature check is "a counter the chip has reached".

**`AnchorTick`** - a slot per tick, which confirms (`ConfirmOne` to
`BackToPending`), gathers (`DaysToClose` to `RecordEvent`), sends (`SendReads` to
`Broadcast`) and reconciles (`Scan` to `SaveCursor`), row by row and call by call.
The chain is a sequence of registry events whose first `final` ones are deep
enough; `Arrive`, `Mine`, `Drop`, `Reorganise`, `ForeignWrite` and `SetWriter` are
the world. Transactions carry a nonce, and a nonce below another pending one's has
to be mined first. Days are numbers; a batch's root is its id. Built in: a
transaction the node does not know ten minutes after its submission is never
mined, and a reverted one is not undone by a reorganisation; without the first
the requeue of `backToPending` could write a root twice.

**`AnchorLedger`** - what the tick promises of a batch: its leaves are fixed when
it is queued, it is written once, and stamped after it is written.

**`AdminApprovals`** - `accounts` joins `users` and `admin_users`; `suspender` and
`retirer` stand for the audit rows `holdSetBy` reads. The account functions are
three actions, lock, check and change (`admin_lock_changes`, `CheckActor`,
`ChangeAccount`), since what they check is a question of which other transactions
have committed. An approval is requested, decided, executed and recorded in
separate actions. `late` means that the 24 hours are over.

**`TokenReissue`** - an owner's calls `Request...`, `Pay...` and `Cancel...`, one
action per call to the database or to Stripe; the fee's appliers and the queue as in
`TransferFee`; fulfilment in two actions, the owner read without a lock and the
reset that locks the chip.

**`SettlementCascade`** - `settle-auction` (`Settle...`), a run of
`check-payment-window` (`ClaimsExpired` to `Relists`), a payment tried with each
processor (`StartsPayment` to `RecordsPayment`) and its webhook (`Hook...`), each
with what it has read in `work`. `CallFails` is a call that returns an error, after
which these functions go on (`AfterError`); `Dies` is the end of the function.
`LookFails` is apart, since each of the three reads before the next offer fails in
its own way: without the previous offers nobody is excluded (`unlisted` is history
of it), without the settlement the run turns to its next offer, and without a
bidder it cancels. So is the first read of `settle-auction` (`SettleReads`): its
error is dropped, and the auction is settled once more. Who pays is left out, since
nothing compares him with the bidder of the offer.

**`EscrowRelease`** - one paid settlement; a handler of each kind reads it and
writes it later. `stale` is history: a handler wrote upon a row that another had
changed since it read it.

**`AuctionBidding`** - a bid is read and checked, admitted by the row policy, and
applied by the trigger `handle_proxy_bid`, which is one operator on the auction's
row. `SettleReads` may fail as it does in the cascade. `pledged`, `late` and
`stale` are history.

Definitions named `...AnyTag`, `...Unconditionally` and the like, each with a
comment that begins "Mutant of", are deliberate faults for testing the
properties; no specification uses them.

## 4. Runs

| run | instance | question | states |
|---|---|---|---|
| `lifecycle` | 2 accounts, 2 chips (one a spare for resets), 3 transfers, 2 requests | ownership, suspension and retirement under every overlap | |
| `lifecycle_by_owner` | same, 2 transfers | *violation*: a former owner's transfer completes | |
| `fee` | 2 accounts, 1 transfer, 1 intent, 2 requests, 1 applier, 1 admin, 1 voucher, faults | the fee is settled once; implements `TransferLedger` | |
| `fee_live` | 1 request, 2 appliers, late intents, forgotten key, faults, fair sweep | a payment is accounted for without webhooks, or its intent leaves the window | |
| `tap` | 2 chips, 3 reads, 2 sessions, 2 requests | a read proves possession once | |
| `anchor` | 1 proof, 2 days or batches, 2 transactions, 2 ticks, 1 fault, both modes | leaves, stamps and alerts are right; implements `AnchorLedger` | 1.2 million |
| `anchor_live` | 1 proof, 2 days, 4 transactions, 1 fault, fair tick | every root is confirmed and every proof anchored | 69 thousand |
| `admin` | 3 accounts, 2 requests, 2 approvals, 3 API calls | somebody manages, with authority, nothing twice | 1.0 million |
| `reissue` | 1 request, 2 intents, 2 owner's calls, 2 appliers, 1 admin, 1 fault, 1 move of the token | charged once, paid is kept | 1.2 million |
| `escrow` | one handler of each kind, 3 disputes, appeals or rejections, 1 fault | money leaves once, holds end | 0.7 million |
| `cascade` | 2 bidders, 1 payment, 1 settle call, 2 overlapping checks, 1 webhook, 1 fault | in time is kept, one penalty, no expired offer is dropped | 2.3 million |
| `bidding` | 2 bidders, prices to 3, 3 bids on 2 requests, 3 admin calls, 2 of them at a time, 1 fault | the lead, the pledges, the tables | 3.6 million |

Why the bounds are enough. Every interesting interference in these handlers is
between two actors: two requests, a request and an admin, a webhook and a sweep;
so two slots where both can be of one kind. Three transfers let a second one be
initiated after a first completed while a stale insert waits (two are enough for
the counterexample). `spare` is claimed by nobody (`SpareUnclaimed`): what two
chips in use would add is two copies of one chip, since no operation but a reset
touches two. One transfer in `TransferFee`: transfers share only vouchers and the
chip, and at most one is PENDING per chip. The run has one intent and Stripe
remembers its key; two intents that rival for one transfer (`KeyForgotten`) are
covered by the proofs alone, as are more transfers. One voucher reaches both the last
voucher and its absence. Three reads are what a seal (two adjacent messages) plus
a tap need; one chip of the instance has been read once before the ledger
existed. A run with faults includes every run without.

In `anchor` two transactions are a batch sent and sent again, and two batches let
a proof miss the batch of its day; a fault is one loss, reorganisation, foreign
write or change of writer, so their pairs are not covered. `anchor_live` has one
tick slot, which stands for one tick after another, and leaves out the scan and
the changes of the writer, which nothing else reads: of overlapping ticks only
safety is checked. A tick that waits for ever with a lower nonce while another
one's is broadcast would block the later one; the repository has no answer but
the next confirm, and no property here claims one. In `admin` three accounts are
an actor, a target and a second admin; three calls are a request, its approval,
and one more in between. Two super admins, an admin and an ex-admin are reachable.
In `reissue` two intents need the forgotten key (`ForgetKey`). In `cascade` two
bidders are a winner and a next one, and maxima are 0 or 1, where 0 is NULL; the
winner has a maximum (`MCInit`), which is looked at only if he is asked
again. In
`bidding` a price of 3 gives room for an amount, an answer and a maximum above both.

Symmetry sets permute only values no definition distinguishes: accounts,
transfer ids and slots in the lifecycle; slots in the fee, where the sender and
the recipient are fixed by `MCInit`; chips, sessions and slots for taps;
transactions and ticks; approvals and requests; in a reissue everything but the
owner and the chips; bidders and slots in bidding; bidders and checks in the
cascade. No run of a liveness property
uses symmetry.

`CHECK_DEADLOCK FALSE` where the system may stop for good: transfer ids,
sessions, reads, transactions, days, calls and bids are finite in an instance, and
a transfer, an auction or a sale that has been decided leaves nothing to do. The
run `fee` keeps the deadlock check: vouchers come and go for ever.

Fairness. `SweepFairness`: `pg_cron` calls the sweep every ten minutes, for
ever (`stuck_payments.sql:525-562`), and every run starts anew from Stripe's
list, so neither a crash nor a failing call can stop every run at the same point:
strong fairness of each call of a sweep run, per payment. Weak fairness would not
do, since a run that dies disables the call. Nothing is assumed of webhooks,
clients, admins or completion requests, nor that an intent stays in the window
until a run has listed it: time only passes (weak fairness of `Ripens`), and
`PaidIsAccountedFor` holds without webhooks of every payment that the window does
not leave behind.

`AnchorTick`: `pg_cron` starts a tick every hour (`s_anchor1_registry.sql:284-310`),
a started loop ends (weak fairness), and since each tick reads all rows anew every
row is come to again and again (strong fairness of `ConfirmOne`, `SendReads` and
the closing of days, which a tick that dies disables). The node hears of
broadcasts in the end, mines what it knows, and the chain grows.
`EscrowRelease`: the cron job of `20260509120100` calls `release-escrow` every
quarter of an hour; weak fairness of a run. While the marketplace is parked
`20260918000003:29-36` unschedules that job and the daily watchdog, so `HoldEnds`
is about a deployment that has restored them as `docs/PARKED_MARKETPLACE.md`
describes. Nothing is assumed of the watchdog, admins and buyers.

`SettlementCascade`: none for the run. No migration has ever scheduled
`check-payment-window` (`docs/PARKED_MARKETPLACE.md:184-187`), so nothing is claimed
about when an offer's end is noticed; `NoOfferDropped` is about what a run does with
the offers it has claimed. `CascadeFairness`, that a function which has begun goes
on, serves only the claims 8 and 9 of section 5.

Properties, in a sentence each, stand above their definitions. The ones that
matter most: `OwnedIffLive`, `OnlyOwnersAct`, `GainsAreExplained`,
`SuspensionEndsByAdmin` (lifecycle); `ImplementsLedger`, `ResolvedWasApplied`,
`RefundUnlocks`, `PaidHasRecipient`, `PaidIsAccountedFor` (fees);
`ReadProvesOnce`, `LedgerIsComplete`, `ClaimIsByLatestTap` (taps);
`ImplementsLedger`, `StampIsTrue`, `AnchoringEnds` (anchoring); `SomeoneManages`,
`AuthorityAtChange` (admins); `ChargedOnce`, `PaidByItsIntent` (reissue);
`LeavesOnce`, `HoldEnds` (escrow); `InTimeIsKept`, `OfferChain`, `NoOfferDropped`
(cascade); `OutbidOnlyByMore`, `PriceWithinPledge` (bidding). A run's `Inv`
(`CascadeInv` for the cascade, whose proofs share a module with those of escrow) is
the conjunction of its module's type invariant with the invariants named in its
comment, so that each run has one state predicate to carry them.

## 5. Where code and comments disagree

The second of these is a run (`lifecycle_by_owner`). The others are definitions of
the modules named; put into the cfg of their module's run as an INVARIANT or
PROPERTY, each is violated (`OpenWasNotApplied` needs a second applier, the last two
the SPECIFICATION `FairCascade` and no symmetry).

1. **RELEASED is not terminal** (`TokenLifecycle!ReleasedIsFinal`). `releaseTag`
   looks for a pending transfer in one call, whose error it drops
   (`tagManagementController.ts:1237`), and releases in another, whose WHERE asks
   only for ACTIVE. A transfer initiated in between, or one that the look failed to
   read, can complete and makes the chip ACTIVE again: `apply_transfer_fee` refuses a RETIRED chip, keeps a
   SUSPENDED one suspended, and activates any other. `tagManagementController.ts:10`
   says "ACTIVE --release--> RELEASED (terminal)".
2. **A former owner's transfer completes** (`TokenLifecycle!TransferIsByOwner`).
   `initiateTransfer` checks the owner in one call and inserts in another. If the
   token is transferred in between, the old owner's row is PENDING, and completes.
3. **An applied payment can stand OPEN** (`TransferFee!OpenWasNotApplied`). A run
   that failed reports after another run applied. An admin who refunds from that
   row returns the money of a transfer that was delivered. `stuck_payments.sql:86-87`
   calls a row there a payment "that succeeded in Stripe but did not apply".
4. **A late payment can be lost** (`TransferFee!EveryPaymentIsAccountedFor`, with
   `LatePayment` and the fair specification). The sweep's window is over the
   creation of the intent, not over its payment (`tokenFeeSweep.ts:121`), and a
   payment of the last minutes is left to its webhook (line 138). One made at the
   end of the window is never looked at if that webhook is lost.
5. **A newer tap does not always supersede a session**
   (`TapPossession!NewerTapSupersedes`). `completeTransfer` and `requestReissue`
   compare the session's counter with a row read before the session is consumed;
   `claimTag` does it right. `nfc_tap_sessions.sql:14-15` promises it for all.
6. **A refunded reissue can be fulfilled** (`TokenReissue!NothingFulfilledUnpaid`).
   A refund from the queue leaves the request PAID. `adminReissueController.ts:15`
   says "Nothing is fulfilled unpaid unless an admin waived the fee".
7. **The appeal window does not hold back a delivered sale**
   (`EscrowRelease!AppealWindowHolds`). Rejecting a dispute pushes `escrow_ends_at`
   "so release-escrow doesn't pick this up while the buyer is still inside the
   appeal window" (`disputes.ts:275-277`), but `release-escrow` also takes every
   sale whose delivery was confirmed, whatever its end.
8. **An orphaned settlement is not handled** (`SettlementCascade!OrphansAreHandled`).
   `settle-auction:253-254` leaves a settlement without an offer to
   `check-payment-window`, which looks at expired offers only.
9. **Nothing ends a sale by itself** (`SettlementCascade!SaleResolves`).
   `check-payment-window/index.ts:5` says "Intended to be triggered by pg_cron every
   minute", but no migration schedules it: an offer nobody pays stays open, and its
   settlement PENDING_PAYMENT, until somebody calls the function.

Met on the way, without a definition: `settle-auction` calls itself idempotent,
but two overlapping calls both see no settlement and no index stops the second, and
one call whose look for a settlement fails goes on to insert another (line 113);
docs speak of a cascade to three bidders and the code goes on through all of them;
`check-payment-window:128` drops the error of its read of the previous offers, so
that when it fails a bidder who let an offer expire may be asked again (what
`OfferChain` excepts by `unlisted`);
a bidder without a maximum sorts first in `get_next_eligible_bidder` and cannot be
offered a price; a refund taken while a release is running leaves escrow twice
(what `LeavesOnce` excludes by `stale`); and `lib/auction`, which says that prices
never decrease, is not wired to the routes, where a stale plain bid may lower one.

`ChargedOnce` of `TransferFee` (a transfer is paid by card at most once) is stated
but no run checks it: it holds as long as Stripe remembers the idempotency key
and fails once it does not (`KeyForgotten`), and how long Stripe remembers is not
in this repository. For a reissue it holds even then, and is checked: the
second intent is stored only if none is.

## 6. Proofs

TLAPS proves, for every number of accounts, chips, transfers, intents, requests,
appliers, admins, ticks, transactions, bidders and handlers:

* `TokenLifecycle_proofs`: `TypeCorrect`, `OwnerCorrect`, `OnlyOwners`,
  `GainsExplained`, `RetiredChipIsFinal`, `SuspensionEndedByAdmin`.
* `TransferFee_proofs`: `FeeTypeCorrect`, `PaidNamesRecipient`,
  `ResolvedIsApplied`, `RefundedIsUnlocked`, `AdminHoldIsKept`,
  `OwnershipMovesOnce`, and `FeeImplementsLedger`, the refinement of
  `TransferLedger`.
* `TapPossession_proofs`: `TapTypeCorrect`, `ReadIsSpentOnce`,
  `AcceptedIsInLedger`, `ClaimsAreByLatestTap`.
* `AdminApprovals_proofs`: `ApprovalsCorrect`, `ManagerLeft`, `DecisionsStay`,
  `AuthorityHeldAtChange`.
* `AnchorTick_proofs`: `AnchorCorrect`, `StampsAreTrue`, `AlertsRight`, and
  `AnchorImplementsLedger`, the refinement of `AnchorLedger`.
* `TokenReissue_proofs`: `ReissueCorrect`, `NobodyChargedTwice`.
* `Sale_proofs`: of escrow `EscrowCorrect`, `PriceLeavesOnce`,
  `PayoutsAvoidDisputes`; of the cascade `CascadeCorrect`, `PenalisedOnceAlways`,
  `NoneIsDropped`, `PaidInTimeIsKept`.
* `AuctionBidding_proofs`: `BiddingCorrect`, `GreatestMaximumLeads`, `LeadLostToMore`.

The lemmas on `CompleteRow`, `CancelRow` and `RowOutcome`, the shared operators of
`TokenTables`, stand at the head of both of the first two modules, neither of which
can extend the other.

Assumptions, named where the constants are declared and evaluated by TLC:

* NULLs and "none" are not values: `NullAssumption`, `NoTagAssumption`,
  `NoTxAssumption`, `NoOneAssumption`, `NoApprovalAssumption`, and the first parts of
  `BiddingAssumption` and `CascadeAssumption`. `VoucherAssumption`: the ledger's mark for a free transfer
  is not an intent.
* Bounds are natural numbers: `BoundAssumption`, `BoundsAssumption`,
  `ReadsAssumption`, `MaxCallsAssumption`, and the numbers of `HandlersAssumption`,
  `CascadeAssumption` and `BiddingAssumption` (there is at least one price).
* Switches are Booleans (`SwitchAssumption`), roles and modes are the code's
  (`RolesAssumption`, `ModesAssumption`); the theorems hold for every choice.
* `HandlersAssumption`: no handler is of two kinds; `BiddingAssumption`: nor is a
  slot a bid's and an admin's. A process runs one function.
* `FiniteTxsAssumption`: transactions are finite in number, since `AnchorLedger`
  counts them.

Lifecycle. `OwnedIffLive` and `OnlyOwnersAct` are inductive only with
`OwnersRecorded` (the present owner is in the history) beside them: an initiate
that reads `owner = user` has to conclude that `user` is in `everOwned`.

Fees. `ResolvedWasApplied` is far from inductive. `IInv` adds what each actor may
rely on: a stored intent is for its row; a secret handed out implies an intent
and a recipient on the row, which bars the voucher (`RowsOK`); a request beyond
`resolve` has a recipient, and beyond `create` an intent for its transfer
(`RequestsOK`); a run in flight holds a payment that really succeeded, and a run
that is to report RESOLVED has applied (`AppliersOK`); an admin who is to record a
refund has made it (`AdminsOK`). The key lemma is `AlreadyCompletedByThis`: the
database answers `already_completed` to a payment only if it was this payment
that completed the row. It rests on `intent_mismatch` being checked first and
on a voucher never completing a row with a secret outstanding; every resolution
of an incident goes through it. The proof that a step preserves `IInv` first
sorts the steps by what they do to rows and intents (`StepKinds`), then proves one
fact per kind and conjunct.

Taps. That a read proves possession once needs to know who may still use it. A
burned tap that has proved nothing is held by at most one party: the request that
will issue its session, the session while it is live, or the claim that consumed
it (`HeldByOne`), and it is in the ledger (`HeldUnproved`), where a seal looks.
Counters above the row's have not been accepted (`LedgerBounded`), so a burn
always takes a read that proved nothing; a seal may take older ones, and the
ledger keeps it from a held or spent one. The lemmas `QuietHeld` to `ProvedHeld`
say how a held tap may change hands, and every action is one of those cases.
`NewerTapSupersedes` is not among the theorems: the code does not have it.

Approvals. What a change relies on was checked in an earlier step, so the proof is
about who can invalidate it in between. The lock is one request's (`LockExcludes`),
whatever changes an account takes it, the end of a timed suspension restores
authority and takes none away; so what was checked still holds at the change
(`CheckedHolds`). From this follow `AuthorityAtChange` and that the last manager
cannot be removed (`ManagerSurvives`). `ApprovalHeldOnce` has an approved action in
the hands of one request, from the decision to the record of its result: it runs
once at most, and not at all if that request dies first.

Anchoring. The question is when a batch may be sent again. A transaction is live
while it can still write its root, or once it has. `LiveOK`: a live one is named by
the row of its batch, which is then submitted or confirmed; so at most one is
live per batch, and a root is written once. A tick that sends holds a transaction
no row names until the claim (`SlotOK`, the last part of `TicksOK`), and a tick
that puts a batch back has seen its transaction dead or reverted, which does not
change (`Gone`, `GoneIsNotLive`). Nonces play no part: they matter for progress
only. Stamps are true because a stamping tick read a final entry, and a
reorganisation does not touch those. The refinement of `AnchorLedger` goes step by
step: the insert of a batch queues its leaves, `Finalise` writes at most one root,
`confirm_anchor_batch` stamps, and every other step is a stutter.

Reissue. `PaidByItsIntent` and `ChargedOnce` rest on `SecretsOK`: a secret that has
left the server is of the intent on its row, since the server stores before it
answers and stores only if the row has none; so only that intent is ever paid,
even where Stripe has made two. What a call read may be stale, but an intent it
has seen is still on the row (`CallOK`), because rows do not lose theirs; and a
fulfilment between its check and its reset has its request to itself (`AdminsOK`).

Escrow. No handler holds a lock, and every write may be upon a changed row. The
invariant says what a handler knows: one that is up to date (nobody has written
since it read) stands before the status it read or wrote itself (`UpToDate`). As
long as nothing has gone wrong and no handler that is out of date is at a step
that writes regardless (`Clean`), the price is in escrow, or has left once, or is
leaving by one handler that is up to date and about to mark it (`OneWayOut`).
`LeavesOnce` alone is not inductive: a handler that is bound to write out of date
(`Doomed`) has done no harm yet, and the step that does sets `stale`.

Cascade. A run of `check-payment-window` *bears* an offer (`Bears`) from the claim
until it has passed it on or cancelled. The invariant `ChainIInv` is about who may
lengthen the chain of a settlement's offers. An offer that is open, one that was
paid in time, and one that a run bears are each the last of their chain (`LastOf`),
and no offer is borne twice (`Apart`): the claim is one UPDATE, and asks for the
status it changes. So at most one run can add to a chain, nothing is added between
its read of those asked and its insert, and the rank it adds is the next one. A
handler's step that only drops work (`Lighter`) cannot disturb this; the others add
an offer, change offers, or take a choice, with a lemma for each kind (`AddsChain`,
`WritesChain`, `WorkChain`). `OfferChain` and `PenalisedOnce` follow
(`ChainImpliesOfferChain`), and so does `InTimeIsKept`: a run cancels only the
settlement of an offer it bears, which was not paid in time and is the last of the
chain, where the one paid in time would have to be. `NoOfferDropped` needs only that
no handler but a run in its cascade has offers to do (`Tidied`): a step of a run
keeps what it bears (`Keeps`), or passes on the offer it is at by adding a later one
or by cancelling (`Passes`), or sets `broken`; and what has been passed on stays so
(`PassedOnStays`). That what is held was charged
(`ChargedIInv`) needs only that a webhook carries a transaction it has found
charged.

Bidding. What the trigger makes of a price and a lead is pure arithmetic on one
row, under its lock: `ContestDecides` and `TriggerDecides` split it by its
branches and say who leads afterwards and at what. `PriceWithinPledge` and
`OutbidOnlyByMore` follow. What the admins' calls make of the tables follows the
pattern of escrow: what a call that is up to date knows (`Knows`), and what holds
while no call is out of date (`Clean`): a sale is the leader's at his price,
and there is one at most for each call that failed and one more (`SoldOnce`), the listing follows (`ListingFollows`), the greatest maximum leads
unless bids are about to be wiped (`LeadHeld`).

Only model-checked: the liveness properties `PaidIsAccountedFor`,
`AnchoringEnds` and `HoldEnds`, since liveness under fairness is out of this prover's
reach, as is ENABLED. Every property of a passing run that is not
a liveness property is a theorem.

## 7. Not modelled

Multi-factor authentication and the capture sessions of seals (section 2, item
13). Merkle paths and hashing: a root is its batch. The alerts of the anchor tick
that say only that something takes long, costs much or changed hands. Prices,
fees, exchange rates and dates: no modelled property depends on an amount, but for
bids, where small numbers stand for them, and refunds, counted in halves.
Cryptography: a message verifies if the chip produced it. Logging, e-mail,
notifications: no outcome depends on them. The cap on intents per sweep run: a
matter of volume, which the run reports as truncated. `lib/auction`: nothing calls
it. A charge of a processor whose response is lost, in the cascade: `process-payment`
then goes on to the next processor, and how often a bidder is charged is not a
question the cascade's properties ask. Verification, identity, messaging, search, sign-up: rows without a protocol
between actors. Clients: the API treats a caller as free to send any request at
any time, and so do the models.
