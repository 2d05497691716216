# A verification project for the Telegram shop

TLA+ models of the shop in `src/`: money, stock, evidence, the outbox, and the
way from a paid order to a delivered credential, with the shop's side roads
(wallet, preorders, suppliers, stock import, warranty, notices, the owner's
authority). TLC checks them on small instances; TLAPS proves the main safety
results of all nineteen for every instance. Paths below are relative to `src/src/`
unless they start with `specs/`, `docs/` or `tests/`.

## 1. The system

A buyer places an order in Telegram, pays by bank transfer (VietQR, reported by
SePay) or from a wallet, and receives a credential by message. One PostgreSQL
database holds all state. An HTTP process takes webhooks; one or more worker
processes run *lanes* (timers that poll tables, each single-flight within its
process). Secrets live in an external Vault and never inside a transaction.
Nothing is decided by memory: every race is between transactions, and between
a transaction and a call to Telegram, the Vault, the bank or a supplier.

| Component | State | Operations | Talks to | Hard part | Correct when |
| --- | --- | --- | --- | --- | --- |
| Outbox (`infrastructure/outbox`) | `outbox_event` rows: claim, generation, lease, attempts, dead letter, disposition | enqueue, claim, handle, ack, fail, disposition | every domain transaction inserts; fulfilment handlers consume | two drains of one process, lapsed leases, crash between claim and ack | only the latest claim settles a row; every event is published or parked |
| Inboxes (`infrastructure/inbox`) | `webhook_inbox` rows of two sources | accept, claim, report, recover, sanitize, prune | webhooks; two lanes | two lanes with different rules over one table | evidence of a payment is kept, whoever claims it |
| Order lifecycle (`commerce/order.ts`, `repository.ts`) | `"order".status` | `transitionOrder` | all below | an illegal move throws and rolls back its caller | all writers stay in the table |
| Buy Now, cancel, expiry (`commerce/buy-now.ts`, `recovery.ts`) | order, expiry | place, present, cancel, expire | stock, promotions, intents | the same protocol written several times; clock edges | every order is decided; dead orders hold nothing |
| Stock (`digital-goods/repository.ts`, `catalog/quantity-stock.ts`) | asset rows, counted stock and its ledger | reserve, release, sweep, claim | checkout, fulfilment | last unit, lapsing holds, double release | no unit held or sold twice, none lost |
| Promotions (`promotions/service.ts`) | redemptions | reserve, consume, release | checkout, settlement | limits under concurrency | limits hold; a use follows its order |
| Payment and settlement (`payments/service.ts`, `domain.ts`) | intents, allocations, discrepancies | present, match, settle, freeze | bank evidence, order | late, wrong, second and surplus transfers | paid exactly once; no transfer forgotten |
| Bank evidence (`payments/repository.ts`, `recovery.ts`, `reconciliation.ts`) | transactions, aliases, page cursor | webhook, poll, check-now | settlement | two reports of one transfer; a lock lost inside a batch | reports merged only within key and window; no transfer between two windows |
| Wallet (`wallet/`) | account, ledger, postings | top-up, purchase, refund | order, evidence | balance races, refund replay, opposite lock orders | balance equals ledger, every credit is backed |
| Preorders (`commerce/preorder.ts`, `shop-cancel.ts`) | reservation, legs, queue | deposit, allocate, balance, forfeit, shop cancel | stock, settlement | an allocation runs wherever a unit comes free | queue order; refunds owe what came in |
| Supplier (`supplier/`) | purchase record | buy, query, recover | external supplier | unknown outcome of a purchase | bought at most once, and recorded as it went |
| Fulfilment (`digital-goods/fulfillment.ts`, `handlers.ts`) | unit, bundle, order | claim, issue, start, queue | outbox, stock, handoff | an unlocked read, then three transactions, run by overlapping handlers | one credential, one buyer |
| Delivery (`digital-goods/delivery.ts`, `recovery.ts`) | bundle | reveal, consume, expire, reconcile | link, lane, owner | consume races, expiry | completed means delivered |
| Notification handoff (`digital-goods/delivery-notification.ts`) | handoff row, capability, session | prepare, adopt, claim, mark, send, prove, finalise, park | Vault, Telegram | lost answer, lapsed lease, crash around the send | handed over at most once; no attempt forgotten |
| Stock import (`digital-goods/inventory-*`, `google-sheets/inventory-intake.ts`) | import session, challenge, asset rows, Vault | stage, preview, confirm, write, compensate | chat, sheet, Vault | two stores without a common transaction; two doors to one session | a credential is one unit; the sheet imports what its challenge stands for |
| Files (`digital-goods/file-delivery.ts`, `file-artifact-import-session.ts`) | versions, import session, delivery job | import, activate, freeze, claim, send, record | outbox, Telegram, owner | two leases of different length around one send; a version activated meanwhile | the file sent is the one that was frozen for the order |
| Manual service (`digital-goods/manual-fulfillment.ts`, `catalog/quantity-stock.ts`) | count and its ledger, task rows | reserve, open task, complete, adjust | outbox, owner | the owner's two buttons against checkout over one count | an order is served once, and the count follows the ledger |
| Warranty (`warranty/claims.ts`, `digital-goods/replacement.ts`) | claims, replacement cases, units | submit, verify, refund, replace, reject | support, stock, links | two tables lead to one replacement | a claim is settled in one way, a unit replaced once |
| Notices and broadcasts (`notification/service.ts`) | campaign, delivery rows | queue, claim, send, refresh, preview, confirm | Telegram | alert rewritten while its send runs; several commits in one call | one message, the current text, the recorded audience |
| Owner authority (`identity/`, `commerce/store-mode.ts`, `bot/callbacks/admin.ts`) | factor, grants, confirmations, store row | verify, replace, recover, issue, press | every sensitive command | four rows and a screen, each of another moment | the owner's change is the one that was confirmed |
| Sheets requests (`google-sheets/requests.ts`, `projection.ts`) | Requests tab, request rows | read, process, write back | owner's workbook | the tab is edited between read and write-back; two processes | one request acts once, and its recorded outcome is what happened |
| Supplier canary (`supplier/canary.ts`) | canary row, confirmation | preview, confirm, buy, resume | supplier, owner | an offer that changes after approval; two resumptions | at most one purchase, at the approved cost |
| Catalogue, reports, presentation, platform | | | | mostly one transaction or read-only | not modelled |

`PROJECT.json` lists every component with its files and its reason when it is
not or partly modelled, and every hazard with its line.

## 2. Modules

```
OutboxContract   <-- Outbox                             OutboxProofs
OrderLifecycle   <-- Checkout                           CheckoutProofs
OrderLifecycle   <-- Fulfilment                         FulfilmentProofs
DeliveryContract <-- Fulfilment, for each bundle
DeliveryContract <-- DeliveryHandoff                    HandoffProofs
                     Suppliers, Messages, Warranty,
                     StockImport, and MCShop            ShopProofs
                     BankIdentity, SePayRecovery,
                     Inbox, SheetSync                   EvidenceProofs
                     Wallet, ServiceOrder, Preorder     LedgerProofs
                     OwnerAuthority, FileDelivery       OwnerProofs
Suppliers = SupplierPurchase, SupplierCanary; Messages = Notification, Broadcast
suites:  MCCheckout  = Checkout, OwnerAuthority, FileDelivery, ServiceOrder
         MCEvidence  = Inbox, SePayRecovery, BankIdentity, SheetSync
         MCShop      = Wallet, Preorder, Suppliers, StockImport, Warranty,
                       Messages
         MCProgress  = Outbox, Checkout, DeliveryHandoff, Fulfilment (liveness)
         MCOutbox, MCDeliveryHandoff, MCFulfilment = one module each
```

`<--` is "is implemented by": the abstract specification is instantiated and
is a PROPERTY of a run, but for OrderLifecycle in Fulfilment, which is a theorem only
(the run checks the narrower contract). The MC modules name instances. A *suite* checks several
modules in one run: its variable `focus` picks a module in the initial state and
never changes, the others keep their initial values, so the run explores the
sum of the modules' state spaces, not their product. The modules of a suite do
not share state in the code either, except through the facts below.

The stages compose through shared facts. Inbox and BankIdentity end where
Checkout begins (a stored, canonical transfer); Checkout ends where Fulfilment
begins (an order PAID, its unit held or swept); Fulfilment abstracts the inside
of a message to QUEUED, REVEALED, SENT, FINAL, which DeliveryHandoff opens for one
bundle, and both are shown to implement DeliveryContract, what the order sees of a
bundle and its message; Warranty begins at a completed order; all rely on Outbox for "an event is
handled again until it is acked", and OwnerAuthority reads what Outbox leaves
parked.

**Outbox** (`infrastructure/outbox/`). One variable per column and per local of
`drainOutboxOnce`; one action per statement: `EnqueueOutboxEvent`,
`BeginDrain` (the cutoff), `ClaimDueOutboxBatch`, `Handle`, `MarkOutboxPublished`,
`RecordOutboxFailure`, `DropStaleResult`, `EndDrain`,
`DispositionTerminalOutboxEvent`, and `LeaseLapses`, `BackoffElapses`, `Crash`.
A statement may throw, with its effect (the answer is lost, `Written`) or without
(`DecisionIsNotWritten`, `ClaimThrows`): the writes of a handler's decision are
inside the `try` and the catch answers with a failure of its own; the claim, the
write for an unknown type and the catch's own are outside and end the drain, the
row still leased. A process has one owner id but two drains may run in it (timer and NOTIFY), so
a drain is the actor. `ran` is a history variable.
*OutboxContract* is what a producer may rely on: published only after a
success, otherwise pending or parked, and closed only by the owner.

**Checkout** (`commerce/`, `payments/`, `wallet/purchase.ts`, `promotions/`). Each
operation is one transaction under the order's row lock, hence one action:
`BuyNow`, `PresentPayment`, `CancelUnpaidOrder`, `RecoverExpiredOrder`,
`RecoverStaleReservation`, `Settle` and `RecordDiscrepancy` (the two outcomes of
applying evidence), `WalletPurchase`; `MakeTransfer` and `TimePasses` are the
customer and the clock. `Kind` selects discrete, counted or no stock.
*OrderLifecycle* is the table of `transitionOrder`.

**Fulfilment** (`digital-goods/fulfillment.ts`, `handlers.ts`, `recovery.ts`). A
handler run is a process with a program counter: `QueueFile` (the file branch,
which `OrderPaid` asks first), `LoadOrder` (an unlocked read), `ClaimAsset`,
`IssueBundle`, `StartProcessing`, `QueueHandoff`, and `RunDies`. `OrderPaid` and
`DeliveryBundleCreated` share that code; the second carries its bundle. A hold
that ran out matters only when the sweep finds it, so its expiry is part of the
sweep. The message, the link, the owner, the recovery lane and the
sweep are further actions. A lane reveals the secret while the bundle is live and
sends later, whatever became of the bundle, so these are two actions
(`RevealSecret`, `SendCredential`).

**DeliveryHandoff** (`digital-goods/delivery-notification.ts`). Creators prepare
and adopt (the Vault write sits between the two); senders go through
`processDeliveryNotificationBatch` one statement at a time, with the catch
block as a step (`HandleFailure`); taps use the legacy link in two phases. Each
fence is written as in the code: `FencedInTime` asks for the lease, the parking
(`Fenced`) does not. `SendCredential` chooses arrival and answer separately: a
timeout may hide a delivered message.
*DeliveryContract* is the bundle as its order sees it: order, unit, bundle, its
expiry, and how far the message is (`note`: queued, attempted, parked, over). A
secret is revealed only while the bundle is live, a message attempted once and only
with a revealed secret, order, unit and bundle end together, and what is parked or
over is never queued again. `Alone` says whether the order may have other bundles:
not in DeliveryHandoff, and in Fulfilment the others are its action `Elsewhere`.

**Inbox** (`infrastructure/inbox/telegram.ts`, `sepay.ts`). One table, two
sources, two lanes; a run is one claimed row with the owner and generation it
remembers. The Telegram claim names no source, so a Telegram run may hold a
payment: it throttles or fails it, never settles it.

**SePayRecovery** (`payments/recovery.ts`, `reconciliation.ts`, `check-now.ts`). A
batch takes the advisory lock, claims the cursor (generation), fetches a page,
applies it transfer by transfer, and advances or completes under
`CursorHeld`; the lock's session may be lost at any step. The provider lists
late, by `PublishDelay` at most.

**BankIdentity** (`payments/repository.ts`). A run is one transaction under
Read Committed: lookup by id and alias, the advisory lock on the correlation
key, the candidate window, insert (which waits for an uncommitted twin), alias,
commit or abort. A row is named by the report that inserted it. Key and stamp are
the report's, so the surfaces may stamp one transfer differently, by the window at
most (`BankAssumption`, from the comment at `payments/repository.ts:104`).

**Wallet** (`wallet/`). Locks are the granularity: presentation locks account
then intents, evidence locks intent then account, so each is two steps, and a
deadlock ends by an abort. The double entry is a pair in `ledger`.

**Preorder** (`commerce/preorder.ts`, `shop-cancel.ts`, the legs in
`payments/service.ts`). Each action is one transaction and includes the
`Allocated` state its trailing allocation leads to: the n-th of the queue gets the
n-th free unit, as the two sorted queries of the code pair them.

**SupplierPurchase** (`supplier/service.ts`, `purchase-core.ts`, `recovery.ts`). An
attempt or recovery pick is a process; the POST is on the wire after the
attempt was marked, may arrive late or never, and every answer is applied to
whatever the record has become.

**StockImport** (`digital-goods/inventory-import*.ts`, `inventory-item-ops.ts`,
`google-sheets/inventory-intake.ts`). Handlers of the chat and of the sheet
stage a text, bind it to the one session, preview, confirm, reveal the text and
write line by line: Vault, row, or the compensation. `bound` keeps, beside the
rows, the text each challenge was shown for, the text it was issued for (the
session is read again between the two) and whether a text was staged between.

**Warranty** (`warranty/claims.ts`, `digital-goods/replacement.ts`). One completed
order, its delivered unit, the spare units, claims and support cases;
`openWarrantyClaim` reads without a lock and so takes two steps; the owner may
quarantine, restore and revoke any unit that is not with an order.

**FileDelivery** (`digital-goods/file-delivery.ts`, `file-artifact-import-session.ts`).
The owner's upload (download, staging, verification, activation, each a
transaction), the job that freezes the active version for an order, and runs of
its event under two leases: claim, send, record, or fail.

**ServiceOrder** (`digital-goods/manual-fulfillment.ts`, `catalog/quantity-stock.ts`).
Orders of a counted variant or a service: reserve and release (the worker's
expiry closes an order and keeps its hold), the task a paid order becomes, the owner's completion, and an adjustment with its read of the
ledger before the transaction that writes it.

**SheetSync** (`google-sheets/requests.ts`, `projection.ts`). A pass reads the
Requests tab, processes row by row in transactions of their own, and writes the
outcomes back by position while the owner types, clears and sorts; a row's
transaction may fail, or commit unheard.

**SupplierCanary** (`supplier/canary.ts`). One trial purchase from preview to
recovery; every write of a run is fenced by the version it read. *Suppliers* joins
it with SupplierPurchase, as `purchase-core.ts` serves both, and states what both
promise.

**Notification**, **Broadcast** (`notification/service.ts`). A delivery lane claims,
checks, fences, marks SEND_UNCERTAIN, sends and reports; domain events rewrite
the alert meanwhile. The broadcast callbacks hold the pool, not a transaction,
so each statement is a step: a confirmation reads the campaign, the frozen rows
and the live audience one after the other. *Messages* joins the two.

**OwnerAuthority** (`identity/step-up.ts`, `sensitive-action.ts`,
`authorization-binding.ts`, `admin-confirmation.ts`, `bot/callbacks/admin.ts`,
`commerce/store-mode.ts`). A press is the transaction of one confirm button; the
grant is spent in a transaction of its own, so a rollback gives back the
confirmation and not the grant. Grants and confirmations carry the store
version they were earned for.

## 3. Runs

| Run | Instance | Shows |
| --- | --- | --- |
| `outbox_safety` | Outbox: 1 event, 2 drains of one process and 1 of another, 2 attempts, 2 setbacks (slow handlers, backpressure, throws), 1 disposition | generation and owner together fence; the contract is implemented |
| `checkout_and_owner` | 3 orders, 2 customers, 1 asset, 1 counted unit, 2 transfers, a code with 2 uses; OwnerAuthority: 2 presses, 2 confirmations, 2 grants, 2 time steps, 2 factors, store versions up to 3, 1 waiting challenge; FileDelivery: 2 runs, 2 presses of the owner, 3 versions, 2 sessions, 2 mishaps; ServiceOrder: 2 orders, 1 of them counted, 2 task runs, 2 presses of each button, adjustments by -1, a first stock of 2 | paid exactly once, intents die with their order, stock conserved, limits hold, lifecycle implemented; the owner's change of the store is the confirmed one; a file and a service are given once |
| `checkout_leak` | the same | **finding** |
| `handoff_safety` | 2 lanes, 2 handlers, 2 taps, 1 crash, 1 failing statement, disputes | one handing over, earned completion, no forgotten attempt; the delivery contract is implemented |
| `fulfilment_safety` | 2 orders, 2 units, 2 overlapping runs, 2 bundles, any number of crashes | a credential is sold once; open bundles are backed; completed means delivered; the delivery contract is implemented |
| `fulfilment_twice` | 1 order, 2 units | **finding** |
| `progress` | Outbox: 1 event, 2 processes, 1 setback; Checkout: 2 orders (one without stock), 1 transfer; DeliveryHandoff: 2 lanes, 1 handler, 1 crash; Fulfilment: 1 order, 1 unit, 2 runs, 1 crash | the leads-to properties, each under its module's fairness |
| `evidence` | Inbox: 1 update, 1 payment, 2 Telegram runs and 1 SePay run of one process, 2 attempts, 3 claims; recovery: 2 transfers, 2 processes, pages of 1, clock to 2, 3 generations; identity: 3 equal transfers, 2 of them inside one window, 2 runs; sheet: 2 request ids, 2 passes, 2 bodies, 1 edit, 4 versions of the asset | no evidence is lost, skipped, merged away or counted twice; a request acts once |
| `evidence_attempts` | the same | **finding** |
| `shop` | Wallet: 1 customer, 2 top-ups, 2 transfers, 1 order, 2 transactions; Preorder: 2 preorders, 2 units; Supplier: 1 purchase, 3 runs, 2 POSTs; Canary: 1 canary, 2 runs, 2 costs; Import: 1 credential, 2 texts, 2 units, 2 handlers, 1 challenge, 3 starts; Warranty: 2 claims, 2 cases, 2 spares; Notification: 1 notice, 2 runs, 2 texts, 4 claims; Broadcast: 1 text, 2 customers, 2 callbacks | the promises of the table below |
| `shop_hold`, `shop_import` | the same | **findings** |

What the names in the cfgs state (each definition carries the full comment; the
runs of one module also check its `TypeOK`, `shop` the `ShopTypeOK` of the
module that runs):

| run | property | in words |
|---|---|---|
| `outbox_safety` | `SettledByLatestRun` | a row is published only by the run of its latest claim |
| | `AttemptsAreRunsOfTheirOwn` | each counted attempt has a run of its own, that failed or whose decision could not be written: none is counted twice, stale results never |
| | `ImplementsContract` | refinement of `OutboxContract` |
| `checkout_and_owner` | `PaidExactlyOnce`, `LiveIntentOnlyWhileUnpaid` | an order takes money once; no intent outlives its order |
| | `HoldsServeLiveOrders`, `CountsAreKept` | dead orders hold no asset; counted stock balances, a code keeps its limits and its uses follow the order |
| | `FrozenForRecordedEvidence`, `ImplementsLifecycle` | a freeze has recorded evidence; refinement of `OrderLifecycle` |
| | `OwnerActsAsConfirmed` | a change of the store spends one confirmation and one grant, both for the version it changes, and never opens over a parked event; no live grant comes from a factor that was recovered |
| | `ServedOnceFromStock` | an order served by hand is served once, and count, ledger and orders agree |
| | `FileIsWhatWasConfirmed` | a version becomes active by the press that saw it, and what is sent is the version frozen for the order |
| `handoff_safety` | `HandedOverOnce` | a credential is sent once at most, and a link shows it to one tap at most |
| | `CompletionIsEarned`, `AttemptIsAccounted` | completion needs a delivery; no attempt is forgotten |
| | `KeepsDeliveryContract` | refinement of `DeliveryContract`: leases, marks, retries and deaths are its inside |
| `fulfilment_safety` | `SoldOnce`, `OpenBundlesAreBacked`, `CompletedIsDelivered` | no unit reaches two orders; an open bundle has its unit; completed means delivered |
| | `BundlesKeepContract` | each bundle implements `DeliveryContract`, whatever becomes of the order's other bundles |
| `progress` | `EventsSettle` | every event is published or parked |
| | `CheckoutsEnd` | orders are decided, holds end, transfers are accounted for |
| | `HandoffsEnd` | a queued handoff ends; a proven send completes its order |
| | `PaidOrdersStart` | a paid order with stock is taken up |
| `evidence` | `ClaimsKeepEvidence` | a payment event is PROCESSED only when its evidence was applied, its row stays, and while a claim's lease runs only the run of that claim ends it |
| | `NothingSlipsBetweenWindows` | a transfer listed in time is applied once the window that held it is completed |
| | `IdentityWithinWindow` | no two reports of one surface share a row; a merge stays within key and window; a transfer has one settleable row at most, and one row for both reports when no other is within the window |
| | `RequestsActOnce` | a request of the sheet changes the asset once, and only as it was recorded |
| `shop` | `WalletIsBacked` | balance is the ledger, every top-up credit has its transfer, every refund its purchase |
| | `RefundOwesWhatWasReceived` | a cancelled or forfeited preorder owes back what its legs took |
| | `QueueIsServedInOrder` | an allocation serves the earliest waiting depositor |
| | `BoughtAsApproved` | a supplier sees one POST per purchase, and the record agrees with what it did; a canary is bought once, at the approved cost |
| | `MessagesAreRecorded` | one message per notice, and SENT shows the current text; the deliveries of a broadcast are its recorded audience, whatever died |
| | `ImportedAsConfirmed` | a credential is at most one unit for sale, and what a sheet's confirmation imports is what its challenge was issued for, which is what it showed unless a text was staged between the two |
| | `SettledInOneWay` | a claim gets money or a unit, not both; the cases of one unit give one replacement. A claim's refund and a support case's unit are not excluded for one unit (section 6) |

*Why the bounds are enough.* Every race in this code is between two actors over
one row, plus one disturbance; the instances have two of each actor, a second
object to steal from, and one crash, slow handler or failing statement. Three
drains are needed because owner and generation fence different pairs; three
equal transfers so that two share a window and one is a second outside it; three
handler starts because an import is confirmed a second time while another door stages.
`MaxBundles` is 2: the second bundle is where an order can go wrong, and a third
repeats it. Two transfers are what it takes to pay twice. Two orders
race for one asset, so that the run cannot show one order with two: the theorem
of `HoldsServeLiveOrders`, for any assets, does. Warranty was also run
with 3 claims and 3 cases, and OwnerAuthority with two waiting challenges,
without a new outcome. What is proved (below) does not depend on any bound.
Symmetry is used in safety runs only, on sets no constant distinguishes; in a
suite the sets of several modules share model values, so that the permutation
of one pair halves each module's states.
Deadlock is not checked: each system may come to rest when all is settled and
the bounds are spent.

*Mutants.* Each property has one: a named, plausible bug (a fence that compares
the owner only, an unmarked attempt, a promotion count that forgets reserved
uses, an overlap left out between two windows), defined beside the operator it
replaces; TLC then finds that property violated.

## 4. Fairness

Only `progress` assumes fairness, per module and in the property itself
(`focus = m /\ Fairness => ...`), so that no module's fairness helps another.

- Outbox: `WF` of each drain (a timer starts it, every lane run ends) and of
  lapsing leases and backoffs (intervals of the database clock). Crashes, slow
  handlers, backpressure and statements that throw are finite in number; the code has no budget for a
  handler that kills its process for ever (`infrastructure/outbox/repository.ts:158`:
  a lapsed lease never counts as an attempt).
- Checkout: `WF` of the clock, of the recovery lane on each row (its batches
  exclude a failing row and go on) and of evidence (webhook or reconciliation).
  Nothing forces a customer to do anything.
- DeliveryHandoff: `WF` of claim, of each sender's steps and of lapsing leases,
  and `PromptSenders`, a lane finishing within its lease: the 25 s send timeout is
  below the 30 s lease the code renews just before it. The safety runs and
  proofs do not assume it.
- Fulfilment: `WF` of runs and of taking up each pending event, which is what the
  Outbox's liveness gives.

## 5. Proofs

Eight modules, all obligations checked by TLAPS, assuming only the named
`...Constants` and `...Assumption` assumptions of the models (which TLC evaluates
too). Each has the same shape: an inductive invariant made of named conjuncts,
one lemma per action or group of actions that can disturb it, and the theorems
read off it.

**OutboxProofs.** `IInv` strengthens the properties by: an active drain's claim
is real and its generation not above the row's (`ClaimsReal`), two active drains
on one row have different generations (`ClaimsDistinct`), a decision is in the
history unless the catch made it (`VerdictsRecorded`), a settled row has no owner
(`SettledUnowned`), an unsettled row has budget left. The fence then passes one
drain, the one of the latest claim. `CountedAttempts` needs a count: an attempt is
added only by the run of the latest claim, which is in the history as one that
failed or was not written (`CatchCounts`: once a write had its effect the fence
stops the catch) and is not counted yet, so attempts never exceed the countable
runs that are over (`AttemptsArePast`).
Results: `TypeCorrect`, `FencedAck`, `ExclusiveHolder`, `CausedDeadLetter`,
`ImmutableEvidence`, `CountedAttempts` and `Refinement` (to OutboxContract).

**CheckoutProofs.** `PaidExactlyOnce` alone is not inductive: one needs that a
live intent belongs to an unpaid order, and that such an order has taken no money.
With that pair, each writer of money sees an unpaid order and closes it. Frozen
orders need `Evidenced` (the freeze has its discrepancy). For the counters
(`CountInv`), the reservation and redemption rows follow their order's status
(`RowsFollowOrder`), so that each transaction adds one order to the finite set
that holds or uses, or removes one that was in it. Results: `TypeCorrect`,
`OrdersPaidOnce`, `NoIntentOutlivesOrder`, `HoldsAreLive`, `FreezesAreJustified`,
`CountsKept`, `LifecycleRefined`.

**HandoffProofs.** The delivery message. The attempt is marked before the send, in a
transaction of its own, and only on a row never attempted. `MarksFirst`: a sender
between its evidence read and its marking that still passes the fence knows that
no attempt was marked, since only the holder of the row marks. Then a sender in
"sending" is the only one and nothing was sent (`SendsAreMarked`).
`QueuedHasCapability` keeps handlers from preparing a row in use. The refinement
needs four facts more (`Owed`): the row comes before any lane or tap
(`QueuedFirst`), whoever will mark or consume has revealed (`RevealedFirst`), only an
attempt is parked and its order is then not PROCESSING (`ParkedForReview`), and the
unit of an open bundle is unsold (`OpenIsUnsold`). Each step then is a step of the
contract or changes nothing it sees; the contract's `note` is read off status, mark
and audit row (`Progress`). Results: `TypeCorrect`, `OneSend`, `OneShowing`,
`OneHandOver` (both together), `EarnedCompletion`, `AccountedAttempt`, `FinalSent` (a row
SENT stays SENT) and `HandoffKeepsContract`.

**FulfilmentProofs.** A unit is *kept* once it was made READY for an order; no
later step, of any run or of the sweep, gives it to another (`KeptUnitsStay`),
though a run between two of its transactions remembers what may be old. What
was disclosed is kept; an open bundle is the latest of its order, and its unit is
kept for that order; a run that is to start or queue knows its bundle. For the
contract, moreover, the unit of every issued bundle is kept, and a revealed message is
about a viewed bundle (`RevealedIsViewed`); a step about one bundle is, to every other
one, a stutter or the contract's `Elsewhere`. Results: `FulfilmentInv`,
`FulfilmentType`, `FulfilmentSoldOnce`, `FulfilmentPromises`, `FulfilmentBacked`,
`FulfilmentCompleted`, `FulfilmentLifecycle` (the table of legal transitions is kept)
and `FulfilmentKeepsContract`. So the two models of delivery, one of many bundles and
one of the inside of a message, are proved against one contract. The first attempt at
this proof failed for a good reason: Fulfilment revealed and sent in one step, which
forbade a message that is sent after its bundle expired; the code allows it
(`digital-goods/delivery-notification.ts:1404`), and so does the model now.

**ShopProofs.** Suppliers: one run at most has a POST to send, on a record attempted
once and posted never (`OneAttempt`, `OneTrial`); an answer that names an end is the
supplier's, whose ends are final, so a late one is as true as a prompt one. Notices:
the run in flight holds the latest claim, and a notice outside a fence has no message
in the chat or one whose id is known (`MayBeSent`); a text that was rewritten while the
run was out is seen by its report, or the alert is queued again. A broadcast queues
what it froze and what was previewed. Warranty: a claim that was promised money has no
case of its own and one with a case was promised none, and a case finds the replacement an
earlier case about the same unit was given. Import: an offered challenge has the text
it was bound to (`ChallengeHolds`), one handler only opens a door (`OpenedOnce`) and so
issues its challenge, and a handler that came through the door works on that text,
because the lock under which the session is confirmed asks for it again; a handler
about to issue finds its own text, none, or its challenge marked (`ShownInv`); a unit
becomes AVAILABLE only while the index holds no other of its credential. Results:
`PurchaseInvariant`, `CanaryInvariant`, `SuppliersBuyOnce`; `NoticeInvariant`,
`BroadcastInvariant`, `MessagesRecorded`; `WarrantyInvariant`, `WarrantyType`,
`WarrantySettled`; `ImportInvariant`, `ShownInvariant`, `ImportConfirmed`. Then the suite of the `shop` run:
its behaviours are behaviours of each module (`ShopIsEachModule`: the module that is
in focus steps, the others stand still, so this is no proof about their interleaving),
hence `ShopTypes`, the run's type invariant, and `ShopKeepsItsPromises`, its seven other
properties in one statement.

**EvidenceProofs.** Identity. Between its look for candidates and its commit a run
holds the advisory lock on its key, and every row another run could add has
another key; so what it saw is still all there is. An alias names a row of its
own key, and two reports of one surface never name the same row. Recovery. A page
is a set of positions in the window's list, newest last, and the list grows while
it is walked; yet a transfer older than the overlap was listed before the window
began (`DueIsListed`), positions only grow (`PositionsGrow`), and no position before
an occupied one is empty (`PositionsAreFilled`, by a least counterexample), so a
page that comes back empty ends the window rightly. A batch that lost its lock is
fenced by the cursor's generation, and one that did not has applied the page it
moves past. Inboxes. A report is fenced by the generation it claimed, of which there is
one; evidence is recorded before the run reports, and a payment's evidence is
never taken back. Requests of the sheet: the row of a request is recorded in the
transaction that acts on it, under the version it names, and neither the pass nor
the second transaction after a failure writes a recorded one; the row in hand is
always one a pass has read, wherever the owner moves it. Results: `BankInvariant`,
`BankType`, `BankIdentityHolds`, `BankRowsStay`; `RecoveryInvariant`, `NothingSlips`;
`InboxInvariant`, `InboxType`, `InboxEvidence`, `InboxClaims`; `SheetInvariant`,
`SheetActsOnce`.

**LedgerProofs.** Sums over sets are taken with the community module's fold, which
no prover here unfolds by induction. The lemmas on them are proved by least
counterexample: were there a finite set whose sum depends on the order, there
would be one of least cardinality. On top, for the wallet: what was read under
the intent's lock still holds when the account's is taken, an idempotency key
has at most one entry, so the balance moves with the ledger by one entry at a
time. For orders served by hand: every row follows from the order's status, and
count, reserved and served units add up to the first stock and its adjustments.
For preorders: legs, debt and order follow from the status (`PreorderAgrees`), and the
ages of the free units have no gap (`AgesAreFilled`, by a least counterexample): where
the m-th of the queue has a unit, every earlier one has (`EarlierIsServed`). Results: `WalletInvariant`,
`WalletBacked`, `ServiceInvariant`, `ServiceServedOnce`, `PreorderInvariant`,
`PreorderRefunds`, `PreordersInOrder`.

**OwnerProofs.** A press that is between its transactions is alone with the
confirmation it consumed and the grant it spent; the version a confirmation was
bound to never exceeds the store's, and equality is asked again under the lock.
For files: one generation per claim, every claim but the first was paid for by a
mishap, so the copies sent and those on the way are bounded by the mishaps, and
a job's version is never changed once frozen. Results: `OwnerInvariant`,
`OwnerConfirmed`, `FileInvariant`, `FileSentAsConfirmed`.

*Model-checked only.* Liveness and ENABLED are beyond the prover: `EventsSettle`,
`CheckoutsEnd`, `HandoffsEnd` and `PaidOrdersStart`. Every other property of the passing
runs, invariant, action property or refinement, is stated by a theorem. The findings
are runs, not theorems.

## 6. Findings

With a run:

1. `checkout_leak`: the worker's expiry (`commerce/recovery.ts:59`) frees neither a
   counted unit nor a promotion use; cancel and the other expiry function do.
2. `fulfilment_twice`: an event handled after its order completed claims, issues
   and sends a second unit (`digital-goods/fulfillment.ts:92`).
3. `evidence_attempts`: the Telegram lane claims SePay rows and spends their
   attempts (`infrastructure/inbox/telegram.ts:291`), so one failure of their own
   lane parks a payment.
4. `shop_hold`: a unit held for one preorder can be given to another, through the
   shop's cancel of a fully paid preorder (`commerce/shop-cancel.ts:119`) or the sweep.
5. `shop_import`: importing a credential that is in stock deletes the secret of the
   unit that is for sale (`digital-goods/inventory-import.ts:414`).

Found with the models, and written here with the definition that shows it
(each is a few steps long and can be had by naming the definition in a cfg):

- `Outbox.OnlyFailedRunsCount`: when the write of a success or of a RATE_LIMITED
  release throws, the catch counts an attempt (`infrastructure/outbox/worker.ts:142`),
  the last of which dead-letters an event whose handler succeeded;
  `infrastructure/outbox/repository.ts:204` says backpressure neither consumes the
  budget nor dead-letters. A TERMINAL_REVIEW lost this way is retried.
- `DeliveryHandoff`, with `PaidBy = "WALLET"`, `ProvenDeliveryCompletes`: the
  reconciliation that completes a proven delivery asks for a succeeded payment
  intent (`digital-goods/recovery.ts:706`); a wallet-paid order has none, is
  parked, and cannot be reconciled by the owner either.
- `Fulfilment.PaidHoldIsKept`: the sweep frees the hold of an order that is paid but
  not yet taken up (`digital-goods/recovery.ts:1147`);
  `specs/001-telegram-shop-mvp/spec.md:192` promises the same unit.
- `BankIdentity.NoTransferIsSwallowed`: of two transfers of one key within the
  window, the second's first report can be merged into the row of the first, when
  that row is the only one and of the other surface (`payments/repository.ts:278`);
  `:269` says that merging happens only with the same transfer and that anything
  else is stored, `:108` trusts that no two real transfers are that near.
- `BankIdentity.RepeatAddsNoRow`: a repeated report that races its first can add a
  row marked ambiguous, without an alias of its own (comment at
  `payments/repository.ts:260`). For an order an ambiguous row is never settled
  automatically; a top-up is credited for it (`wallet/topup.ts:271`).
- `Wallet.RecordedTopupReachesIntent`: reconciliation stores a top-up transfer
  that no top-up will read (`payments/reconciliation.ts:10`).
- `Preorder.CancelledHasNoLiveIntent`: the shop's cancel leaves live intents
  (`payments/repository.ts:621` says `FAILED` on shop cancel).
- `Broadcast.ConfirmedIsPreviewed`: the confirmed audience may hold rows of earlier
  previews, or be the live audience
  (`infrastructure/db/migrations/065_broadcast_confirmation.sql:7` binds it to the preview).
- `StockImport.SheetImportsWhatItShowed`: the sheet answers with the preview of the
  text it staged and issues the challenge for what the session holds when it is
  read again (`google-sheets/inventory-intake.ts:331`); a text the chat stages in
  between is what the confirmation imports. `SheetImportsItsChallenge` shows that
  this is the only window.
- `Warranty.MoneyOrAUnit`: a unit can be refunded through a claim and replaced
  through a support case, as neither looks at the other
  (`digital-goods/replacement.ts:85`, `warranty/claims.ts:719`).
- `Warranty.DefectiveStaysOut`: a defective unit can be restored to stock
  (`digital-goods/inventory-item-ops.ts:112`); `warranty/claims.ts:716` says it never
  returns.

Smaller observations the models carry:

- A handoff that was parked and then prepared again by a late handler is claimed
  for ever, because the audit row stops every later park
  (`digital-goods/recovery.ts:919`); `FreshHandoffSettles` speaks of rows not yet
  parked. A send whose lease lapses between proof and finalisation ends under
  review although it is proven. An order frozen by `commerce/recovery.ts` keeps
  its unit until the sweep.
- A wallet payment leaves the promotion redemption RESERVED
  (`wallet/purchase.ts:107`); an unmatched top-up transfer leaves no discrepancy row.
- A purchase record or canary whose process died between the marked attempt and
  the POST is queried for ever; the lane that cannot
  read its connection updates without a status guard (`supplier/recovery.ts:98`);
  the owner's recovery of a dead OrderPaid refuses once its supplier order is fulfilled.
- Nothing calls `allocateRestockToPreorders` on a stock import
  (`commerce/preorder.ts:615`); FULLY_PAID never becomes FULFILLED.
- Import: a mismatch leaves the challenge PREVIEWED and deletes its text; a chat
  message while PROCESSING sets the session READY; nothing reads
  `inventory_vault_orphan`, though `digital-goods/vault-orphan.ts` speaks of retry.
- Warranty: a refusal of `approveClaimReplacement` returns without throwing, so its
  case commits without its claim; rejecting a REFUND_DUE claim leaves its obligation
  open; two claims can be opened for an order without an asset (the partial index
  does not cover it).
- Sheets: a row whose transaction failed once is recorded as rejected and never
  executed later; the Suppliers tab is keyed by supplier with one row per SKU, so
  a supplier of two SKUs makes the projection throw "duplicate Suppliers stable
  key" (`google-sheets/projection.ts:259`).
- Step-up: `isStepUpLockedOut` (`identity/sensitive-action.ts:217`) counts the failures
  of both purposes, where `infrastructure/db/migrations/077_admin_step_up_recovery.sql:6` keeps the two budgets
  apart; replacing the factor leaves the grants of the old one live, recovering it
  revokes them; the confirmation is taken on one connection while another holds
  the grant.

## 7. Not modelled, and the plan

Within the modelled parts: message wording, prices and discounts, audit and
telemetry, refusals that write nothing, the cleanup ledger of replaced
capabilities (`delivery-notification.ts:514`) and session refresh (`:934`).
OwnerAuthority leaves out the count of wrong codes (it only refuses) and of the
readiness test the part that reads stock and publication. FileDelivery leaves
out whether Telegram is given bytes or a known file id, SheetSync the tabs that
are written and never read. The sheet's intake is modelled though it is off by
default (`docs/06-operations/google-sheets-inventory-intake.md`).

The order of deposits in Preorder is the order of their steps; `deposit_paid_at` is
`now()` of the transaction (`commerce/preorder.ts:448`), its start, so that of two
deposits confirmed at once the later commit may carry the earlier stamp.
`WalletIsBacked` asks for a transfer's evidence, also an ambiguous one, which the
local top-up credits. `ImplementsContract` does not tell a reused disposition
request apart; `RequestUnused` is the guard that refuses it.

Whole components: delivery sessions, the catalogue and product drafts, reports,
presentation and platform; `PROJECT.json` gives each reason.

What is left to prove: that Checkout and Fulfilment, composed at the settlement of an
order, keep both their promises in true interleaving; the suites run their modules
one at a time. Later modules are written as the
present ones: constants with a named assumption, one action per transaction or
statement, invariants as named conjuncts, no RECURSIVE operator.
