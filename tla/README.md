# Verification of the BFG server

TLA+ models of `bfg2/bfg`, the Django back end behind BFG shops: a
multi-tenant commerce platform (orders, payments, stock, delivery, marketing,
sites, support) and the control plane that rents it out. The modules here
follow the code under `src/`; each definition's lines are in
`PROJECT.json`, "map".

```
tlc -workers 2 -config MCRefunds_bounds.cfg MCRefunds
tlapm PaymentServiceProofs.tla
```

## 1. The system

The process is a set of Django workers over one SQL database. A request (REST
call, gateway webhook, agent tool or Celery task) runs in one worker. Services
open transactions (`transaction.atomic`) and lock rows (`select_for_update`);
`ATOMIC_REQUESTS` is not set, so a view is a *sequence* of transactions with
unlocked reads and remote calls between them. Almost everything that can go
wrong here goes wrong in those gaps, and that is the grain of the models: **one
action per transaction or unlocked read**, with the worker keeping between two
actions exactly what the Python object in memory keeps.

| component | state it keeps | operations | hard part |
|---|---|---|---|
| payments (`finance/services/payment_service.py`, `finance/views.py`, `shop/viewsets/storefront.py`, Stripe plugin) | Payment rows (status, gateway_response, gateway_transaction_id), Transaction ledger, order.payment_status, invoice.status | create, intent (shop, admin), process, manual confirmation, webhook | gateway call outside transactions, webhooks racing with requests, stale full saves, crashes |
| refunds (same service) | Refund rows, ledger, payment.status | create_refund, retry under a key | lost answers, concurrent requests with one key, partial refunds |
| order stock (`order_service.py`, `inventory_service.py`, `viewsets/cart_order.py`, `viewsets/product.py`) | Order rows, OrderItemStockReservation, VariantInventory.quantity/reserved, Product.stock_quantity | place, pay, cancel, set status, refund, PATCH, edit items, edit inventory | views that write back an order read without a lock |
| checkout, cart, promotions (`order_service.create_order_from_cart`, `cart_service.py`, `discount_service.py`, `marketing/views.py`) | carts, coupon.times_used, gift-card balance, orders | create order, change or merge carts, redeem and switch cards, edit coupons | what is read under one lock and used under another; rows saved long after they were read |
| platform billing, renewals, entitlements, acquisitions (`platform/services/`) | bills, entitlement rows, the extension's status, the trial credit | acquire, try, bill, pay, renew, grant, sweep | one payment heard several times must buy each period once; requests and commands that read before they write |
| placement, control actions (`platform/services/placement_queue.py`, `control_actions.py`) | placement fences, reservations, capacity, answers by idempotency key | reserve, roll back, expire, place, resize | three row locks in a row, deadlocks, late workers, two ways to expire |
| extension archive (`common/extensions/archive.py`, `services.py`) | WorkspaceExtension, the extension's rows, the archive file | switch on and off, pause, archive, restore, release what is stuck | runs of many steps without a lock, overtaken, dead or late |
| wallet and withdrawals, invoices | wallet balance, requests, invoice numbers | request, approve, reject | unlocked status checks |
| batches, returns, delivery | batches, consignments | edit, ship | arithmetic and state machines |
| users, invitations, web, booking, inbox, support | single rows | edit, accept, book, send | double acceptance, double booking |
| core framework | event bus, permissions, agents | emit, check | effects belong to the callers |

How they meet: checkout creates an order and its invoice and reserves stock;
a payment names both; finalising a payment writes the ledger, calls
`OrderService.mark_as_paid` (which deducts stock) and settles the invoice in
one transaction; `invoice.paid` is what renewals listen to; a refund acts on a
completed payment only. An entitlement that ends pauses an extension, and an
extension that has been off long enough is archived: `Subscriptions` has the
extension's status as the entitlement services see it, `ExtensionArchive` the
pausing as the archive sees it.

What makes each correct:

* payments: money is booked iff the gateway took it; order, invoice, payment
  and ledger agree; what was charged is booked in the end.
* refunds: never more than was paid; a refund is booked iff it was given, once,
  in the end.
* stock: the reserved count is what the orders hold; a cancelled or refunded
  order holds none; a paid order's stock leaves once or somebody is told.
* checkout: a line is ordered once and never thrown away; a gift card is spent
  once; a coupon is used within its limits.
* billing and renewals: a paid bill buys what it charged for, once; a month is
  billed once; nobody loses a period that is paid for, nobody keeps one that is
  not.
* placement: no room is promised twice; a released reservation's worker is
  turned away; what lapsed gives its room back.
* archive: moving rows away and back changes none; a failed archive does not
  start the clock again; nothing stays stuck.

## 2. Modules

| module | models | used by |
|---|---|---|
| `PaymentService` | taking money for orders | `MCPaymentService`, `PaymentServiceProofs` |
| `MoneyBack` | abstract: what a customer may expect of the refunds of a payment | `Refunds` |
| `Refunds` | giving the money of one payment back | `MCRefunds`, `RefundsProofs` |
| `OrderStock` | the stock behind orders | `MCOrderStock`, `OrderStockProofs` |
| `Checkout` | from a cart to an order, with coupon and gift card | `MCCheckout`, `CheckoutProofs` |
| `Subscriptions` | one add-on: acquired, billed, paid, renewed, swept | `MCSubscriptions`, `SubscriptionsProofs` |
| `Placement` | room reserved on clusters | `MCPlacement`, `PlacementProofs` |
| `ExtensionData` | abstract: the rows of an extension change when somebody changes them | `ExtensionArchive` |
| `ExtensionArchive` | the runs that move those rows away and back | `MCExtensionArchive`, `ExtensionArchiveProofs` |
| `Sums` | sums over finite sets: lemmas | `RefundsProofs`, `OrderStockProofs`, `CheckoutProofs` |

The `MC` modules only define symmetry sets, views and constant functions for
TLC, the `...Proofs` modules hold the theorems.

**What unlocked writes break is recorded, not excluded.** Much of this code
saves a row long after it read it. The modules take such a save as the code
makes it, and where it breaks a property, a *history variable* says what was
broken by it: `overwritten` (`PaymentService`), `raced` (`Refunds`), `drift` and
`patched` (`OrderStock`), `revived`, `dropped`, `restored` and `forgotten`
(`Checkout`), `regiven` (`Subscriptions`). A property then says that *nothing but*
that breaks it, and by how much; the behaviours in which it happens are in the
runs. No action but the one that records reads a history variable (a bound
excepted).

### PaymentService

State: `payment` (the row's status, whether the stored gateway response counts
as a success, the gateway id), `attempt` (the row's order and gateway kind,
written once), `ledger` (how many `payment` Transactions the row has), `order`
(status, payment_status and the order's one invoice), and outside the database
`intent` (Stripe's PaymentIntents), `declined` (intents with a failure event to
deliver), `answered` (successes answered 200). `worker` is what a request
handler has in hand. The order and its invoice have other writers; `overwritten`
is the documents these wrote since the payment service last booked anything on
the order.

| action | code |
|---|---|
| `CreatePayment` | POST payments, `create_payment` |
| `BeginIntent`, `SaveIntent` | shop: find or create the payment under the order's lock; open the intent and `payment.save()` the object read earlier |
| `BeginIntent`, `SaveAdminIntent` | admin: the same, saving one column |
| `BeginProcess`, `CallGateway`, `PersistReply`, `FinalizeProcess` | the parts of `process_payment`; `manual` is the staff's confirmation of an offline payment |
| `ReceiveWebhook`, `StoreWebhookSuccess`, `FinalizeWebhook`, `StoreWebhookFailure` | `handle_webhook` |
| `CustomerPays`, `CustomerDeclined` | the browser and Stripe (external) |
| `CancelOrder`, `RefundInFull` | the effect of `cancel_order` and of the last refund on these rows |
| `MarkPaid`, `RefundOrder` | staff's mark-paid and refund of an order, with no payment behind them (`WriteOrder` is what they share) |
| `EditOrder` | PATCH of an order, which takes a `payment_status`, and every save of a whole order that was read before (`order_service.py:930`, `cart_order.py:1080`) |
| `EditInvoice` | `invoice_service.py`: an invoice is marked paid, or edited |
| `Init` | an order that a gift card covered is paid as it is placed (`order_service.py:588-593`) |
| `Crash` | the worker dies, or the transaction it is about to run rolls back |

An `exception` from the gateway stands for a broken connection or a declined
card (both reach the same handler): the charge may or may not have happened.
`processing` is an intent the gateway has not decided (`plugin.py:465-471`).

### Refunds and MoneyBack

One payment; a `Key` is an idempotency key and so a Refund row. `PrepareRefund`
is the first transaction (a new row, or an open one taken up again; closed ones
are returned unchanged), `CallRefundGateway` and `AnswerLost` the call,
`PersistRefund` the second transaction, `FinalizeRefund` the third. The gateway
is asked under `bfg-refund-<pk>`, so it repeats its first answer: an error
(`refused`), or a refund with an id, which is `succeeded`, `pending` or `failed`
(for `failed`, `canceled` and `requires_action`, `plugin.py:508-512`). Whatever its
status, the id is stored (`payment_service.py:604`), and a row with an id counts
as confirmed when it is taken up again (529). What a pending refund turns into
later is left out: nothing in the code listens to it.

`raced` are the keys that two requests handled at one time. A row two requests
handle may be reopened by the lost answer of one with the id the other stored.

`MoneyBack` says what these three transactions and the call between them are to
be for somebody who looks from outside: each refund goes back at once, whole and
once, all within the payment, and the books are closed (`settled`) only with all
of it in them, after which nothing goes back. The mapping (`GivesBack`): what
went back is the amount of each row the gateway accepted to give; booked is
what has a ledger row; settled is the payment's status `refunded`. The abstract
step happens when the *gateway* decides, not when its answer arrives. The
bookings of refunds that two requests handled at once (`twice` is `raced`) may be
wrong, and with one of those the end of the refunding; what goes back may not.

### OrderStock

One variant in one warehouse, one product without variants, several orders.
The services lock the order and are one action each (`PlaceOrder`,
`MarkAsPaid`, `Cancel`). The admin views are two: `ReadOrder` (`get_object`,
no lock), then a write of the object read (`UpdateStatus`, `BeginRefund` and
`EndRefund`, `PatchOrder`, `UpdateItems`) or a call of a service that reads it
again (`Cancel`). `ReadInventory` and `SaveInventory` are the halves of PUT
inventory, which writes the reserved count it read. History variables: `taken`,
how often each order's items left the stock; `drift`, what such writes added to
the reserved count, or took from it; `patched`, the orders that a PATCH called
cancelled, or paid.

### Checkout

`cart` has the CartItem rows (lines) of every cart, the customers' and the
`Guest` ones; a line costs one unit. `coupon` and `card` are one row each.
`create_order_from_cart` is one transaction and one action per lock or read:
`BeginCheckout` (lock the cart, read its lines), `Price` (read them again, and
the coupon unlocked), `CheckCoupon` (lock the coupon, validate), `TakeCard` (lock
the card), `PlaceOrder` (the commit: the order, the cart emptied of *whatever
it holds by then*, the use counted, the card charged) and `Abort`. `holds` are
the row locks.

Beside it: `AddToCart` (a new row names its cart by a foreign key, so it waits
for a checkout's lock), `RemoveFromCart` (also `clear_cart`), `ReadLine` and
`SaveLine` (`update_item`, and `add_item` of a product already there: Django
inserts a row again that is gone when it is saved), `BeginMerge` and
`FinishMerge` (`merge_guest_cart_to_customer`), `Redeem`, and the read and the
save of a card or coupon by staff (`ReadCard`/`SaveCard`,
`ReadCoupon`/`SaveCoupon`, `DropEdit`), none of which locks anything. A merge
deletes the guest's cart with whatever is in it by then.
History variables: `removed` and `redeemed` (what shoppers and staff took), and
what saves undid: `revived` (lines saved to a cart they had left), `dropped`
(lines that joined a cart being merged), `restored` (put back on the card),
`forgotten` (uses of the coupon taken back), `overwritten` (how often, a bound).

### Subscriptions

`rows` is the list of entitlement rows of one add-on in the order written, `bill`
the invoices of the platform (one per attempt at acquiring, one per month),
`unheard` the paid bills whose `invoice.paid` has not been handled. A row carries
`from`, the row whose end it starts at: two rows charged by one bill may be
clamped to one end, and each then buys the period after it. A moment is
twice the day, plus one within the day. A worker reads in its first action and
writes in its last:

| action | code |
|---|---|
| `BeginAcquire`, `Entitle`, `IssueBill` | `acquisitions.acquire`: a grant or trial, or a bill; two may overlap |
| `Grant`, `Resume`, `Activate`, `Deactivate` | `entitlements.grant_entitlement`, `_resume_if_paused`; the owner's switch |
| `PayBill`, `SaveBill`, `CancelBill` | `invoice.paid` on payment and again on every save of a paid bill |
| `BeginRenew`, `FinishRenew` | `renewals.renew_for_invoice`, heard through `handlers.py` |
| `BeginBilling`, `FinishBilling` | `issue_monthly_bills`, with the trial credit, for any past month (`regiven`: bills that give it after it was given) |
| `BeginSweep`, `FinishSweep` | `close_due_periods`, grace and pausing |
| `Crash`, `NextDay` | a process dies; time |

### Placement

`fence` is a workspace's `placement_fence`, `request` the reservations by
idempotency key, `answer` what `control_actions` replays, `holds` the row locks.
An operator's request is `Claim`, `LockTarget`, `LockDue`, `LockExpired` (the
profile of each request it expires, one by one), `LockProfile`, `Admit` or
`Refuse`, `Reserve`, `Answer`; a rollback `LockRequest`, `LockJoined`, `RollBack`;
the sweep `BeginSweep`, `SweepTarget`, `SweepRows`, `LockExpired`, `SweepExpires`,
`EndSweep`. `LockJoined` is what `select_related` adds to `FOR UPDATE` on MySQL: the
rows joined to the request are locked too, the target cluster's among them
(`placement_queue.py:246-247`; the rows of the workspace and of the operator are
locked as well, but nothing in the module waits for these).
`PlaceNew` (a workspace created directly on a cluster), `UpdateCluster` (its
capacity edited), `Lapse` (time), `Crash`, and `GiveUp`: in a deadlock the
database picks a victim.

### ExtensionArchive and ExtensionData

`ExtensionData` is what a workspace may expect: its rows change when it changes
them. `ExtensionArchive` has the record with its status and clock, the rows, the
archive and what each process's run has in hand; no run holds a lock between
its steps.

| action | code |
|---|---|
| `Create`, `Edit`, `Delete` | the extension's own requests; `LateWrites` are those its status does not stop |
| `Activate`, `Deactivate`, `FindActive`, `Pause` | `services.py`; the entitlement sweep |
| `BeginSweep`, `FindStuck`, `ReleaseStuck`, `Claim`, `EndSweep` | the archive command: what is stuck, then what is due |
| `Export`, `WriteManifest`, `Verify`, `Seal`, `RefuseSeal` | one archive run |
| `BeginRestore`, `FinishRestore`, `Load` | the request and the task it queues |
| `Fail`, `Release`, `Crash`, `LoseJob`, `Tick` | storage fails, a process dies, a task is lost or late, time |

The refinement mapping (`KeepsData`): the abstract rows are those in the tables,
or, while the record says `archived` or `restoring`, those in the archive it
names.

## 3. Runs

| run | instance | shows |
|---|---|---|
| `payment_books` | 2 payments of one order, 2 workers, all answers, one write of the order or invoice by others between bookings | `MoneyBehindLedger`, `BooksAgree`: nothing is booked that nobody paid, and payment, ledger, order and invoice agree, through stale saves, webhooks, retries and lost answers, until somebody writes the order or the invoice past the payment service |
| `payment_webhooks` | 1 payment, 2 workers, crashes, declined cards, client-side flow, writes by others | `AnsweredIsBooked`, `ChargedIsBooked`: no answered success is lost and every charge is booked in the end, unless a card was declined on that payment |
| `refund_bounds` | 3 keys, 2 workers (also on one key), total 3, every answer | `NeverOverRefunded`, `BookedIsGiven`, `LedgerOnce`, `RefundedIsWhole`; `GivesBack`: implements `MoneyBack` |
| `refund_retries` | 2 keys, 2 workers, total 2, fair | `GivenIsBooked` |
| `stock_orders` | 1 order, 2 stale views of it or of the inventory | `CancelledHoldsNothing`, `PaidIsDeductedOrFlagged` |
| `stock_patches` | 2 orders, 1 view, PATCH of statuses, stock counts | `ReservedAccounted`, `VariantTakenOnce` |
| `checkout_orders` | 2 carts of one customer, 1 guest's cart, 2 lines, 2 workers, one save that undoes another's write | `OrderedOnce`, `NothingVanishes`, `CardSpentOnce`, `CouponWithinLimits`, `SoldAsChecked` |
| `subscriptions_sold` | 3 months of one and two days in turn, 2 workers, 4 rows, 1 add-on's bill | `PaidIsGiven`, `GivenOnce`, `CreditOnce`, `StillWatched`, `EndsInTime` |
| `subscriptions_paused` | the same, 1 worker, 3 rows, 2 add-on's bills | `PaidIsAvailable` is violated (below) |
| `placement_room` | 1 cluster, 2 workspaces, 2 keys, 2 operators, a sweep of one reservation a run | `Fenced`, `NeverOverPromised`, `LapsedIsReleased` |
| `archive_data` | 2 processes, 2 rows in 2 tables, late creates | `KeepsData`, `OffSince` |
| `archive_frees` | 2 processes, 1 row, fair | `ComesFree` |

Each property has a mutant in `PROJECT.json`: a definition with a bug of the
kind its code could have, on which the same run fails. The mutated definitions
stand next to the real ones in the modules, marked "Mutant". Every run but the
liveness runs also checks its module's `TypeOK`.

### Where code and documentation disagree

`subscriptions_paused`: an extension paused because its period ended stays paused
when the workspace pays. `renewals.py:169` writes the new period but sets no
status; only `grant_entitlement` resumes. `entitlements.py:160-161` says "paying
again is all it takes to get it back".

### Known not to hold

These were found while modelling. The first part are definitions of the modules
that no run checks; the rest is what the properties of the runs except.

| property | what happens | said otherwise at |
|---|---|---|
| `PaymentService!LedgerOnce` | a completed payment is opened again, and booked a second time, in three ways (`OnlyReopenedTwice`): `process_payment` stores the gateway's answer without a look at the row, which a webhook has completed meanwhile; the shop's intent view saves a payment it read before that; a fully refunded payment is processed again, or finalised by a second delivery of its webhook | `payment_service.py:272` |
| `DeductedOnce` | a stale status update undoes a payment; the next one deducts again | `order_service.py:998` |
| `PausedIsUnpaid` | an archive that fails overwrites the reason of a pause, and a grant no longer resumes it | `entitlements.py:161` |
| `ConflictIsChange` | a request that finds a lapsed reservation expires it, moves the fence, is refused for it, and takes the expiry back: reloading never helps until the opt-in sweep or a rollback | `placement_queue.py:180` "Reload and try again" |
| `ChargedIsOrdered` | the lines are priced from a second read: a line removed in between is ordered and not charged | |

| excepted | what happens | said otherwise at |
|---|---|---|
| `BooksAgree`: `overwritten` | mark-paid, refund, PATCH, a stale save of the order or an edit of its invoice: paid without a payment, or unpaid with one | |
| `AnsweredIsBooked`, `ChargedIsBooked`: `Declined` | a declined card closes the payment; the same intent's later success is answered 200 and ignored | `storefront.py:1676` |
| `LedgerOnce`, `BookedIsGiven`: `raced` | two requests with one key book the refund twice; or one stores the id of a refund that failed or is pending, the other's lost answer reopens the row, and the next retry books it | `tests/services/finance/test_refund_concurrency.py:52`, `payment_service.py:616` |
| `CancelledHoldsNothing`, `PaidIsDeductedOrFlagged`: `patched` | PATCH writes `cancelled` and releases nothing, or `paid` and deducts nothing | |
| `ReservedAccounted`: `drift` | an inventory edit writes back a reserved count from before another request; release and deduction may then raise "Owned stock reservation is inconsistent; reconcile the order" (`order_service.py:1026, 1061`) | |
| nothing releases it | an order that is refunded keeps its reservation | `models-and-api.md:402` |
| `OrderedOnce`: `revived` | a line saved after a checkout ordered it is inserted again, and ordered again | |
| `NothingVanishes`: `dropped` | a line a guest adds while the cart is being merged is deleted with the cart | |
| `CardSpentOnce`, `CouponWithinLimits`: `restored`, `forgotten` | switching a card, or editing a coupon, writes back a balance or a count from before a use | |
| `CreditOnce`: `regiven` | billing two months at once gives the trial credit twice | |
| nothing to check | two requests for one add-on at once get two bills, or two trials | `acquisitions.py:383` "Asking twice is one bill" |
| `GivenOnce`: `from` | two rows charged by one bill that end on one day (the 30th and the 31st of January clamped to February's last) both buy the same next period | `renewals.py:278` |
| `KeepsData`, with `IgnoreAge` or with late edits or deletes | an archive taken of an extension still written to misses the writes: the delete compares counts; with `--ignore-age` a second run claims what a first is still archiving (`OnlySpoiledRows`) | `archive.py:639-642`, `archive.py:1114-1116` |
| room promised and then taken | `PlaceNew` (`workspace_service.py:132`) and a lowered capacity (`control_views.py:1081`) do not look at reservations; `NeverOverPromised` says it of reserving only | |

Seen in the code, outside the models' data: two requests that merge one guest's
cart at once add its quantities twice (the comment at `storefront.py:626` says
"a no-op rather than a double-count"); cancelling an order
(`order_service.py:1118`) gives back neither coupon nor card; a coupon switched on
again between pricing and check is counted without a discount; a coupon that
covers everything refuses an order that also names a card; `update_items`
(`cart_order.py:990`) changes an order's total without a look at payments in
flight, whose webhooks are then dropped with 200 (`payment_service.py:747`).

### Bounds

* `MaxIntents`: intents per payment.
* `MaxLedger`: ledger rows per payment or refund. 2 lets a double booking
  happen; it disables `Complete` (`FinalizeRefund`) beyond that.
* two workers: every hazard listed is a race of two requests. A third only
  repeats what the second did to a stale first.
* two orders, two payments of one order, three refunds: one more than the
  number whose interplay is checked (`create_payment` looks at *other*
  payments, the reserved sum at *other* orders, the refund sum at two others).
  `stock_orders` has one order: its two properties are each of one order, and
  what others do to the shared counts is `SaveInventory`'s to write back.
* `MaxWritten`: documents (an order or an invoice) written by others since the
  last booking; a booking clears them, so there may be any number in a run.
* `VIEW WithoutAnswers` in `payment_books`: states that differ only in `answered`
  are one. No property of that run speaks of it and no guard reads it.
* amounts of 1 and 2 of a total of 3 (of 2 in `refund_retries`), so that two
  refunds may fit or not; `Answers` are all there are.
* `Counts`, `ItemCounts`: what staff enters in the views. `drift` is bounded by
  the reserved counts a worker can have read.
* `MaxOverwritten = 1` (`Checkout`): one save in a run that undoes another's write;
  the theorems have any number. Two lines and two carts let a cart be ordered,
  filled and ordered again while the other is. `Limits` are `<<1, 2>>`, a coupon
  that ends with its first use, and `<<2, 1>>`, one use for each customer, so that
  either limit is the one that binds; the card of 1 is used up by one order.
  `Asked` leaves out checkouts with neither coupon nor card, which do less.
* `Months = 3`, months of one and two days: a period, its successor and the one
  after; a day that the next month lacks. `GraceDays` and `TrialDays` of 1.
  `MaxRows` 4 and `MaxAddOns` 1 disable the actions beyond them: one bill for the
  add-on, and so no two at once, in `subscriptions_sold` (two in
  `subscriptions_paused` and any number in the theorems).
* `Placement`: one cluster with one free room besides the one `PlaceNew` takes,
  so that every reservation competes; `Limit = 1` so that a run leaves some for
  the next.
* `ExtensionArchive`: ages stop counting at `ArchiveAfter + RunLimit`, which
  nothing compares; `MaxVersion` and `MaxJobs` bound writes and late tasks.
  `archive_data` has `IgnoreAge = FALSE`, `LateWrites = {"create"}` and an
  `ArchiveAfter` above twice the `RunLimit`: with more, `KeepsData` does not hold
  (above), and `OnlySpoiledRows` says of all that is left out which steps do it.

Symmetry is used over workers, and over payments, keys, orders, carts or lines
where the constants treat them alike, in runs without liveness.

Deadlock is not checked where it is disabled in the configuration: the
payments, keys, orders, lines or months of an instance are finite, and a system
in which all are settled and every worker is idle may stop. Database deadlocks
are in `Placement` (`GiveUp`).

Isolation is READ COMMITTED (no `isolation_level` is set in `config/settings.py:210-218`, and it is Django's default for MySQL):
every statement reads what is committed by then.

### Fairness

`WebhookFairness`: Stripe repeats an event until it is answered 200 (strong
fairness of receiving an unanswered event), a worker that began goes on unless
it dies (weak fairness of its steps), and it does not die every time (strong
fairness of the two webhook transactions). The client must stop asking for
intents at some time: the shop's view saves the whole row, and one save per
webhook could undo every one of them. Nothing is assumed of the customer.

`RetryFairness`: for each key, the client repeats a request whose outcome it does
not know (what an Idempotency-Key is for), and among the requests that handle
it one gets through in the end: neither connections nor workers fail for ever.

`ExtensionArchive!Fairness`: a run that goes on goes on or dies, time passes, and
the sweep is run again and again (cron, or an operator) without dying every
time before it has released what is stuck.

`Placement!Fairness`: the database finds a deadlock (weak fairness of `GiveUp` by
some process); a lock that comes free again and again is granted in the end, and
not every process that waits at the same step dies there (strong fairness of
each step of a sweep, of an operator's step and of `LockJoined`); and the expiry
command is run again and again.
That command is opt-in (`PLATFORM_PLACEMENT_EXPIRY_ENABLED`): without it
`LapsedIsReleased` does not hold.

## 4. Proofs

Each for every value of the constants, from the module's assumption alone
except where a theorem states another. Where totals are taken, the assumption
says that the rows are finitely many (`IsFiniteSet(Key)` in `Refunds`,
`IsFiniteSet(Order)` in `OrderStock`; a list of orders is finite by itself).

`Sums` makes totals something to prove about. `SumFunctionOnSet` is a fold, its
value by recursion over a set, which the provers cannot follow; `SumCountsCoins`
gives it a meaning they can: if each element of a finite set has as many coins
as its value, the sum is the number of coins. It is proved without induction:
among the subsets for which it fails one would have no smaller one in it
(`LeastSubset`), and the fold takes one element out of that. From cardinalities follow the laws the
other proofs use: a sum over part of a set is not greater (`SumOfPart`), and when
one element changes, joins or leaves, the sum moves by that element's share
(`SumMoves`).

`PaymentServiceProofs`:

* `Typing`: `Spec => []TypeOK`, one lemma per action; `HoldsType` and
  `EndsType` carry the worker's part.
* `NoMoneyFromNowhere`: `Spec => []MoneyBehindLedger`. The property alone is
  not inductive: a ledger row is written from the stored `gateway_response`,
  which was written from what a worker held, which came from a gateway answer
  some steps earlier. `MoneyInv` follows that chain: *whoever claims a success
  has money behind it*. `ClaimsOK` says it of the workers (what they hold in
  reply or row, and what a webhook reported), `RowsOK` of the payment rows and
  the ledger, `CreationOK` that a payment not created yet is blank. An intent
  never leaves "succeeded" and a created payment never changes its gateway, so
  `HasMoney` is stable and every step carries the claim along.

* `BooksKept`: `Spec => []BooksAgree`. `BooksInv` adds what the workers hold
  (`HeldOK`): a row that may be written back later is never a settled one, so
  no stale save of the payment can undo a completion that the ledger, the order
  and the invoice share; and a document nobody overwrote since is as the booking
  left it.
* `AnsweredAreBooked`: `IntentFlowSpec => []AnsweredIsBooked`. The fairness is not
  used. `AnswerInv` says why an event is never dropped too early: the id of an
  intent is on its payment's row from the moment the intent exists, and every row
  saved later, however stale, writes that same id; so an event that is dropped
  finds a payment that is settled, and what is settled is booked (`BooksInv`), or
  failed, and only a declined card makes it so.
* `OnlyReopenedTwice`: `Spec /\ [][~ Reopens]_vars => []LedgerOnce`. One payment is
  one ledger row does not hold (section 3); the theorem says which steps alone
  are to blame: the storefront's save and the stored answer when they meet a
  completed payment, and a refund. TLC has a behaviour that books twice for each.

`RefundsProofs`:

* `Typing`, and `NoRefundFromNowhere`: `Spec => []BookedIsGiven`, with
  `RefundBookedOnce`: `Spec => []LedgerOnce`. One invariant carries both (`SoloInv`):
  of a key no two requests ever handled at once (`Solo`), what a worker or the row
  claims is what the gateway said, a row that holds an id and is open is of a
  refund that succeeded, and while a request handles the row the row is open, so
  the ledger has one row for each completed refund and none for the others. What
  two requests do to one key stays with that key.
* `NeverTooMuchBack`: `Spec => []NeverOverRefunded`. The sum the code compares,
  over the rows that reserve (`Reserved`), is not what stays within the payment: a
  failed row whose retry loses its answer is processed again, and then reserves
  what another refund may have taken since.
  `PromiseInv` bounds another sum, over the refunds that were accepted and that
  the gateway has not refused (`Promised`). A row is accepted only if the
  reserved sum leaves room, and a promised row is always reserving: a row
  becomes failed only by an answer that says so, and the gateway, asked under
  one key, has then refused for good (`FailedOK`).
* `WholeWhenRefunded`: `Spec => []RefundedIsWhole`, racing requests included: the
  completed refunds are among the booked ones, and the status is written under
  the payment's lock from the sum of the completed (`WholeInv`).
* `RefundsGiveBack`: `Spec => GivesBack`, with any number of requests of one key.
  `GivesNothing`, `GivesOne` and `BooksOne` are the three ways a step can map; the
  one that needs an argument is that nothing is given once the payment is
  `refunded`: if no raced key is booked, its whole amount is booked, so given, and
  another refund would exceed the bound of `NeverOverRefunded`.
* `RefundedIsGiven`: when the payment is `refunded` and no raced key is booked, the
  gateway has given back all of it, not less (what is booked was given) and not
  more.

`OrderStockProofs`:

* `Typing`: among others, no count of stock becomes negative.
* `StockInvariant`: `Spec => []StockInv`, from which the three properties
  follow. `Fits(row, st)` says what an order's row may claim beside a
  reservation in state `st`. It holds of the row stored *and of every row a
  view still holds*, because a view may write its row back at any time; and it
  survives every way a reservation moves while its order exists (`Moves`: to
  consumed, or from reserved to released). That is why the reservation row,
  which views never write, protects the stock and the stamp
  `stock_deducted_at`, which they do, does not.
* `TakenOnce`: `Spec => []VariantTakenOnce`, with what each reservation's state
  says of the history (`OrderFits`).
* `CancelledIsFree`, `PaidIsNoted`: `Fits` and what a PATCH wrote (`Called`): a row
  that says cancelled, or paid, without the stock to go with it, stored or held by
  a view, is one of an order in `patched`.
* `ReservedIsHeld`: `Spec => []ReservedAccounted`: step by step with `StockInv`, each
  action moves one order's share and the count by the same amount, or `drift` and
  the count (`SaveInventory`).
* `ReleaseSucceeds`: hence, as long as `drift` is not negative, the count covers each
  order's reservation, and `release_stock_reservations` does not raise "Owned stock
  reservation is inconsistent": only inventory edits that wrote back less than
  was reserved make it.

`CheckoutProofs`, from `CheckoutsRely` (the inductive invariant):

* `TypeCorrect`: among others, no card is overdrawn, whatever edits are stale.
* `LinesOrderedOnce`, `NothingLost`, `CouponLimitsKept`, whatever saves are stale.
  `InPlace` says where a line can be (new, in one cart, in one order unless it was
  revived; a checkout holds the lines its cart had, and none joins that cart),
  `Sound` what a checkout still knows by the locks it holds, `Counted` that the
  coupon's count and what edits took back are the number of its orders.
* `CheckedHolds`: `Spec => SoldAsChecked`: what was found of
  coupon and card is still so when the order is placed. `KnowInv` is what a
  checkout knows by the rows it holds after each of its steps: after
  `CheckCoupon` that the customer may use the coupon, after `TakeCard` that the
  card has what is taken. Everybody who would change that waits for the row's
  lock, be it for an unlocked save.
* `CardPaysOnce`: `Spec => []CardSpentOnce`: each step moves the balance and the sum
  of what was paid, redeemed or restored by the same amount.

`SubscriptionsProofs`, from `ReadIsSo` (the inductive invariant):

* `PaidIsBought`, `BoughtOnce`, `NeverUnwatched`, `SweptInTime`, for any calendar,
  number of workers and bills. The invariant says what each kind of worker may
  still believe of what it read (`Renewing`, `Sweeping`, `Billing`): rows are only
  added, and keep their ends and who bought them, so what a worker has seen
  written stays written, and what it saw missing is looked for again under the
  lock.
  Each bought row ends where the row it goes on from says (`Follows`, `Continues`),
  so a report that finds a period not written has not written it from any row,
  though two of its periods may end on one day.
* `CreditedOnce`: a bill drawn up before the credit was spent and written after is in
  `regiven`, whatever months are billed at once.

`PlacementProofs`, from `WorkersRely`: `TypeCorrect`, `ReservationsFenced`,
`RoomPromisedOnce`, for any clusters, workspaces, keys and processes. The
invariant says that no row has two holders and which rows a process holds where
(so that the room counted before a lock is still there at the commit), and that
a reservation's fence is its workspace's.

`ExtensionArchiveProofs`: `TypeCorrect`; `ClockKept` (`OffSince`);
`OnlySpoiledRows`: `Safety /\ [][~ Spoils]_vars => KeepsData`, for any ages,
`--ignore-age` and late writes. `Spoils` is one of three steps: a row that a run has
exported and may still seal is edited or deleted; a run seals while a restore
has the archive before it; a pause hits a record that was archived since it was
found active (`entitlements.py:184-205`). Without these every step of
`ExtensionArchive` is a step of `ExtensionData` or changes nothing of it; TLC has
a behaviour that loses data for each of the three. The invariant is that what a
run has exported is what the workspace has (`Fresh`), wherever its rows are, and
that what a restore holds is the archive.

Only model-checked: liveness (`ChargedIsBooked`, `GivenIsBooked`, `ComesFree`,
`LapsedIsReleased`), which is out of the prover's reach, and `PaidIsAvailable`,
which does not hold. Every other property of the runs is the subject of a
theorem above.

## 5. What is not modelled

* Amounts and currencies in `PaymentService`: `create_payment` refuses an
  amount other than the order's. Editing an order's items changes its total
  while a payment may be in flight, unlocked and unchecked; with it in the model
  most payment properties would hold only without it.
* The wallet, saved payment methods and invoice numbering.
* In `OrderStock`, the `order_created` deduction policy and
  `allocate_stock`/`adjust_stock`: nothing in the repository calls them.
  Orders from before reservations were recorded; several warehouses; the
  derived totals `variant.stock_quantity` and `product.stock_quantity`.
* In `Checkout`, quantities, prices, tax, shipping, discount rules other than one
  coupon. Its order's stock and invoice are `OrderStock` and `PaymentService`.
* In `Subscriptions`, amounts, metered usage, bundles, cancelling and refunding a
  subscription, several add-ons of a workspace (their rows are independent but
  for the bill they share).
* In `Placement`, provisioning and the hand-over of a shop to its owner, the
  other control actions, audit events.
* In `ExtensionArchive`, several extensions at once, media files, purging of
  archives, rows outside that refer to archived ones (as data; they are a
  failure of the run).
* Booking slots (`web/views.py:1481-1660`), withdrawals, invitations, batches and
  returns, delivery, inbox, support, usage, exchange rates, branding, the agent
  framework, seed data and the bundled extensions: see the notes in
  `PROJECT.json`. Much of the rest of the code is serializers, list views,
  configuration and I/O around single rows.

## 6. Plan

1. The order's total and `update_items` in `PaymentService`, with an abstract
   `MoneyBook` (a payment is charged, then booked) that it implements when items
   are not edited.
2. Quantities in `Checkout`, with the double count of two merges.
3. Booking: two requests for the last place of a slot.
4. The hand-over of ownership and provisioning, composed with `Placement`.
5. Withdrawals and invitations: two requests and one row.
6. Pure algorithms as operators against reference definitions: condition
   engine, freight calculator, stock allocation.
