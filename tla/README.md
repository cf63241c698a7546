# A TLA+ verification of the restaurant ordering system

The repository is the ordering system of a restaurant: a Next.js front end
(`apps/web`), a NestJS API and worker (`apps/api`, PostgreSQL through Prisma) and a
small print server that stands beside the till (`tools/printer-server`). Orders come
from the restaurant's web shop (paid at Clover), from the till and from Uber Eats;
they end as kitchen tickets; around them stand points and store balance, coupons and
promotions, the menu at Uber and the books. This directory holds TLA+ specifications of
the parts in which an order, a payment, a ticket, a point or an entry can be lost, doubled
or contradicted by concurrency, retries and crashes, the TLC configurations that check them on small
instances, and TLAPS proofs for every size of instance.

- [1. Inventory](#1-inventory)
- [2. Plan](#2-plan)
- [3. The modules and the code](#3-the-modules-and-the-code)
- [4. The runs](#4-the-runs)
- [5. The proofs](#5-the-proofs)
- [6. Where code and words disagree](#6-where-code-and-words-disagree)
- [7. What is not shown](#7-what-is-not-shown)

Paths below are relative to `apps/api/src` unless they begin otherwise; `ubereats/`
stands for `integrations/ubereats/`. `PROJECT.json` maps every definition to the lines
it models, every property to a mutation of the model that breaks it, and lists the
hazards the properties are aimed at, each at its line.

## 1. Inventory

### Processes and shared state

The API process serves HTTP and socket.io, runs the timers of the print gateway, the
reconciliation of payments (every 5 s), the nightly coupon job and the pollers of the
lifecycle outbox and of scheduled orders. One or more worker processes run the lanes of the Uber webhook inbox
and of the Uber command outbox, and confirm menu publications. They share the database and nothing else: an in-memory
event bus (`order.accepted`, `order.paid`, `order.refunded`) exists inside the API process only and is
lost with it. External parties are Uber (webhooks in, commands out, answers lost),
Clover (charges with idempotency keys, a customer's 3DS challenge in between), Uber
Direct, and a POS browser or printer at the end of a socket.

### Components

| Component | State it keeps | Operations | Interacts through | What makes it hard | Correct when |
|---|---|---|---|---|---|
| Uber webhook inbox (`ubereats/application/orders/process-uber-webhook-inbox*`, `.../uber-webhook-inbox-prisma.adapter.ts`, worker) | `UberWebhookInbox` rows: status, attempts, lease token and time, next attempt | enqueue, claimDue, markSucceeded, markUnsupported, markFailed, requeueUnsupported | webhook controller, lanes of workers, order handlers | leases expire under running handlers; counts read outside the lease; events of one order must keep their order; quarantine and replay | one lane settles a row; order of a resource kept; nothing dropped early; every accepted event ends |
| Uber order state machine (`ubereats/domain/orders`) | none | decisions on statuses | everything that moves an Uber order | called on stale statuses | only its moves happen |
| Uber order action outbox (`uber-order-action*`) | `UberOrderAction` rows, one per command of an order, with an idempotency key; the order's status; the `order.accepted` fact | request, requestScheduledFinalizeAccept, claim, context, gateway call, complete, markFailed | imports, POS, workers, Uber | answers lost after Uber acted; leases; a row that changes its key while a worker has it | a row says SUCCEEDED only for what Uber did; the accepted fact is earned |
| Uber order import and cancellation (`uber-order.use-cases.ts`, `orders/order-ingestion.service.ts`) | order row, timing, first command | import, follow-up, standalone DENY, cancellation | inbox lanes, action outbox | read-modify-write of the order by id; two notifications for scheduled orders | an order never waits without an answer; a refund stays |
| Preparation and lifecycle outbox (`orders/order-preparation.service.ts`, `orders/processors`) | `order.accepted` and `order.prep_started` facts, `scheduleActivatedAt` | start immediate, due, early; print | pollers, POS, gateway | three ways to start one order; crash between stages | kitchen gets accepted orders only, and gets them |
| POS orders (`pos/pos-orders*`) | none of its own | advance, retry, cancel, patch, management, amendments | orders core, action outbox | check and command in two calls | commands fit the order's state |
| Print gateway and server (`pos/pos.gateway.ts`, `tools/printer-server`) | `PosPrintJob` rows, timers in memory, socket rooms | sendPrintJob, joinStore, ack, timeout, dispatch | fulfilment, sockets | overlapping calls write one row unconditionally; timers die with the process | a ticket is printed, given up for a reason, or waits for a POS |
| Checkout intents and card payments (`clover/checkout-intents.service.ts`, `clover/clover-pay.controller.ts`) | `CheckoutIntent` row with metadata (attempt, inFlight), charges at Clover, the order | session, pay, reconcile, status, create the order | customer's browser, Clover, orders core | two kinds of callers race over a captured charge; stale metadata writes; lost answers; crashes | one order, only for captured money, and no intent stays behind |
| Clover client, pricing tokens (`clover/clover.service.ts`, `pricing-token.service.ts`) | none | charge, status, issue, verify | Clover | idempotency | one charge per key |
| Orders core (`orders/orders.service.ts`) | orders, items, amendments, clientRequestId | quote, create, update status, amend, refund | loyalty, coupons, promotions, Clover, fulfilment | one transaction over many tables; a refund in two transactions; a price computed twice | one order per request; what it takes commits with it; money adds up |
| Uber Direct delivery (`deliveries`, `orders/processors/fulfillment.processor.ts`) | externalDeliveryId | dispatch on paid | in-memory bus | check, call and write are three steps; two announcements | one courier per announcement |
| Uber API client and OAuth (`ubereats/infrastructure/uber-api`) | token cache and its lock | fetch, refresh | Uber | answers lost | — |
| Uber merchant provisioning (`ubereats/application/merchant`) | store mapping and provisioning state | provision, webhook, deprovision | Uber | webhooks race with calls | the mapping follows Uber |
| Uber menu publication (`ubereats/application/menu`, `ubereats/infrastructure/persistence/uber-menu-*`) | channel rows (price, availability), publications and their versions, leases; the menu at Uber | set, import and restore prices, switch availability, publish, confirm, recover, be notified | administrators, worker, Uber | three writers of a version; two rows for one price; uploads and suspensions overtake each other | the baseline is a menu Uber had; nothing is lost unnoticed; every version ends |
| Uber operations (`ubereats/application/operations`) | tickets | reports, retry | administrators | — | — |
| Loyalty (`loyalty`) | account rows, ledger | settle, redeem, pay by balance, roll back, amend, top up, adjust | orders core, in-memory bus | unlocked reads, idempotency keys under retries, late settlements | rows are the sums of their entries; a refund undoes what happened |
| Promotions (`promotions`) | rules | evaluate, resolve | quote, order creation | two passes that must agree; priorities and exclusions; ties | the quoted price is the price |
| Coupons (`coupons`, `admin/coupons`) | programs with their count, coupons of members | claim, trigger, nightly job, push, update | members, scheduler, administrators | limits checked outside transactions; serialisation conflicts; an aborted job | coupons are counted, limits kept, nobody forgotten |
| Membership (`membership`) | users, a member's coupons | reserve and release a coupon | orders core | two orders, one coupon | used once |
| Authentication, phone verification | sessions, codes | log in, verify | web | — | — |
| Messaging (`messaging`, `email`, `sms`, `notifications`) | messages and their status | send, callback, announce a paid order | providers, in-memory bus | callbacks repeated or lost | — |
| Accounting (`accounting`) | transactions with version and key, audit log, closed months | create, update, delete, close a month, accrue revenue | administrators, web page | edits from one version; a month closed meanwhile; accruals repeated | no change lost; revenue once |
| Analytics, reports, retention | — | reads, exports, deletion | administrators, intents | — | — |
| Administration, menu, store, location | configuration | CRUD | administrators | — | — |
| Web front end, shared libraries | none shared | pages, types | API | — | — |

Control flows: a webhook is stored in the inbox → a lane's handler imports the order and
queues a command in the same transaction → a lane sends the command to Uber, and its
confirmation moves the order to `paid` with an `order.accepted` fact → a poller starts
preparation with an `order.prep_started` fact → a poller (or, sooner, the in-memory bus)
creates the AUTO print job → the gateway delivers it. A web order instead begins with a
checkout intent, a charge and `createImmediatePaid`; it takes points, balance and a coupon
in the transaction that creates it, and `order.paid` then settles loyalty and asks for a
courier. Refunds and amendments give back what was taken.

## 2. Plan

Order by what a fault costs: orders and money first, then tickets, then the rest.

| Step | Module | Composes / refines | Theorems | State |
|---|---|---|---|---|
| 1 | `UberWebhookInbox` | implements `WebhookDelivery` (at-least-once delivery) | types, lease, order, no early drop, refinement | done |
| 2 | `UberOrderAction` (with `UberOrderStateMachine`) | — | types, fence, earned success | done |
| 3 | `UberOrderLifecycle` | extends and implements `UberOrderAction` | types, refinement, accepted orders only | done |
| 4 | `PosPrintJob` | — | types with the bound on sends, nobody forgotten | done |
| 5 | `CheckoutIntent` | — | types, paid, one order, used is not failed | done |
| 6 | `OrderSettlement` | extends `LoyaltyLedger`: an order, its payment in points, balance and coupon, refunds, amendments, the courier | types, atomic orders, refunds, balance, courier, sums of the ledger, lifetime spend | done |
| 7 | `UberMenuPublication` | — | types, baseline, restored prices, suspensions, acknowledged losses | done |
| 8 | `OrderPromotions` | — | types, greedy outcome, agreement of the passes, specials, coupons, rewards, the quoted price | done |
| 9 | `CouponProgram`, `Accounting` | — | types, counts, limits, birthdays; versions, revenue, accruals, closed months | done |
| 10 | `InboxAndLifecycle` | composes 1 and 3: attempts of the inbox against leases of the outbox | what `UberOrderLifecycle` assumes of its lanes | open |
| 11 | an abstract `Payment` for steps 5 and 6 ("unpaid, captured, ordered once, settled once") | refinement of `CheckoutIntent` and `OrderSettlement` | refinement theorem | open |
| 12 | `UberTokenCache`, `UberMerchant` | — | mapping follows Uber | open |

Conventions for all modules: state as few variables as the code has independent pieces of
state; one action per statement between two awaits; parameters as CONSTANTS with a named
ASSUME; no RECURSIVE operator anywhere, so that every module can be proved about.

## 3. The modules and the code

The unit of interleaving is the database statement. Code between two awaits, and code
inside one transaction that holds the row it decides on, is one action; anything a call
has read and uses later is kept in the local state of that call.

### UberWebhookInbox, WebhookDelivery

`row[e]` is the row of event `e`, `lane[l]` the local state of one poller lane (its event,
its lease token, the attempts it counted), `issued` the number of tokens given out,
`arrivals` the order in which inserts begin, `understood` the event types the deployed parser
knows, `handled` the events whose handler completed. Actions: `Receive` and `Enqueue` (the
receiver's insert gets its `createdAt`, and is committed, maybe after one that began later:
`overtaken` remembers the leases on later events that were out by then), `Sweep` and
`Claim` (the two statements of `claimDue`; `Sweep` buries rows whose last attempt died in
PROCESSING), `Handle` and `Fail` (the dispatch), `MarkSucceeded`, `MarkUnsupported`,
`CountAttempts` then `MarkFailed` (the read without the lease, then the fenced update),
`Replay` (the administrator reopens quarantined rows), and around them `LeaseTimeout`,
`BackoffElapsed`, `Crash`, `Deploy`. What a handler does is abstract here.

`WebhookDelivery` is what the inbox promises: owed until done, abandoned or quarantined;
done only after a completion; done and abandoned final. `ImplementsDelivery` maps the
columns of a row to that state.

### UberOrderStateMachine, UberOrderAction

The state machine is the pure part: which command may be asked for, what a confirmed
command does to a status, how an import merges statuses. `UberOrderAction` is one order's
commands: `task[a]` the row of command `a` (the unique key is order and action), its
phase standing for the idempotency key; `performed` what Uber carried out (external);
`worker[w]` a worker between its statements. `Request`, `RequestScheduledFinalize` (the
ACCEPT row moves to a new key), `Claim`, `ReadContext` (the status is read before the call
to Uber), `Perform` (Uber acts; the answer may be lost), `Refuse`, `Complete` (status,
fact and row in one transaction, fenced by the token), `MarkFailed`, `LeaseTimeout`,
`Crash`. `OrderWritten` and `OrderImported` are what the rest of the system does to the
order; here anybody may do it at any time.

### UberOrderLifecycle

Extends `UberOrderAction` and gives `OrderWritten` its real callers. Handlers (`lane`):
`Notify` (lookup, deciding whether this is the second notification of a scheduled order),
`DenyStandalone`, `ReadStored` then `MergeOrder` (the SELECT and the later update by id of
`OrderIngestionService.ingest`, with the intent in the same transaction), `Finalize`,
`NotifyFailure`/`CancelOrder`, `LaneFails`. Staff: `PosDecide` then `PosRequest` (check and
command are two calls), `PosAdvance`, `Patch`. Preparation: `StartImmediate`, `StartDue`,
`StartEarly`, all through `Activate` under the row lock. Tickets: `PrintFromOutbox` from the
durable fact, `PrintFromBus` from the in-memory event, which `AnnouncementLost` drops.

Abstracted: items, amounts and the event cursor (which only suppresses repetitions); what
admission decides is open within `Admissions`. `Patch` is every move the POS may make by hand,
pending to paid included: the code asks no Uber order whether it has been accepted there, so
the history variable `paidByHand` remembers it. `Sent` bounds the commands workers take up in a
run; DENY, whose confirmation moves no order, is requested and waits. The inbox hands out the
events of one order one at a time, hence one lane in the runs.

### PosPrintJob

One target of one job: `row`, the entry of `timer` in the memory of the process, `online`
(a socket in the store's room), `unanswered` sends, and `task[t]`, the step of each call in
progress (`sendPrintJob`, `joinStore`, an acknowledgement, a timeout), which may all end in
`dispatchTarget`. All writes are unconditional in the code, and here. `Throw` and `Restart`
are always possible; the history variable `failed` remembers that one of them happened.

### CheckoutIntent

One `referenceId`: `intent` is the row (`"absent"` before it exists; `attempt`, `inFlight`
and `recent` are the metadata fields the code decides on), `charge[k]` the charge at Clover
under the idempotency key of attempt `k`, `orders` the orders created for it, `crowded` whether
ten older unresolved intents keep it out of the timer's list, `call[c]` what each request or
reconciliation does next and what it has read.

A payer (`payWithCardToken`) goes `Pay` → (`Reset` | `Record`) → `Claim` → `Begin` →
`CreateCharge` → (`Challenge` | `Fail`, `Clear` | `Verify` → `Note`) → creation →
`MarkProcessed`. A reconciler (`reconcileIntent`, from the timer or from a status poll) goes
`Poll` → `Ask` → `ClaimOrderCreation` → `Quote` → `Surcharge` → creation → `MarkCompleted`;
one that read `creating_order` skips the claim, as the code does. Creation is `CheckIntent` →
`FindOrder` → `CreateOrder`, the last one transaction that consumes the intent. The row
statements (`Expired`, `ResetForRetry`, `Failed`, `Completed`, `Landed`, `Claimable`) are
operators named after what they write, with the conditions of their `updateMany`; two are
unconditional in the code (`updateMetadata`, `markProcessed`) and here. Faults are chosen per
run: `"crash"`, `"lost"` (no answer from Clover), `"mismatch"` (a comparison of amounts fails),
`"refused"` (the price changed, a coupon is gone, the database throws). The charges of the
attempts in `Mistaken` carry another identifier than the one expected, whenever Clover is asked:
a payer's request then fails the intent, a reconciliation leaves it as it is. `Crowd` is the
other intents, `Retain` the deletion of rows after two weeks (`data-retention`), whatever their
status; that no request of a payer is under way then, and that nobody pays again under the
identifier of a deleted row, are bounds.

Abstracted: money; Clover's client and identifiers (external: one charge per key, repeated
answers, a challenge that the customer ends). The timer works off its list one intent after the
other; the place in the list is looked at when the intent is taken up.

### LoyaltyLedger, OrderSettlement

`LoyaltyLedger` holds `account` (points, balance and lifetime spend of a row), `ledger` (the
entries, unique by order, type and source), `call[c]`, a transaction between its first, unlocked
read and its commit, and `lost`, the accounts of which a commit overwrote something it had not
read. A transaction is two actions: a start that reads the row as `ensureAccountWithTx` does (an
upsert with an empty update, no lock), and a commit under `FOR UPDATE` that writes absolute
values: `Settles`, `RollsBack`, `AppliesAmendment`, `TopsUp`, `AdjustsManually`, with the entries
each one adds (`Earnings`, `ReferralBonus`, `TakenBack`, `Undone`, `Returned`, `BonusTakenBack`,
`EarningAdjusted`, ...). `Abort` and `DuplicateFails` roll back.

`OrderSettlement` adds the orders: `CreateStarts` / `Creates` / `CreateFails` (the pricing reads,
then the one transaction that redeems, takes the coupon and inserts the order),
`UpdateStatus`, `FullRefundStarts` / `Rollback` / `FullRefundRecords` (two transactions),
`AmendStarts` (the order is read) / `AmendReads` (the account, without a lock, and only if
points or the amount change, `TouchesLoyalty`) / `Amends`, the announcements (`Announce`, `RecordOrderPaidEvent`), their
listeners (`HandleOrderPaid`, `HandleRefunded`, `DispatchReads`, `DispatchAsks`,
`DispatchRecords`) and `Crash`, which loses the in-memory events. A wish brings points, balance, the coupon (worth
`CouponWorth`) and a `discount`, which stands for the counter's and the automatic promotion's
together. The order row has what its items came to before and after discounts (`subtotal`,
`after`): settling adds what is left after all of them, a refund takes off the subtotal less
coupon and points (`NetOf`), an amendment starts from the subtotal less points
(`AmendmentBase`), each as its code does. Money and points are the same small units; tax, fees
and the tier are left out, and the order and the sum of its earlier amendments are read in one step.

### UberMenuPublication

`item` is the local menu (on, paused until a day), `config` the channel row of an item,
`legacy` the items with a second row under the Uber store id (`Dark` those whose second row says
they are not available), `version` the publications,
`publishing[p]` and `switching[a]` the use cases between two awaits, `live` the menu at Uber,
`ticket` the operations tickets. Writes that do not tell Uber: `SetRow` (the draft
and the price book change price, availability or both), `RestorePrice`, `ApplyImport`; the ghost
`unsent` remembers the rows that one of them was the last to switch off. A switch starts as
`Switch` (the three modes of availability), `EditItem` (the edit form sends isAvailable and leaves
a pause as it is) or `SwitchChannel` (the Uber pages, which leave the local row alone), and goes
on with `SaveSwitch` → `SwitchAtUber` or `SwitchRefused` → `ReportSwitch`; a
publication `Read` → `TurnAway` | `Submit` → `Upload` | `Refuse` → `RecordSuccess` |
`RecordFailure`. The worker's `ClaimDue` / `MarkConfirmed` and `ClaimTimedOut` / `MarkTimedOut`
share the lease column; `Notify` is Uber's notification; `Crash` ends a publication, `Midnight`
a pause. A price is one of source, own, null or no row, since nothing else is compared.

### OrderPromotions

One order, a basket of lines with their specials, the rules of the channel, a coupon, an
entitlement and a counter discount. `BasicCandidates` and `AllCandidates` are what the
adapters make of them, with the arithmetic of the code (`Math.round`, caps, the cheapest units);
`Consider` is one step of `resolvePromotionCandidates`; `StartSecondPass` computes the coupon
from what the first pass accepted. `Quote`, `PlaceOrder` and `CreateOrder` are the two
evaluations around the payment: the second one has new random line keys.

### CouponProgram

`row[p]` is a program with its count and a version that stands for what a serialisable snapshot
notices; `coupons` the rows of the coupons issued, each with its program, member, day and number;
`work[w]` a call or the nightly job between its
reads and writes. `ClaimReads` → `ClaimCommits` | `ClaimConflicts` (a serialisable transaction,
retried), `TriggerLoads` → `TriggerEvaluates` → `TriggerIssues` (outside a transaction),
`Midnight`, `PushLoads`, `UpdateProgram`, and `DatabaseFails`, `Crash`, `Restart`.

### Accounting

`entry[i]` an entry with its month, key, version and the orders it covers, `audit` the log,
`closed` the closed months, `call[c]` a request or an accrual. The check of the period, the
write and the audit are separate statements, as in the code: `ReadForUpdate` → `CheckPeriods` →
`Update` → `WriteAudit`, and likewise `Insert` and `Delete`, the last without a condition;
`SelectOrders`, `LookUp`, `AccrueOrder` / `AccrueDay` are the accrual; `CloseMonth`; `OrderPaid` is
the environment. The key of a day's entry holds the date as it was sent (`Spellings`), that of an
order's entry the order.

## 4. The runs

Twelve runs; the last one checks a statement of a comment against the code (section 6).

| Run | Instance | Properties | Shows |
|---|---|---|---|
| `inbox` | 2 lanes, 2 events of one order, inserted in either order, one of them not understood until a deployment; 2 attempts, 1 replay | `InOrder NoEarlyDrop ImplementsDelivery EventuallySettled` | order, at-least-once, and that every accepted event ends |
| `action` | 2 workers, 2 tokens, ACCEPT and CANCEL, arbitrary writers of the order | `SucceededIsPerformed AcceptedIsPerformed` | nothing claims what Uber did not do |
| `lifecycle` | 1 handler, 1 worker, ACCEPT and DENY (only ACCEPT taken up), every patch of the status | `PaidIsAccepted ImportIsAnswered ImplementsOutbox AcceptedIsPrinted` | the kitchen gets accepted orders only, those set to paid by hand apart, and gets them |
| `print` | 3 overlapping calls, 2 attempts, 2 sendPrintJob calls, 2 unanswered sends, restarts and throwing calls | `TypeOK NothingIsForgotten Settles` | the limit of sends is exceeded by at most one per further call; a ticket ends printed, exhausted or set aside |
| `checkout` | 2 payers, 1 reconciler, 2 attempts, the second charged under other identifiers, all four faults, other intents, retention | `OrderIsPaid OneOrder UsedIsNotFailed LandedIsReconciled` | one order per intent, for captured money only, never failed afterwards; a landed payment leaves processing unless older intents crowd it out |
| `settlement` | 1 in-store order of a referred member with points, balance, a coupon or a counter discount, 2 calls, a top-up, an adjustment, one amendment, crash and abort | `LedgerExplainsRows RefundsUndoEntries RefundReturnsPayment SpendIsEarned` | rows are the sums of their entries; refunds undo what the ledger says; nobody's lifetime spend is above what was earned on |
| `races` | 2 orders of 1 member, 1 coupon, one order couriered and announced twice | `OrderTakesWhatItUses OneCourier` | what an order takes commits with it |
| `menu` | 1 item with a second row that says it is not available, 1 publisher, 1 administrator, 2 days, 2 changes of price, availability or both, 2 versions after a first one (of an item that is on) or none | `SucceededWasUploaded RestoreSticks SoldOutIsSuspended LossesAreAcknowledged PublicationsEnd` | the baseline is a menu Uber had; losses are acknowledged; versions end |
| `promotions` | all baskets of 2 lines from 4 and 3 kinds, up to 2 of 9 rules, 4 coupons, 3 entitlements, 2 discounts | `PassesAgree CouponSparesLines RewardsAreBought QuoteIsHonoured` | the quoted price is the price, ties apart |
| `coupons` | 2 members, 2 programs, 2 calls and the job, 4 nights in 2 years, 2 attempts, 1 change, 1 fault | `IssuedIsCounted BirthdayOnceAYear ClaimsKeepLimits BirthdayIsKept` | coupons counted, claims within limits, no birthday doubled or forgotten |
| `accounting` | 3 calls and one that closes a month, 2 orders, 2 spellings of their day, 2 months, 3 entries | `ChangesAreChained RevenueIsBookedOnce AccrualIsComplete LateChangesAreOld` | no change lost; revenue once, with the exceptions named; a closed month takes only what was under way, a delete of a moved entry apart |
| `over_refund` | 1 order, 1 amendment, 1 call | `RefundsAreCapped` | violation |

Every module has a type invariant, and all of them are proved. Only `PosPrintJob`'s, which
bounds the sends, is listed in a run; the others, and the proved invariants that no run lists,
also hold on the instances of the runs (add `INVARIANT TypeOK`, for instance).

Why the bounds are enough. Two lanes, two workers or two payers are the smallest numbers at
which one overtakes, fences off or overwrites another; three or more overlapping actors are
covered by the proofs, which fix no number. Two attempts distinguish the last attempt from
the others, a retry under a new key from a repetition under the old one, and "limit reached"
from "limit exceeded". Two events of one order are what an order among events needs; one
replay reopens each of them once. Two tokens suffice for two workers because a token is free
again once its holder is gone and the row is settled. The print job has one target because
targets share neither columns nor timers; an intent is single because all that others do to it
is to fill the timer's list, a job because rows of different ones share nothing. Accounts are shared, hence two orders of one member in `races`; the
referrer is the second account a transaction can lock. Two orders and three entries let an
accrual skip, book and meet an edited entry. In the menu one item suffices for prices and
switches, which are per item; in development the safety properties held with three changes,
and before edits could switch a row off all of them with three changes and versions, with two publishers and with two items of which one has an option. Two lines and two
rules are a candidate beside the one that excludes it, twice; the proofs fix neither number.
A crash can cost two nights of a birthday month, the one it ends and the next: three leave one. `MaxAttempts` is 3 in
the code for claims and 2 in the run: first and last. Symmetry is declared only in runs without
liveness properties. Deadlock is checked except where work is bounded and the system comes to
rest by itself (orders, menu, promotions, coupons, accounting).

### Fairness

Fairness is stated where the code has a timer, a poller or the event loop behind it, and
nowhere else; nothing is assumed of Uber, of customers' retries, of staff or of deployments.

- `UberWebhookInbox`: clocks (`LeaseTimeout`, `BackoffElapsed`), the poll of each lane, and a
  lane's handler, which returns, throws or dies.
- `UberOrderLifecycle`: WF of the two stages of the lifecycle outbox processor (its interval
  timer). Both actions are disabled only by the progress they stand for.
- `PosPrintJob`: WF of the continuation of each call (the event loop), SF of the expiry of
  the timer: with the number of calls bounded by `Tasks`, a due timer may find no free call,
  in the program it only waits for its turn.
- `CheckoutIntent`: WF of `~crowded /\ Poll` (the interval timer of 5 s, which takes the ten
  oldest unresolved intents; nothing is assumed of older ones, and `LandedIsReconciled` has as its
  premise that they do not fill the list for ever or again and again) and of `WindowEnds` (time); SF of the reconciler's further steps, since a crash may
  interrupt any reconciliation but not every one; SF of `Ask`: Clover does not fail to answer
  for ever; WF of `Authenticate`: a 3DS challenge ends or times out at Clover. No fairness of
  payers, so a customer may close the page at any step.
- `UberMenuPublication`: WF of the steps of a publication once it has begun (calls to Uber and
  to the database end), WF of the recovery's claim (the worker polls) and SF of what follows a
  claim (the worker is not killed within the minute of each of its leases); WF of `LeaseExpires`.
  None of uploads being answered, notifications or administrators.
- `CouponProgram`: WF of the steps of the job, of `Midnight` and of `Restart`; a crash or an
  error of the database may end a job, the number of faults is bounded.

## 5. The proofs

Every safety property of the passing runs is a theorem. The proofs are in
`UberWebhookInboxProofs`, `UberOrderLifecycleProofs` (the command outbox and the whole),
`PosPrintJobProofs`, `CheckoutIntentProofs`, `OrderSettlementProofs`, `UberMenuPublicationProofs`,
`PromotionProofs` (promotions and coupon programs) and `AccountingProofs`, for every number of
lanes, events, workers, tokens, calls, attempts, accounts, orders, entries, items, versions, lines,
rules, programs and members. Assumptions are the named ASSUMEs of the modules (sets disjoint,
limits positive, inputs of the types the code gives them), which TLC evaluates in the runs, and
the hypotheses named below.

- **Inbox.** `TypeCorrect`, `LeaseExclusive`, `ResourceOrder`, `NoEventDroppedEarly`,
  `LeaseIsRespected`, `DeliveryImplemented`. `OneHolder` is not inductive: it needs `Leases`
  (tokens are issued once, none is from the future). `NoEarlyDrop` needs `Counted`: the count a
  lane read outside its lease is still the row's while its lease holds, because only a claim
  changes it and a claim takes the lease. `InOrder` needs `Created` (no row is newer than the
  last insert that began); an event that became visible under a lease on a later one is its
  exception, and the only one besides a replay. The refinement needs `Worked` (a lane that will report success has handled its
  event). The refinement theorem maps every step to a step of `WebhookDelivery` or a stutter.
- **Action outbox.** `TypeCorrect`, `LeaseIsExclusive`, `SuccessIsEarned`, `AcceptanceIsEarned`,
  `SuccessStays`, `MovesAreTheMachines` from one invariant `IInv`: types, distinct tokens, *a
  worker that still holds a row was claimed for the phase the row is in*, an answer received is
  a command carried out, and the two claims about success and acceptance. The phase conjunct is
  what a late worker of the first ACCEPT would break.
- **Lifecycle.** `OutboxImplemented` shows that every step of the whole is a step of
  `UberOrderAction` or leaves it alone, so its theorems carry over (`TicketsAreAccepted` uses
  `AcceptanceIsEarned` so). `PaidOrdersAreAccepted` and `TicketsAreAccepted` hold for every move
  staff makes by hand and name the one that is an exception, an order set to paid by hand;
  `PreparationsAreAccepted` has no exception: an order set to paid has no accepted fact, without
  which no preparation is recorded (`advance` prints a ticket without one). The strengthening `AcceptedEverywhere` says the same of what handlers have
  read but not yet written, of the in-memory announcement and of the preparation fact.
  `ImportsAreAnswered` needs `LanesKnowTheOrder`: a handler that stores an order without an
  intent follows one that exists.
- **Print job.** `PrintTypeCorrect` bounds the sends: `attempts` plus the calls that passed the
  check but have not counted yet stay below the limit plus the number of calls (a cardinality
  argument). `DeliveredRowsAreWatched` and `NoTicketIsForgotten` hold until `failed`:
  after a restart they are false (section 6). The second needs `Attended`: an
  unfinished row not set aside has a timer or a call that will look at it or overwrite it.
- **Checkout.** `CheckoutTypeCorrect`; `CheckoutOrderIsPaid` from *a call past Clover's answer
  knows of a captured charge* (`StepsArePaid`), *captured charges stay captured*
  (`CapturedIsStable`) and *payers carry the number of a real attempt* (`Numbered`), arguing from a
  state without a captured charge (`Unpaid`); `CheckoutOneOrder` and `CheckoutUsedIsNotFailed`
  from one invariant `Linked`, which adds that a call about to link an order to the intent, with
  or without a condition, comes after the order (`LinksAreOrdered`): that is why the
  unconditional `markProcessed` is harmless. All four hold with crashes and all other faults.
- **Settlement.** `SettlementTypeCorrect`; `SettlementOrderTakesWhatItUses` (entries of an order
  exist only with the order, carry exactly what it redeemed, and the coupon's owner is the order
  that shows it); `SettlementRefundReturnsPayment`, whose invariant follows the call of a refund:
  once its rollback committed, nothing is left to undo, and no other transaction adds a
  redemption to an order that exists; `SettlementRefundsUndoEntries`;
  `SettlementBalanceIsNeverNegative` (the balance is looked at again under the lock, the points
  are not); `SettlementOneCourier` (an order has one announcement of its own, and whoever has
  asked or will ask has used it up). `SettlementLedgerExplainsRows`: whatever commits adds entries
  that are all new (`Booked`; the unique slots of `Kept` are what makes them so) and moves the row
  by their sum, or the account is in `lost`. `SettlementSpendIsEarned` is about accounts none of
  whose orders was announced twice or amended: there an order is settled once (`SettledOnce`: its
  announcement, the call that settles it and the entry it earned follow one another), and a refund
  takes what the items came to after the coupon and the points (`RefundsTakeNet`), at least what
  settling had added. The spend is therefore never above what was earned on. It is exactly that
  until an order with a discount of the counter or of a promotion is refunded (`Exact`): such a
  refund takes off the discount as well, up to the cut-off of the spend at zero.
- **Menu.** `MenuTypeCorrect`; `MenuSucceededWasUploaded`, from: a version with an answer was
  uploaded, a confirmation's lease is held only for a version with an answer, and a publication
  that will record success has uploaded; `MenuRestoreSticks`, from: a restored item has no price
  of its own in either row that counts. `MenuSoldOutIsSuspended` speaks of histories in which no
  answer is lost, neither calls nor a midnight overlap, and Uber began with no menu that no row
  vouches for (`~disturbed`), and names one exception: rows that an edit of the draft or an import
  was the last to switch off, until a publication has read them so (`unsent`). Its invariant
  `Undisturbed` follows an item that is off locally, with no pause left over, and in the channel
  row (`Off`): a switch that turned it off has told Uber or left a ticket (`AtUber`) or is about to
  (`OnItsWay`), and the menu an upload carries suspends the item unless the row was switched off
  after it was read (`InUpload`). `MenuLossesAreAcknowledged` is an action property of the same
  histories; its invariant `Recorded` says that Uber has the prices of the last version that
  succeeded, or of the upload just accepted, and that whatever was restored since that row
  finished was restored since the last upload (`Baseline`), that a publication's row is its own
  (`OwnRow`), and that what an upload under way takes away is among the risks it named
  (`Acknowledged`). No answer is ever recorded for such a row by the code at hand (`Unanswered`).
- **Promotions.** One invariant `IInv`: the inputs are legal, candidates are built from them, those
  considered are closed under "goes before", and the accepted ones are the kernel of the conflicts
  among them; taking the first candidate left keeps the kernel. The second pass agrees with the
  first because no extra candidate conflicts with one that was kept (the coupon has none of the
  blocked lines). `PromotionsOutcomeIsGreedy`, `PromotionsPassesAgree`, `PromotionsSpecialsStand`
  and `PromotionsCouponSparesLines` follow. `PromotionsRewardsAreBought` counts units: the n first
  units of a strict order are at most n, and if the products to buy are those to get, a whole set
  is bought for every one given. `PromotionsQuoteIsHonoured` compares two evaluations under
  different random keys. Two orders of the units that agree on every pair across the border give
  away the same units (`FirstOnesAgree`); without ties at the border the keys therefore change no
  candidate (`BasicCandidatesStay`), and a set of candidates has one greedy outcome (`OneKernel`,
  by a first candidate on which two outcomes differ). `QuoteInv` carries that from the quote to the
  order: the quoted price is that of some outcome for the present candidates (`HonestQuote`).
  `PromotionsTypeCorrect` shows that no discount and no sum of discounts or prices is negative.
- **Coupons.** `ProgramTypeCorrect`, `ProgramIssuedIsCounted`, `ProgramBirthdayOnceAYear` and
  `ProgramClaimsKeepLimits` from `ProgramInv`: no coupon of a member has a number above how many
  there are, so that what is issued is new (`Numbered`), a program whose row still has the version
  a claim has read still allows the claim (`ClaimInv`), and whom the job has in hand has not had
  this year's coupons (`InTurn`), which no claim, push or sign-up trigger can change for a program
  of birthdays.
- **Accounting.** `AccountingTypeCorrect`, `AccountingChangesAreChained`,
  `AccountingRevenueIsBookedOnce`, `AccountingAccrualIsComplete` and `AccountingLateChangesAreOld`
  from one invariant `IInv`, with a clause for each kind of call in progress: an update knows the
  entry's version or an earlier one, and if it is the same, the entry is what was read (`Updating`);
  versions replaced by changes in the log and by those about to be logged differ (`Chained`); a key
  names one order and one entry (`EntriesOK`); an accrual has an entry for every order it has dealt
  with (`Accruing`); what is about to be written was allowed in the months closed when the call
  began (`Allowed`), months being closed but never opened. Of a delete this is so for the entry
  as it was read, which is why `LateChangesAreOld` excepts an entry that was moved since.
  `RevenueIsBookedOnce` excepts entries without a key and two keys of which one is a day's.

Sums (the ledger's, the prices') and choices along an order are defined by recursion over finite
sets. The library's induction theorems, which take an operator, cannot be instantiated here; the
lemmas about them (`SumIsUnique`, `SumExists`, `SumWithout`, `SumIsNat`, `FirstOnesAgree`,
`OneKernel`) argue instead from a smallest counterexample, which `WFMin` gives for the subsets of a
finite set (`Smallest`).

Only model-checked: the liveness properties (`EventuallySettled`, `AcceptedIsPrinted`, `Settles`,
`LandedIsReconciled`, `PublicationsEnd`, `BirthdayIsKept`), because liveness under fairness and
ENABLED are out of the prover's reach; and the violation of section 6, which needs an instance.
The two refinements (`DeliveryImplemented`, `OutboxImplemented`) are proved for the safety part
of the specifications they implement, which have no fairness.

## 6. Where code and words disagree

**A full refund ignores what was refunded before** (run `over_refund`). An amendment may refund
part of the price; `createFullRefund` compares the amount with `totalCents` alone and records the
whole price again. The amendment's own split, under the comment "退款拆分（现金退上限 + 超出返积分）"
(`orders/orders.service.ts:3641`), caps the cash at what was paid.

Other disagreements the models show when the property in question is asked of them:

- *A refund can be undone.* `order-status.ts:15` has `refunded: []`. `ingest` reads the order with
  a plain SELECT, computes the merged status and updates by id
  (`orders/order-ingestion.service.ts:170`); a cancellation committed in between is overwritten.
- *An Uber order can be paid without Uber.* `PATCH pos/orders/:id/status`
  (`pos/pos-orders.controller.ts:307`) leads to `updateStatus` (`orders/orders.service.ts:927`),
  which looks at the status alone: staff may set a pending Uber order to paid, and `advance` then
  prints its ticket although Uber was never told that it is accepted. The durable path does not
  start such an order.
- *A cancellation asks nobody.* The state machine says "No caller may assign an arbitrary
  status" (`uber-order.state-machine.ts:34`); `persistCancellation`
  (`uber-order-import-prisma.adapter.ts:352`) writes `refunded` from any status, a ready order
  included, from which the machine allows no cancellation.
- *A scheduled order may be taken for an immediate one* if two handlers of one order run on a stale
  read; the inbox, which hands out the events of one order one at a time, excludes it.
- *A restart forgets a sent ticket.* The test at `pos/pos.gateway.spec.ts:108` says that unfinished
  targets are sent again after `joinStore`; a `DELIVERED` target is passed over
  (`pos/pos.gateway.ts:154`), and the timer that would have made it `FAILED` died with the process.
- *A used-up job is taken for a legacy one.* A slow write of an offline lookup (line 242) lands after
  real sends reached the limit, and the next dispatch resets the attempts. The comment (line 208)
  says such jobs "were never delivered".
- *Processing is not transient.* If the process dies while a charge is in flight, `inFlight` stays
  true and every reconciliation skips the intent (`clover/clover-pay.controller.ts:458`); the charge
  may be captured and no order will follow. `createInternal` (line 2270) calls processing "a
  transient processing state".
- *Reconciliation may never come to an intent.* The timer takes the ten oldest unresolved intents
  (`checkout-intents.service.ts:247`). Those that stay in processing for good (in flight at a crash,
  a charge under another identifier, `clover-pay.controller.ts:486-514`, one that has run out) keep
  their places, and ten of them starve every later intent whose customer's page is closed. After
  two weeks retention deletes them, the captured charge notwithstanding, and completed intents too,
  because it spares the status `succeeded`, which nothing sets (`data-retention.service.ts:126`).
- *A closed month can lose an entry.* `assertEditableForPeriod` is to keep closed months as they
  are, but `deleteTx` (`accounting/accounting.service.ts:488-505`) checks the period of the entry it
  has read and then writes without a condition: an update asked for before the close may move the
  entry into the closed month in between, and the delete, asked for after the close, takes it out.
- *An item off for good comes back.* "isAvailable=false => 永久下架" says the option panel
  (`OptionTemplatesPanel.tsx:37`). The edit form of an item clears no pause
  (`admin/menu/admin-menu.service.ts:529-560`): an item unticked there while it is paused for the
  day is suspended at Uber until the pause ends.
- *A failed publication cannot be repeated.* The idempotency key of a version is unique
  (`schema.prisma:1533-1561`): the same payload is answered as a duplicate even after FAILED, or
  when another menu has gone live in between.

Seen while modelling, without a document that says otherwise:

- Payments: a reconciler that reads between `claimProcessing` and the write of the new attempt sees
  the declined charge of the old one and fails an intent that is being charged; a charge whose answer
  is lost is retried under a new key and may be captured twice; an intent that runs out between
  charge and order is retried every five seconds for ever. With two payers and lost answers a
  stale metadata write of one overwrites the other's.
- Loyalty: an account read by an upsert before `FOR UPDATE` may be stale, so that updates are lost
  (`lost`); a settlement that comes after the refund gives points that stay (the comment at
  `loyalty.service.ts:730` knows of it); `order.paid` announced again counts the spend twice and
  sends a second courier; redeeming points and paying by balance on one order always fails on the
  unique key; a refund of a settled order takes off the counter's discount and automatic promotions,
  which settling never added (`loyalty.service.ts:745-750` against `orders.service.ts:1195-1199` and
  `2753-2760`), so that the lifetime spend falls below what was earned; an amendment starts from the
  subtotal less points (`orders.service.ts:3685-3688`), which is not what settling added when there
  was a coupon or a discount, though the comment says it is (`loyalty.service.ts:1566`); a lost in-memory event is not made up for; if the delivery event cannot be written
  after the idempotency row (`aws-sns.webhook.service.ts:245`), the redelivery is skipped.
- Inbox: `createdAt` is taken before the insert is committed, so an event whose insert is slow may
  become visible when a later one of its order is being handled, and is handled after it.
- Menu: the draft, the price book and imports write the availability of a channel row without
  telling Uber (`uber-menu-draft-mutation-prisma.adapter.ts:65-67,194-196`,
  `uber-menu-config-write-prisma.adapter.ts:49-51,118-120`): switched off by a switch, on in the draft,
  published and off again in the draft, an item stays on sale at Uber until the next publication, without a
  ticket; a notification is matched by `versionStableId` too
  (`uber-menu-notification-prisma.repository.ts:18-20`), which is never sent to Uber, so that only rows
  with a stored answer are found; a switch and a publication that cross leave Uber stale; a pause for the day becomes a
  lasting one in an upload; a lost answer leaves a version FAILED that is live; a failed suspension
  of an option leaves no ticket; tickets of switches carry the type of publications, which is why
  `RetryUberOpsTicket` always refuses them; restoring an option writes the source price as an
  override.
- Promotions: ties between units of one price are broken by random keys, so a paid order may be
  refused as "Price mismatch"; a rule that changes or runs out between quote and order refuses it by
  design; a percentage that rounds to nothing still keeps coupons away.
- Coupons: triggers check limits outside a transaction, against a count loaded once, and the sign-up
  trigger has two callers, so total and per-user limits can be exceeded; one program or user that
  throws ends the nightly job, and a missed midnight is not made up for; a push checks no limit.
- Accounting: the edit form sends no key, so an edited entry loses it and its order is accrued again;
  daily and per-order accruals do not know of each other; the key of a daily entry is the date as
  it was sent (`accounting.service.ts:1104`), which any spelling of the day passes
  (`accounting.controller.ts:160-175`), so that one day under two spellings is booked twice; daily accrual passes over orders paid
  later; a deleted entry keeps its key and is never accrued again; `deleteTx` checks no version; the
  audit is written after the change and is lost in a crash.

## 7. What is not shown

Not modelled: tax, delivery fees and the items of amendments; merchant provisioning, OAuth and the
reconciliation of a published menu (`RetrieveAndReconcile`); categories, groups, images and hours of
the menu; authentication and phone verification; messages and their receipts except the
announcement of a paid order; CSV import, categories, accounts and reports of the books; CRUD of
configuration; the front end except the form whose payload decides what an edit clears. Rendering
and printer drivers are hardware I/O. `PROJECT.json` gives the reason for each. The front end is
about half of the repository: its pages hold no state that two actors share, and what they may ask
of the API is open in the models.

Inside the modelled components: database calls are atomic and serialised per statement
(Postgres row locks; the two-statement races are modelled as two steps); the bound on calls in
progress is a constant of each module; clocks appear as steps that may happen at any time, so
results hold for every choice of timeouts but say nothing about durations. Two updates of one entry
within a millisecond share `updatedAt`, which the model of the books takes for a version. Uber's
and Clover's behaviour is external and as weak as the code's use of it allows: Uber may act and not
answer, Clover repeats its answer for a repeated key.
