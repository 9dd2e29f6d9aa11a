# TLA+ specifications of shopanda

Shopanda is a shop written in Go over Postgres: a monolith of HTTP handlers,
background workers and cron tasks that share one database, with an optional
Redis and an external payment provider.  Its hard parts are not computations
but protocols.  A checkout is a workflow of a dozen independent commits with
compensation; payments are settled by webhooks that come late, repeatedly and
out of order; returns, bindings and download grants of one sale are ended by
each other under advisory locks; an edit of a product travels through a
debounce, a job, a search engine and a page cache that visitors fill meanwhile;
a login merges a cart that another tab still edits.  This directory models
those protocols, checks them with TLC, and proves the central invariants with
TLAPS.

## Contents

| Module | What it is | Code it stands for |
| --- | --- | --- |
| `Inventory` | stock and reservation rows, the sweep, bulk stock writes | `postgres/reservation_repo.go`, `stock_repo.go`, `application/inventory` |
| `InventoryProofs` | theorems about it, and about `JobQueue` | |
| `StoreCreditLedger` | abstract ledger: entries posted one at a time, a key once | `domain/storecredit/repository.go` (the contract) |
| `StoreCredit` | the statements of `applyEntry`, and the refinement | `postgres/store_credit_repo.go`, `application/storecredit` |
| `StoreCreditProofs` | theorems about it, the refinement included | |
| `SumTheorems` | induction over finite sets, sums over them; cited by the proof modules | |
| `Checkout` | attempts, orders, payments, webhooks, administrators | `application/checkout`, `stripe_webhook.go`, `payment_repo.go`, `order_repo.go` |
| `CheckoutProofs` | theorems about it | |
| `JobQueue` | the jobs table and its workers | `postgres/job_queue.go`, `domain/jobs/worker.go` |
| `UnitRows` | rows, unit locks and calls shared by the next three | `postgres/product_assignment_repo.go`, `return_repo.go`, `download_grant_repo.go` |
| `Assignments` | binding tickets to cards | `application/assignment` |
| `Downloads` | download grants: issue, delivery, revoke, re-issue | `application/download`, `storefront/download_account.go` |
| `ReturnLifecycle` | abstract: the life of a return, and its units | the status rules of `domain/returns` |
| `Returns` | returns, composed with the two above and the refunds | `application/returns`, `admin/refund_admin.go`, `stripepay/provider.go` |
| `ReturnsProofs` | theorems about it, the refinement included | |
| `EventBus` | publishers, asynchronous handlers, drain | `platform/event/bus.go` |
| `RedisQueue` | the queue in Redis, command by command | `redis/job_queue.go` |
| `Dispatch` | shipments, e-mails and webhooks over the two above | `application/shipping`, `notification`, `webhook`, `postgres/notification_dedupe_repo.go` |
| `DispatchProofs` | theorems about it | |
| `SearchIndex` | reindex of products: debounce, run, job, handler, sweep | `application/search` |
| `CategoryIndex` | category documents and the local category tree | `application/search/invalidation.go`, `localcache/store.go` |
| `PageCache` | full-page cache: coalescer, tags, purges | `application/cache`, `storefront/full_page_cache.go`, `postgres/cache_store.go` |
| `Catalogue` | the three above together: what follows an edit | `application/cache/fpc_invalidation.go` |
| `CatalogueProofs` | theorems about it | |
| `Carts` | edits of carts, the claim of a guest cart, the recovery mail | `application/cart`, `postgres/cart_repo.go` |
| `CartsProofs` | theorems about it | |
| `MC*` | instances for TLC, one per specification | |

`PROJECT.json` maps every definition to the source lines it translates, and
lists the runs, the mutants, the hazards and the theorems.  Run a check with
`tlc -workers 2 -config Checkout_safety.cfg MCCheckout`, a proof with
`tlapm InventoryProofs.tla`.

## Inventory of the system

### Modelled

**Stock and reservations** (`internal/infrastructure/postgres/reservation_repo.go`,
`stock_repo.go`).  State: a `stock` row per variant, a `reservations` row per
hold with a status and an expiry.  Operations: `Reserve`, `Release`, `Confirm`
(one transaction over two rows), `SetStock`, `SetStocks` (bulk), and
`ReleaseExpiredBefore`, a sweep in batches with `FOR UPDATE SKIP LOCKED`.
Hard: sweeps that overlap each other and checkouts; a batch that fails after
some of its stock updates; lock cycles between sweeps and bulk writes, whose
order is that of a Go map.  Correct when no unit is lost or appears twice, a
settled reservation is final, and an expired one is eventually settled.

**Store credit** (`store_credit_repo.go`).  State: an account row per customer
and currency, an append-only ledger with idempotency keys.  Operations:
`Issue`, `Restore`, `Redeem`, all through `applyEntry`.  Hard: a lost update of
the balance; a repeated call racing the first; the unique index and the account
row as two places to wait; numeric bounds.  Correct when the balance is the sum
of the ledger, a key posts once, and answers agree with the ledger.

**Checkout** (`internal/application/checkout`).  State: what the request's
context remembers, and rows in five tables, with no transaction around them.
Operations: `StartCheckout` and its steps, compensation of an unpaid order, the
event subscribers.  Calls inventory, store credit, orders, payments and the
provider; publishes `order.paid`, `checkout.unpaid_failed`.  Hard: any call may
fail or the process may end between any two; three compensations of one order
may run at once; the decision to compensate is taken from what is known of a
charge.  Correct when credit comes back once, a refused attempt leaves nothing
behind, and no order fails under an accepted charge.

**Payments** (`stripe_webhook.go`, `payment_repo.go`).  State: a payment row
with an optimistic version (`updated_at`), the provider's intent.  Operations:
`Initiate`, the three webhook events.  Hard: delivery at least once and in any
order, two deliveries at a time, a delivery cut short after its first write, a
second card after a declined one.  Correct when payments only move forward and
a decline or refund takes effect in the end.

**Orders** (`order_repo.go`, `status_service.go`).  `Save`, `FailIfPending`
(conditional), `UpdateStatus` (unconditional, after a read).

**Jobs** (`job_queue.go`, `worker.go`).  State: a row per job.  Operations:
`Enqueue`, `Dequeue` (select with `SKIP LOCKED`, update, commit), the handler,
`Complete`, `Fail` (two statements), administrator `Retry` and `Cancel`.  Hard:
competing workers, lost outcomes, dead workers, retry counting.  Correct when a
job is in one worker's hands, success is final, attempts are bounded, and every
job ends.

**Returns** (`application/returns`).  State: return rows with items and a
status.  Operations: request, approve, reject, cancel, receive (restock),
refund.  Hard: each reads outside its transaction and checks again under unit
locks; approval also revokes the assignments and grants of the lines.  Correct
when a returned unit is bound to nothing, a return follows its life cycle and
restocks once.

**Assignments** (`application/assignment`).  State: a row per bound ticket.
Operations: purchase, assign by the customer or an operator, revoke.  Hard:
binds and returns lock the same units and must do so in one order.

**Downloads** (`application/download`).  State: a grant per file line with a
counter.  Operations: issue on `order.paid` and after a closed return, deliver,
revoke, expire, re-issue.  Hard: the issuer looks for blocking returns outside
the locks; parallel deliveries compete for the last slot.

**Refunds** (`returns/service.go`, `admin/refund_admin.go`, `stripepay`).  The
refund of a return and an administrator's refund of the whole payment reach one
provider under idempotency keys; `charge.refunded` comes back for each.

**Event bus** (`platform/event/bus.go`).  State: admitted handlers, the drain.
Hard: publish against shutdown.

**Redis queue** (`redis/job_queue.go`).  State: records, ready and processing
lists, delayed set.  Hard: an operation is several commands.

**Order e-mails, webhooks, shipments** (`application/notification`, `webhook`,
`shipping`).  State: dedupe claims with a lease, endpoints, a shipment row.
Hard: claim, enqueue and completion are separate writes; a publication whose
handler dies has to be healed by the next request.  Correct when a subject gets
its mail, and one.

**Search index** (`application/search`).  State: debounce windows, run rows,
jobs, documents.  Operations: events, trigger, the handler, the reconcile sweep,
the manual verdict.  Hard: an edit inside the window, a verdict that cannot be
written, restarts.  Correct when the index ends up with the rows as they are
and every run gets a verdict.

**Page cache and category tree** (`application/cache`, `localcache`).  State:
pages with tags, in-flight renders, a tree per instance with a generation.
Hard: pages rendered from what a purge has not seen, coalesced visitors behind
a renderer that hangs, invalidation during a load.

**Carts** (`application/cart`).  State: a cart row with lines and a version,
custom values per line in another table, the marker of a merged guest cart, the
mark of a sent recovery mail.  Operations: edits, coupons, `ClaimGuestCart`
(assign or merge), the recovery job.  Hard: a claim is five to eight commits and
is repeated after a failure at any of them, while the carts are edited.  Correct
when units and values are neither lost nor doubled, and a mail is sent once.

### Not modelled, with a protocol worth a model

| Component | State and operations | What is hard |
| --- | --- | --- |
| scheduler (`infrastructure/cron`) | entries, running tasks | manual trigger and tick against `Stop` |
| integration idempotency | claims with a five-minute takeover | two takeovers, a slow first request |
| lockout, rate limiter, circuit breaker | counters with windows | subtraction of what was read; separate atomics |
| order claims | orders linked to a new customer | a lost answer of the link |
| invoices, installation | | see `PROJECT.json` |

### Left out on purpose

Pricing, tax, promotion rules, catalog validation, import and export, theme and
page composition: computations over data that the properties here do not tell
apart.  HTTP parsing, mail transport, file storage, PDF, metrics, tracing, the
CLI: I/O.  The broker adapters (RabbitMQ, Kafka, SQS) forward to systems
outside the repository.  `PROJECT.json` lists each with its reason.

## How the parts interact

```
 request --> Checkout --Reserve/Release--> Inventory <--sweep-- cron --> JobQueue
    |           |  \--Redeem/Restore----> StoreCredit                      |
    |           |--Save/FailIfPending---> orders <--UpdateStatus-- admin   v
    v           |--Create/UpdateStatus--> payments <-- Stripe webhooks   workers
  Carts         \--Initiate-------------> provider ------^      ^
                                                        |      | refunds
 order.paid --> Downloads --\                            \--- Returns
 purchase ----> Assignments --> UnitRows (unit locks) <-----/
 shipments, order.paid --> EventBus --> mail, webhooks --> RedisQueue --> workers
 edit of a product --> SearchIndex --indexed--> PageCache <--look up, store-- visitors
 edit of a category --> CategoryIndex
```

`Checkout` takes `Reserve`, `Release`, `Redeem` and `Restore` as single steps
on counters of its own.  `Inventory` and `StoreCredit` justify that: they open
the same calls statement by statement, and show that what is visible to others
changes in one step, by the amount asked for, or not at all (`StockConserved`,
`ImplementsLedger`).  The sweep is a step `Sweep` in `Checkout` and a process in
`Inventory`; that it runs again and again is what `JobQueue` and cron give.
`Returns` extends `Assignments` and `Downloads` over the rows of `UnitRows`;
`Dispatch` extends `EventBus` and `RedisQueue`; `Catalogue` extends
`SearchIndex`, `PageCache` and `CategoryIndex`, with the calls between them as
joint steps.

## How the modules correspond to the code

### Inventory

Transactions of one statement, or of one reservation and its stock row, are
atomic actions that wait for the row locks they need.  The sweep and the bulk
write hold several locks, so they are processes: `SweepStart` (the cutoff),
`SweepSelect` (`SELECT ... ORDER BY expires_at LIMIT n FOR UPDATE SKIP LOCKED`,
with every order the ties allow), `SweepRestore` per row, `SweepCommit`;
`SyncBegin` with every iteration order of the map, `SyncWrite`, `SyncCommit`.
The sweep's case of a variant without a stock row (`reservation_repo.go:380`) is
left out: a reservation took its units from such a row, both tables lose rows
only with their variant (`ON DELETE CASCADE`), and no statement deletes one.
What they write is in `tx` until the commit.  `rowLock` is the database's row
lock; `DeadlockVictim` is its deadlock detector, `TxFails` any other end of a
transaction.  `supplied` is a history variable: what was brought in, net of
what absolute writes changed.  The price is that a bulk write is charged with
the difference it makes, so the model does not blame `SetStock` for
overwriting; whether an absolute quantity typed by a person should have been a
difference is not a question of this code.

### StoreCredit

A call carries its request; `CheckKey`, `LockAccount`, `Apply`, `InsertRow`,
`Commit`, `ReadWinner` are the statements of `applyEntry` in their order.  An
insert waits for an uncommitted insert of the same key, and fails once one is
committed.  `Fail` at `Commit` leaves open whether the database has applied the
transaction (`Post`): `applyEntry` returns an error either way.  `MaxBalance`
stands for the largest `int64`.  The refinement maps
the abstract ledger to the committed rows (`Abstract == INSTANCE
StoreCreditLedger`).

### Checkout

An attempt's `pc` is its place in the workflow; `attempt` is what the context
holds (`Meta["payment"]` is `answer`).  Everything else is a row.  Each call
that touches a row is a step and may fail (`Fault`); `Crash` ends the process.
Which of the code's calls run on the request's context and which on a detached
one shows in what a fault leaves undone: rollback and release continue after
the request is gone, a cancellation between two steps leaves the holds to the
sweep, and a failure of `create_order` after its save keeps the holds
(`releaseReservations` returns once `created_order_id` is set) while the order is
compensated.  The provider and its customer are external (`Decline`, `Capture`,
`Refund`, delivery in any order, redelivery of what was acknowledged too).
Webhook handlers read, write conditionally on the version read, then compensate.

`RedeemNeedsOrder` says whether the ledger's `order_id` references `orders`.
TRUE is the schema of `migrations/`.  With it no attempt that applies credit gets past
`Redeem` (see the observations), so the compensation of redeemed credit would be
dead code.  The runs that check compensation set it to FALSE, the
`storecredit.Repository` contract without the foreign key: that is the program
the compensation was written for, and the one that a fix of the order of the two
calls would give.

`Checkout_safety` has no administrators: an administrator may overwrite a failed
order (see the observations), after which credit given back belongs to an order
that lives.  `Checkout_payments` has one.

### JobQueue

`Select` and `Claim` are the two statements of `Dequeue`, with the row locked in
between; `FailForGood` and `Requeue` those of `Fail`.  `due` stands for `run_at
<= NOW()`.  `Abandon` is a statement that fails, whose error the worker only
logs, or a process that ends; a claim may be rolled back, or committed with its
answer lost.

### UnitRows, Assignments, Downloads, Returns

A unit is a line of an order: a card, a ticket bound to a card, or a file.
`call[w]` is a request in progress: what it read outside its transaction, the
locks it still wants (`NextLocks`, in the order of `LockAssignmentUnits`), those
it has.  Each operation has an action that reads and decides, waits for its
locks one by one, then an action that checks again, writes and commits.  A
revocation of grants is two steps (`RevokeGrant` reads, `RevokeWrite` is
`Service.revoke`'s unconditional `Update`), by an operator or for each grant of a
return inside its transaction: the update writes back the limit and the expiry
it has read, over an extension in between, and leaves the count alone
(`Ended`).  The table's `CHECK (download_count <= download_limit)` (`WithinLimits`)
refuses it where deliveries have overtaken the old limit.  `Expire` is the clock
passing `expires_at`, which no statement records.  The
refund commits its status first and calls the provider after; the provider is
external and answers a repeated key without paying.  `ReturnLifecycle` is the
abstract life of returns; `Lifecycle == INSTANCE ReturnLifecycle WITH ...` maps
the rows to it and `ReturnsFollowLifecycle` is its specification.

### EventBus, RedisQueue, Dispatch

`Admit` is `wg.Add` under the read lock; a handler is a slot with its own steps;
`BeginShutdown`, `Drained` and the cancellation of the base context follow
`runtime/shutdown.go`.  In `RedisQueue` each Redis command is a step, and a fault
is a command that fails, or is applied and not answered, or the end of the
process.  `Dispatch` adds the shipment row with its conditional UPDATE, the
claim with its lease (`GoStale` is the end of the lease), and the worker's two
job types.  `RetryShip` is the merchant's repeated `MarkShipped`, which
republishes.

### SearchIndex, PageCache, CategoryIndex, Catalogue

A document is the version of the rows it was computed from, a page the versions
of the documents it shows; so "stale" is a comparison.  A look-up may go on as a
miss although a live page is there: the read failed, or the page cannot be
served (unsafe HTML, a nonce that could not be made).  The statement that
stores a page and the one that purges a tag take two steps each with the row
locks between them.  Purges come from events and, after a reindex, from the
handler; `StalePageIsExplained` lists what may have kept a stale page alive.
`CategoryIndex` has the advisory lock of the category handlers and the
generation of the local cache.

### Carts

`call[w]` carries the copies a request has read.  `Save` compares versions where
there is a row and inserts where there is none.  A claim is `ReadGuest`,
`FindOwn` (any active cart of the customer, since `LIMIT 1` has no order and no
unique index forbids two), `DeleteEmpty`, `CheckLines` (which lines are dropped
is free), `CopyValues` (any part of the copies, if one fails), `Assign` or
`Merge`, then `TidyAssigned`, or `RereadGuest`, `PurgeValues`, `DeleteMerged`.
Every `Save` may be applied and not answered.  `want` and `given` record what
customers were promised; `mishap` records the crossings that break the promise
(see the observations), so that the properties say what holds outside them.

## What is checked

Every property of a passing run is paired in `PROJECT.json` with a mutant, a
change of one definition in the way a plausible bug would make it (a dropped
status check, no `SKIP LOCKED`, locks in any order, a restore without a key),
and TLC finds the property violated by it.

| Run | Shows |
| --- | --- |
| `inventory` | `StockConserved`, `SweepsPartition`, `SettledIsFinal`, `ExpiredIsSettled`: two sweeps, one bulk write, two reservations, two variants, a fault |
| `storecredit` | `BalanceIsLedgerSum`, `AnswersAgreeWithLedger`, `NobodyWaitsInVain`, `ImplementsLedger`: three calls, two currencies, one key, two notes, two faults |
| `checkout_safety` | `CreditComesBackOnce`, `RefusedLeavesNothing`, `CompletedIsNotFailed`, `CheckoutKeepsAcceptedCharge`: two attempts, two faults |
| `checkout_payments` | `PaymentMovesForward`, `DeclineIsCompensated`, `RefundIsRecorded`: two webhook requests at once, three faults |
| `jobqueue_outcomes` | `OneRunAtATime`, `SuccessIsFinal`, `AttemptsBounded`, `EveryJobEnds`: two workers, three jobs, two faults |
| `returns_safety` | `ReturnedUnitsAreUnbound`, `DeliveriesWithinLimit`, `ReturnsFollowLifecycle` (refinement): two calls at a time, two returns |
| `returns_progress` | `RefundedPaymentIsPaidBack`, `EveryCallEnds` (no circle of unit locks), `PaidFileGetsGrant`: one return, a fault |
| `dispatch` | `OneMailPerSubject`, `TriesBounded`, `NothingRunsAfterDrain`, `ShipmentMovesForward`, `ShippedMailIsSent`: a fault anywhere |
| `catalogue` | `IndexConverges`, `EveryRunGetsVerdict`, `EveryRequestIsServed`, `StalePageIsExplained`, `CategoryIndexSettles`, `TreeIsNotStale` |
| `carts` | `UnitsConserved`, `ValuesFollowLine`, `OneRecoveryMail`: two requests at a time, two claims, two faults |
| `checkout_second_card`, `returns_refund` | a statement of the documentation or of a comment that the code does not keep (below) |

Each specification has a type invariant, which is proved.

### Bounds

* Inventory: two reservations of two variants are what a lock cycle of two
  sweeps, or of a sweep and a bulk write, needs, and let a sweep have a full
  batch of two while the other has none.  The clock stops at 2 with a TTL of 1:
  `exp < cutoff` is then both true and false of rows of different age.
* Store credit: three calls are two in a race and one that replays after it;
  two currencies are two account rows; a largest balance of 2 with amounts 1 and
  2 makes both overflow and insufficiency happen; one saved and one unsaved
  order decide the foreign key.  Two faults let the first call and its repetition
  both lose the answer of their commit.
* Checkout: two attempts share a variant with one unit and a balance of 2, so
  that the loser has one line reserved when the second runs out, and credit is
  redeemed in part, in full and not at all.  Two faults are a failure and a
  failure of its compensation.  One payment suffices for the races of webhooks,
  since no step of a payment reads another's; two handlers are two deliveries in
  flight; three faults cut two deliveries of one decline short and fail a step
  of the attempt.
* Jobs: two workers and three jobs let a claim compete, a requeued job be
  overtaken and a dead worker's job lie beside live ones; two attempts have a
  first, a requeue and a last.
* Returns: the three baskets are a card with its ticket in one order, a card
  whose ticket is bought later in another, and a file.  Two calls at a time and
  two returns give every pair of operations a race; one return suffices with
  faults.  A limit of 2 and one re-issue make two deliveries compete for the last
  slot.  An extension within a revocation takes that one re-issue; the table's
  refusal of the old limit would take a second and is reached in the proofs only.
* Dispatch: the three setups are two requests that move one shipment, one
  shipment reported again and again to two workers, and a payment published to
  two endpoints; one fault anywhere, two tries per job.
* Catalogue: reindexing alone (a burst of two edits with a restart; three
  failures, which use up the attempts of a job and its verdict; a component of a
  bundle; a full scan), visitors alone (two on one page, a renderer that hangs,
  expiry), an edit with two visitors, and with one visitor and failures, and
  categories alone (two edits, two instances, a reader).  Products and
  categories meet only at the bus, so their product adds states and no case.
* Carts: the eight setups are a merge into a cart with a common line while a line
  is removed, or described anew; no cart of the customer's; an empty one or a
  full one in another currency; recovery jobs; and two visitors who turn out to
  be the same customer, with a cart and without.  Two claims are a retry or two
  logins at once, and three a second visitor between a claim and its retry; two
  faults fail a claim and its retry.
* `MaxNow`, `MaxWrites`, `MaxFaults`, `MaxQueueFaults`, `MaxReopens`, `MaxRuns`,
  `MaxPaidEvents`, `MaxReissues`, `MaxRows`, `asked` bound counters only; each is
  named in its module.

`CHECK_DEADLOCK FALSE` everywhere: attempts, calls and jobs end, clocks and
fault budgets run out, so the models stop legitimately.  That nothing is stuck
before its end is what the liveness properties say.

### Fairness

* `Inventory`: the sweep is started again and again (cron every 15 minutes,
  `platform/runtime/reservation_expiry.go`), hence weak fairness of
  `SweepStart`.  A transaction that can proceed does.  Waiting for a row lock
  has strong fairness: Postgres queues lock requests in order, so a waiter is
  not overtaken for ever.  The deadlock detector acts.  `TxFails` has no
  fairness and is bounded.
* `Checkout`: weak fairness of the steps of attempts and of webhook requests
  (not of `Crash`, the customer, the provider's dashboard, administrators or
  the sweep).  Strong fairness of the receipt of an event that has not been
  acknowledged: the provider redelivers until it gets a 200, which the handlers
  rely on when they answer 500.
* `JobQueue`: weak fairness of the worker's loop (it polls for ever; that
  handlers return is an assumption on them, since the worker gives them no
  deadline) and of the end of a backoff.  Nothing is assumed of administrators.
* `Returns`: strong fairness of the steps of a call, for the same lock queues
  (advisory locks are queued too), and weak fairness of the handling of
  `order.paid`.  Nothing is assumed of customers and operators.
* `Dispatch`: weak fairness of handlers, requests and workers, of the end of a
  claim's lease, and of the shutdown's deadline; strong fairness of `RetryShip`:
  `ShippedMailIsSent` is the promise that a merchant who keeps reporting the
  shipment gets the mail out, and needs one who does.
* `Catalogue`: one weak fairness of `Progress`: some step of the handlers, timers, worker, purges and
  requests is taken while one is possible.  Every behaviour of the instance is
  finite but for these, so it is all that is needed; the renderers in `Hanging`
  are left out, which is how a renderer hangs.
* `StoreCredit`, `Carts`: safety only.

## What is proved

For every value of the constants that satisfies the named ASSUMEs: any number of
variants, reservations, sweeps, attempts, cards, callers, workers and faults.
Every safety invariant and every action property that a passing run checks is a
theorem, `NobodyWaitsInVain` excepted.  The assumptions
name sizes (quantities are positive, limits are at least one), say that sets the
database keeps (variants, units, jobs, cart ids, products) are finite, and that
different kinds of things are different.  Each module has one lemma per action and
invariant; below is what the invariants add to the properties, and why.

* `InventoryProofs`: `TypeOK`, `SweepsPartition`, `SettledIsFinal`,
  `StockConserved`.  `IInv` adds that a row that exists names a variant.
  `SweepsPartition` is inductive because it says where the units of a selected
  row are: its stock row is locked by the sweep, or the statement that will add
  them is still in `todo`.  Finality follows: the only actions that touch a
  reservation need it active, and a batch holds active rows only.  For
  conservation `CInv` adds `SweepsAccount`: what a sweep has still to put back is
  the sum over the rows of its batch it has not reached.
  The last part of the module is about `JobQueue`, the other table that is shared
  out with `SKIP LOCKED`: `QueueTypeOK`, `OneRunAtATime`, `SuccessIsFinal`,
  `AttemptsBounded`.  `QueueInv` adds that a pending row has attempts left
  (`ClaimableHasAttempts`), which is why `Claim` need not check.
* `StoreCreditProofs`: `TypeOK`, `AnswersAgreeWithLedger`, `BalanceIsLedgerSum`
  and the refinement `ImplementsLedger`.  Who works on an account holds its lock
  (`LocksHeld`), what it has read is the committed balance (`ReadsHold`), who is
  past the insert has the key to itself (`KeysHold`), each row belongs to a call
  that was answered "ok" or whose answer was lost (`RowsAnswered`), and no more
  answers are lost than faults happened (`FewLost`).  The refinement needs all of them: a
  commit posts an entry whose key is new and moves the balance by its amount.
  `SInv` adds that the ledger is finite, so that it has a sum.
* `SumTheorems`: the library's induction over finite sets takes an operator as a
  parameter, which the provers cannot instantiate.  `SetInduction` states it for
  a set of sets instead, and proves it from a smallest counterexample; from it
  follow the recursion of `SumFunctionOnSet` and what a sum does when a summand
  changes.
* `CheckoutProofs`: `TypeOK`, `PaymentMovesForward`, `CheckoutKeepsAcceptedCharge`,
  `RestoredWithinRedeemed`, `CreditComesBackOnce`, `CompletedIsNotFailed`,
  `RefusedLeavesNothing`.  `PInv` ties the progress of an attempt to its order,
  its payments row, the answer of the provider and the events on their way, and a
  webhook request to the version it has read.  `KInv` adds where redeemed credit
  is (`CreditFollows`: each restoration has used its key), `FInv` why an order is
  failed (`FailuresFollow`), `HInv` which holds an attempt has
  (`HoldsFollow`, `NoRollback`).  `CreditComesBackOnce` and
  `CompletedIsNotFailed` are stated for `Admins = {}`, as the run
  `checkout_safety` checks them: `UpdateStatus` writes over a status that was read
  earlier (`order_repo.go:443`), which turns a failed order into a confirmed one.
  `RestoredWithinRedeemed`, the part about money, holds with administrators.
  Two more are stated beside the runs, for the goods.  `UnitsAccounted`: a unit of
  a variant is in stock or held by one attempt, whatever fails or is swept
  (`BooksInv` counts the holders).  `OrderedUnderHold`: an order is saved while its
  attempt holds a unit of every variant; `HoldsInv` follows the holds from the last
  `Reserve` to the answer of the provider, and says that what is about to be
  released is still held.  It rests on the sweep leaving attempts alone that are
  not over, that is, on a reservation outliving the request.
* `ReturnsProofs`, for `Returns` composed with `Assignments` and `Downloads`:
  `TypeOK`, `DeliveriesWithinLimit`, `RefundedPaymentIsPaidBack`,
  `ReturnedUnitsAreUnbound`, and the refinement `ReturnsFollowLifecycle`.
  `GrantBooks`: a grant has delivered at most what was allowed, and while it is
  live its limit and count are what was allowed and delivered; a revoked one may
  carry an older limit.  `MInv` keeps the provider's books: paid back is what the keys it
  has seen amount to.  `LInv`: a call holds every unit lock it has come to, in the
  order of the units.  `VInv`: `restocked_at` is set in the statement that makes a
  return received, under its row lock; hence units come back to stock once.
  `UInv`: what a call has checked under its locks still holds while it has them
  (`Checked`), since whoever could end it needs a lock it holds; hence a card on
  its way back has no ticket bound to it, although each side looks at the
  other's rows only once.
* `DispatchProofs`, for `Dispatch` composed with `EventBus` and `RedisQueue`:
  `TypeOK`, `NothingRunsAfterDrain`, `ShipmentMovesForward`, `TriesBounded`,
  `OneMailPerSubject`.  Each of the actions is first shown to have one of a few
  `Effect`s (a handler ends, a worker takes the oldest job, a claim is
  dropped...), and an invariant is then shown for each effect.  `BInv`: the
  WaitGroup counts the handlers that run, who has seen the bus up holds the read
  lock until its handlers are counted, and nobody reads once the shutdown
  has begun.  `SInv`: a row read at the current version is the current row.
  `OneHand`: a publication is in the hands of one request or handler.
  `OnePlace`: a job is on one list or in one worker's hands, and its record counts
  its tries (`TriesCounted`).  `MailsPaid`: the mails sent, and those that may yet
  be (list entries, delayed jobs, workers about to send, handlers about to
  enqueue, a claim that is free), are at most one more than the faults; a claim is
  what turns two handlers into one mail, and each fault can undo it once.
  `Repeats`: only a try that failed is repeated.
* `CartsProofs`: `TypeOK`, `UnitsConserved`, `ValuesFollowLine`,
  `OneRecoveryMail`.  `XInv`: an id drawn for a new cart is known to nobody else.
  `MInv`: a job about to send has marked the cart, and is the only one.  `RInv`:
  outside the mishaps that lose units, what a request has read is the row if the
  versions agree, and a guest cart that was merged is named by the marker of a
  customer's cart, or gone and in no claim's hands.  From it, the sum of the units over all carts
  (`UInv`) and the place of each custom value (`VInv`).

* `CatalogueProofs`, for `Catalogue` composed with `SearchIndex`, `PageCache` and
  `CategoryIndex`: `TypeOK`, `TreeIsNotStale`, `CategoryIndexSettles`,
  `StalePageIsExplained`, and `IndexSettles`, which no run states by itself: it is
  the state that `IndexConverges` says is reached.
  - `TreeInv`: a load that is about to store a tree in the generation it has seen
    read it after the last request that cleared the instance.  A generation
    counts clearings, which is what makes the comparison in `GetOrLoad` enough.
  - `LockInv` and `DocInv`: one handler holds the advisory lock; the document is
    right or some handler has yet to speak, and one about to write an old version
    is not the last to come.
  - `AllInv`, the ground of what follows: the types; `SearchInv` (runs are numbered
    in order, a run has one job, and is in one task's or one worker's hands;
    what a task is about to enqueue covers what it was asked for);
    `RequestsInv` (a request holds a page only while it stores it); `PurgesInv` (a
    purge at work has a tag left, and one that follows a reindex has its worker
    waiting); `FreshInv` (an event that has not happened has left no trace).
  - `PagesInv`: a live page that is stale and has all its tags awaits a purge, or
    is condemned by one; so does a page a request is about to store, unless a purge
    has overtaken it.  A product page waits for the purge of its event, a
    listing for the run that indexes the product (`ToPurge`), since it shows the
    search engine's documents and not the rows.
  - `DocsInv`: a product whose document is old will be read again by a task, a
    pending job or a worker that starts, or has been read since by the worker that
    is about to write it, or has been given up (`lost`).  It is inductive for one
    worker only, and `IndexIsCurrent` says so in its hypothesis `SingleWorker`: two
    workers may write two readings in the wrong order (see the observations).
    The others hold for any number.

Only model-checked:

* liveness (`ExpiredIsSettled`, `DeclineIsCompensated`, `RefundIsRecorded`,
  `EveryJobEnds`, `EveryCallEnds`, `PaidFileGetsGrant`, `ShippedMailIsSent`,
  `IndexConverges`, `EveryRunGetsVerdict`, `EveryRequestIsServed`), which the proof
  system does not reach;
* `NobodyWaitsInVain`, which is about what is ENABLED.

## Findings

Two statements of the repository that the code does not keep, each a property
that TLC finds violated; `PROJECT.json` quotes the statement.

1. `checkout_second_card`: a charge that succeeds after a declined card is
   acknowledged and not recorded.
2. `returns_refund`: the provider's idempotency key is made of the payment
   reference and the amount, so the refund of a second return of the same amount
   pays nothing back, and succeeds.

## Limits of the models

* In `Checkout`, a call that fails has not taken effect, except for the lost
  answer of the UPDATE that records the provider's.  A Reserve, Redeem or Save
  that commits and answers with a timeout is not modelled: the first leaves a
  hold to the sweep, the second is the loss that the comment above
  `applyStoreCredit` accepts, the third gives the credit back while its order
  lives.  `StoreCredit`, `JobQueue`, `RedisQueue`, `Returns` (provider) and
  `Carts` have lost answers.
* `Checkout` has one unit per cart line and one store credit account.  Bundles,
  which reserve several variants per line, are several lines.
* The generic payment webhook (`payment_webhook.go`) follows the protocol of
  `handlePaymentIntent`.
* Which product may carry which, stock visible to a cart line, and coupon
  eligibility are free choices.
* `HandleProductCreated`, CMS pages and the Redis cache backend are left out of
  `Catalogue`; the creation and discarding of a visitor's cart out of `Carts`.
* Plugins may add checkout steps; none is modelled.
* Events to subscribers that write no table of the models are left out.

## Observations

Disagreements and risks met while reading and checking that have no run of
their own.  Those marked (model) are behaviours of the models.

* (model) Store credit is redeemed before the order is saved, and the ledger
  references the order (`create_order_step.go:920`): with the schema of the
  migrations every checkout that applies credit is refused.
* (model) Nothing takes a cart out of `active`; a second submission makes a
  second order.
* (model) Nothing calls `Confirm`: the holds of a paid order expire and its
  units are sold again.
* (model) A job whose worker died, or whose outcome was not recorded, is not
  redelivered; in Redis, a job whose worker dies between `LREM` and the next
  command is on no list.
* (model) `RequestReturn` sums the quantities already returned before it takes
  the unit locks (`returns/service.go:324`) and not again under them: two
  requests for one line are both accepted.  `PR-503.md:38` says that "return qty
  cannot exceed remaining returnable quantity".
* (model) `Refund` commits "refunded" before it calls the provider
  (`returns/service.go:596-611`).  If the call fails, the next `Refund` finds the
  return refunded and answers success, and the money is not paid back.
* (model) The issuer of grants looks for blocking returns before its inserts and
  outside the unit locks (`issuer.go:293`).  A return requested and approved in
  between revokes the grants it finds, which is none yet, and its line ends with
  a live grant.
* (model) `Service.revoke` writes a limit back that was read without a lock; an
  extension in between loses its limit, its expiry goes as the revocation wants.
* (model) A recovery job marks the cart and then enqueues the mail: one that dies
  in between sends none, and the mark keeps later jobs from sending it.
* The dedupe repository deletes a stale claim in a CTE and inserts in the same
  statement: the insert meets the row being deleted and does nothing, so a stale
  claim takes two tries to take over.  `Delete` of a claim has no condition on
  its holder.
* Shipping checks that the order is not cancelled before it updates the
  shipment: an order cancelled in between is shipped.
* `_ = h.bus.Publish(...)` in the admin handlers ignores the error of a failing
  synchronous handler, after which the asynchronous ones (reindex, purge) do not
  run.
* (model) A page rendered slowly may be stored after the last purge that
  concerned it; a purge may be lost to a deadlock; the full-scan reindex purges
  listings only; visitors coalesced behind a hit may get an entry that was
  just purged.  Its TTL ends each of these, and `StalePageIsExplained`
  excludes exactly them.
* (model) A page may lose its tag row to a concurrent purge or expiry of another
  page (`ON CONFLICT DO NOTHING` on a row about to go), against
  `postgres/cache_store.go:305-308`.
* Two workers may write an older reading of a product after a newer one
  (`invalidation.go:435-439`); other instances' category trees rely on their TTL;
  a dropped connection releases the advisory lock while its handler goes on.
* (model) Two logins with one cookie: the first assigns the guest cart to a
  customer without one, the second, which had read it as a guest's, then finds
  it as the customer's active cart, merges it into itself (quantities double)
  and deletes it as merged (`mishap` "itself").  `PR-1058.md:31` calls
  `ClaimGuestCart` idempotent.
* (model) A claim deletes carts by id alone: an edit of the guest cart that was
  acknowledged meanwhile is lost ("overtaken"), and one that is saved afterwards
  inserts the cart again, with lines the customer already has ("revived").
  Nothing forbids a second active cart, made while a claim assigns one; a retry
  may then merge into the other ("strayed"), where `PR-306.md:64` promises "one
  resulting active cart after handoff".
* (model) `RemoveItem` deletes the custom values of its line before it saves the
  cart, the order that the comment in `assignGuestCart` warns of: if the save is
  refused the line stays without them.  `ValuesFollowLine` leaves that line out:
  `given` drops it when its removal deletes the values, saved or not.
* (model) The marker of a merged guest cart is overwritten by the next merge, or
  goes with the customer's cart, while the guest cart is still there to be
  claimed: it is then merged again ("forgotten").  Custom values written to a
  guest cart after a claim has copied them are lost ("late").
* A merge whose save is refused leaves the guest's custom values on the
  customer's line of the same variant.
* `integration_idempotency_repo.go` takes over a stale claim without looking at
  the rows affected, and a slow first request can complete under the new hash.
* The order claim deletes the customer it has created when the answer of the
  link is lost, although the orders may be linked to it.
* `reservation_repo.go:256-257` says that overlapping sweeps "partition the
  work instead of contending for it".  They share no reservation
  (`SweepsPartition`), but each locks stock rows in the order of its own
  reservations, so two sweeps can wait for each other in a circle
  (`InCycle`); the database aborts one and its next run repeats the batch
  (`ExpiredIsSettled`).
* `RUNBOOK.md:592` says that a leftover hold "stops counting against
  availability immediately".  `Reserve` has taken its units out of
  `stock.quantity`, and they count until a sweep puts them back.
* `InventoryListItem.Available` (`domain/inventory/inventory_list.go:17`)
  subtracts active reservations from a quantity that no longer contains them.
* `StatusService.ApplyStatus` checks a transition on the order it has read and
  `UpdateStatus` (`order_repo.go:443`) overwrites the row unconditionally: an
  order failed in between by compensation becomes confirmed or cancelled.
  `AdminRead` and `AdminWrite` model it.
* A completed payment publishes `order.paid` and leaves the order row alone, on
  purpose (`payment_webhook.go:192`), where `PAYMENT_DOMAIN.md` section 10 has the order become
  paid; `returns/service.go:312` asks for a paid order, so an administrator
  has to move each order before it can be returned.

## Plan

Done, in this order: `Inventory`, `StoreCreditLedger` and `StoreCredit`,
`Checkout`, `JobQueue`; `Returns` with `Assignments`, `Downloads` and
`ReturnLifecycle`; `Dispatch` with `EventBus` and `RedisQueue`; `Catalogue` with
its three parts; `Carts`; and the proofs of all of them.

Modules left: `Scheduler`, `Idempotency`, `Lockout`, `Breaker`, each small and
apart from the rest; they need runs of their own, where the present ones ask
about the parts that hold money, stock and goods.
