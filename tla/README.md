# Formal models of architecture-lab

The repository is a collection of *labs*: the same small shop (users, a catalog,
orders) built once per architectural style, in Rust, as processes that keep their
state in memory (one lab uses SQLite). The labs differ in how the parts talk, and
so in what can go wrong between them. This directory models the coordination
in all eleven labs, checks it with TLC, and proves the main results with TLAPS for
any number of orders, requests, products, retries and faults.

    tlc -config saga.cfg MCSaga          # a run; the table below lists them all
    tlapm SagaProofs.tla                 # a proof

`PROJECT.json` maps every definition to the lines it models, lists every hazard
with the properties that cover it, and names, for each property, a plausible bug
(a *mutant*, an operator next to the one it replaces) that the property catches.

## 1. Inventory

| lab | components and their state | how they interact | what is hard |
|---|---|---|---|
| `saga` | **orders-service**: orders by id (status, buyer, lines, total), a read model of users and prices. **inventory-service**: `stock` and the ledger `reservations`, under two locks. **payments-service**: `wallets` and the ledger `charges`. **notifications-service**: nothing | NATS core publish/subscribe. The orchestrator sends commands, participants reply, one task per subscription | replies lost, repeated, overtaken; compensation; two sagas contending for stock and money; two locks taken in two orders |
| `concurrency` | four services with one API (`seed`, `get`, `reserve`) over a table of rows (units, version): **naive** (read, think, write), **optimistic** (compare-and-swap, retries, `expected_version`), **pessimistic** (row or global mutex), **actor** (one writer, bounded mailbox). **race-runner** sends the load and reckons | HTTP from race-runner; inside a service, locks or a channel | lost updates, ABA on versions, clients that hang up while they hold or wait for a mutex, a full mailbox, order of handling |
| `outbox` | **orders-service**: tables `orders` and `outbox`; a **relay** task. **ledger-service**: the inbox and two sets of books. **audit-runner** compares | SQLite transactions; HTTP POST from the relay (or the handler, in naive mode) to the ledger | a crash between commit and publish, or between publish and mark; a POST that fails after it took effect |
| `choreography` | as saga, without orchestrator: **orders** tracks, **inventory** reacts to orders and declined payments (a tombstone for released orders), **payments** joins two events before charging, **notifications** remembers what it was told | NATS; every service listens to facts of the others | events handled in any order by separate tasks; a join whose other half is late; once-only notification |
| `event-driven` | **users-service**, **catalog-service**: tables. **orders-service**: orders, and its own copy of users and prices. **notifications-service**: nothing | catalog and users announce on NATS; orders-service fills its copy with one task per subject and answers placements from the copy alone | a copy behind or ahead of the table; announcements sent after the lock is free; an announcement nobody hears; u64 sums |
| `cqrs-es` | **orders-command-service**: an event log per order, folded at each command. **orders-query-service**: a map of listed orders, in memory | NATS from the command side to four tasks of the query side; users and catalog as in event-driven | load, append and publish are three steps with no expected version: two commands decide on the same history; a client that hangs up between append and publish; four subjects in any order |
| `fan-out` | **search-gateway**: a registry read at start. **catalog-**, **partner-**, **archive-provider**: an index each | one HTTP call per provider, all at once, each with its own timeout; what came in is merged, ranked and reported | a late answer racing the timeout; one of several branches failing; one product under several names and prices |
| `bff` | **users-**, **catalog-**, **orders-service**: tables. **web-bff**, **mobile-bff**: nothing | HTTP without timeouts or retries; a page joins several calls | a reply lost after it took effect; one call of a page failing; a service restarted between two calls |
| `hexagonal` | one order file (or a map), behind a port; two programs over it, `serve` and `cli` | one mutex inside `serve`; none between the two; readers take none | load, truncation and write are three steps: deaths, disk failures and dropped requests in between, and a write that goes on when its guard is gone; two processes at one file |
| `microservices` | users, catalog and orders of the bff lab, without the front ends | HTTP | as bff |
| `modular-monolith` | the same three as modules of one program | function calls | placements in flight when the process, and all of it, restarts |

The states of an order in saga are Pending, AwaitingPayment, Compensating,
Confirmed and Failed. What makes each component correct:

- *orchestrator*: confirms only what is reserved and paid; fails only what holds
  neither; takes each step once; ends every order and tells its buyer, once;
- *inventory, payments*: conserve units and cents; apply a command at most once;
  answer every command;
- *the three serious stock services*: a reservation takes effect at one instant
  on a row that has the units; rejections and conflicts are honest; waiting ends;
- *choreography*: the saga's contract with no one to enforce it, from the four
  ledgers alone; every order settles; each buyer gets one email, and a true one;
  the tracker's status is a report that should at least catch up;
- *naive-service*: oversells, but never refuses a unit that is there;
- *outbox*: every committed order is heard of, in order; duplicates are paid for
  by a fault and absorbed by the inbox;
- *event-driven*: the copy reaches catalog's price when nothing is on its way any
  more; an order is priced, line by line, at prices catalog announced;
- *cqrs-es*: every event was legal when its command decided; the logs follow the
  life of an order but for stale appends; the view shows only what happened, and
  in the end all of it;
- *fan-out*: the answer depends on who answered in time and not on the order they
  came in; it takes as long as the slowest branch, roughly one budget; what it
  misses is said;
- *bff*, *microservices*, *modular-monolith*: an acknowledged checkout is stored, an
  error has a cause, a page is about the order it says; in the monolith an order's
  user and products are there as long as the order is;
- *hexagonal*: an acknowledged order stays readable, or the file says it is broken;
  two requests of one process do not write over each other.

## 2. Modules

| module | models | state and actions |
|---|---|---|
| `SagaBus` | NATS as the saga services use it | a bag of `<<subject, key>>`; publish, consume, answer; `Redeliver` and `Lose`, each with a budget |
| `SagaOrders` | `orders-service`: `service.rs` place, `saga.rs`, the read model | `Place` and one action per reply handler (`OnReserveSucceeded` ...), each a guarded `Transition` or an ignored message |
| `SagaInventory` | `inventory-service` | `SeedProduct`, `Reserve`, `Release`, each the whole call and its reply; `WaitForEachOther`, the deadlock of finding 3 as one step, after which none of them happens |
| `SagaPayments` | `payments-service` | `OpenWallet`, `Charge` |
| `SagaCarts` | what a vector of order lines is to the services | `CartOf`: largest line and sum per product, total in wrapping u64 |
| `Saga` | the lab | composes the above with notifications-service |
| `SagaContract` | abstract: what a saga promises of an order | stock before money, each at most once, both or neither |
| `InventoryLocks` | `inventory-service/src/repository.rs` lock by lock | three tasks, two write guards; `SagaInventory` takes each call as a step, this module checks what the locks make of it |
| `ChoreographyBus` | NATS as the choreography's services use it | a bag of `<<subject/subscriber, key>>`: a fact goes to each subscriber on its own; publish, consume, react; `Redeliver` |
| `ChoreographyOrders` | `orders-service`: `service.rs` place, `tracker.rs` | `Place` and one action per tracker task, each a guarded `Track` |
| `ChoreographyInventory` | `inventory-service` | `SeedProduct`, `Reserve`, `Release`, with the tombstone `AlreadyReleased` |
| `ChoreographyPayments` | `payments-service` | `JoinPlaced`, `JoinReserved`, and `Charge` as a step of its own in either task |
| `ChoreographyNotifications` | `notifications-service`: `registry.rs` | `RecordPlaced`, and `RecordOutcome` from three subscriptions |
| `Choreography` | the lab | composes the above; refines `SagaContract` |
| `StockTable` | what the four stock services share | rows, requests being handled, answers; `Seed`, `Write`, `Endpoint` |
| `NaiveStock`, `OptimisticStock`, `PessimisticStock`, `ActorStock` | one service each | a request's handler, one action between two awaits or lock operations |
| `Shelf` | abstract: a product's stock | fill; take some, if there are enough, at once |
| `Race` | the concurrency lab | one of the four is the `target` of the same requests |
| `Outbox` | the outbox lab | both write paths, the relay step by step, the ledger |
| `Shop` | what event-driven and bff share | lines, and sums of `Width` bits: a release build wraps, a debug build panics |
| `Announcements` | `users-service`, `catalog-service` of event-driven and the subjects they announce on | `CheckUser`, `InsertUser`, `AnnounceUser`; `InsertProduct`, `ChangePrice` and their announcements, with the refusals |
| `EventDriven` | the lab | the three projecting tasks, `Subscribe` and `StopOrders` (a restart), `Enter`, one `PriceLine` per line, `StoreOrder`, `AnnounceOrder`, the e-mail |
| `CqrsEs` | the lab | `Load`, `AppendDecided`, `PublishAppended` for pay, ship and cancel, four steps for place, hang-ups; the four tasks of the query side and its restart |
| `OrderLifecycle` | abstract: an order under cqrs-es | placed, paid, shipped, or cancelled before it is shipped |
| `SearchGateway` | the fan-out lab | `RegistryOf`; `Scatter`, `Begin` per branch, `Arrive`, `Fail`, `TimeOut`, `Gather` with merge, ranking and reports; `Tick`, which lets a branch be polled up to `Lag` ticks late |
| `OrderPages` | the labs bff, microservices and modular-monolith, as `style` says | placement call by call (`BffPlace`, `MicroservicesPlace`, `MonolithPlace`), checkout through either front end, both pages lookup by lookup, restarts of each service or of the one process |
| `OrderFile` | the hexagonal lab | `LockFile`, `LoadFile`, `TruncateFile`, `WriteFile` of an insert, in `serve` or `cli`; the in-memory repository; deaths, `DiskFails` (of a read, an opening or a write), dropped handlers at any of the `HangUpPoints`; reads |
| `Labs` | the labs from `Outbox` on | `lab` says which of them a behaviour runs: they share no process, so one run answers for all |
| `MC*` | instances for TLC | requests, carts, quantities |
| `Sums` | no code | lemmas about the community modules' sum of a function over a finite set (those about their loops are in `LabsProofs`) |
| `SagaProofs`, `ChoreographyProofs`, `InventoryLocksProofs`, `RaceProofs`, `OutboxProofs`, `CqrsProofs`, `LabsProofs` | TLAPS proofs about the module of that name (`CqrsProofs`: `CqrsEs`) | section 5 |

Conventions. A handler of a task that shares its data with no other task is one
step. Where several tasks share data, steps end where the code releases a lock or
awaits. Waiting (think time, backoff, relay interval) is the gap between two
steps. A reply that is published after a repository call has returned is
published in the same step: coming later, it would be a message that stays in
flight longer, which the bag allows anyway. Messages of one subject keep their
order in NATS; the bag forgets it, which only adds behaviours.

History variables, read by no guard: `emails`; `sold`, `seeded`, `round`,
`accepted` and the answers in the stock services; `answered` in
`InventoryLocks`, where it also says when the orchestrator may ask for a release;
`said`, `unheard` and `hasty` in `Announcements`; `rushed` and `missed` in `CqrsEs`;
`forgotten` and `unanswered` in `OrderPages`; `raced`, `damaged`, `wiped` and
`shown` in `OrderFile`. (`seen` in `CqrsEs` is read by the properties and proofs
only: the code keeps no version. `forgotten` is also read where ids are drawn: a
lost one never returns.)

## 3. Runs

| run | question | result |
|---|---|---|
| `saga` | Two orders of one buyer for 1, 3 or 6 units of a product with 5, a wallet of 20 and a price of 13: any message lost, any but a reservation command delivered again. | passes; 38,475 states, with liveness |
| `saga_reserve_again` | The same with the reservation command delivered again | `FailedHoldsNoStock` is violated |
| `saga_duplicate_lines` | Carts with a product on two lines | `InsufficientStockFails` is violated |
| `inventory_locks` | Three orders, the two tasks and the seeder, commands repeated twice | passes: nobody sees half a reservation |
| `inventory_deadlock` | The same under fair scheduling: is every command answered? | `EveryCommandIsAnswered` is violated |
| `choreography` | Two orders of one buyer, or one and any order message delivered again, at any point: 1 or 3 units out of 5, a wallet for one unit | passes; 110,684 states, with liveness |
| `choreography_view` | One order, nothing repeated, nothing lost: does the status follow? | `TrackerCatchesUp` is violated |
| `race` | Eight requests against each service: three competitors for one product, one naming version 1, reads, seedings, a second product | passes; 154,580 states, with liveness |
| `race_reseed` | A product seeded while a reservation of it thinks | `NoOversell` is violated |
| `labs` | outbox, event-driven, cqrs-es, fan-out, hexagonal and the three of `OrderPages`, with the faults named below: what does each keep, and under which conditions? | passes; 445,193 states, with liveness |
| `checkout_proxy` | Is a checkout through a BFF answered as orders-service answers it? | `CheckoutIsTransparent` is violated |
| `hexagonal_dropped` | `serve` alone, a client hanging up anywhere, in the middle of a write too: does the mutex keep what another request has stored? | `MutexKeepsOrders` is violated |

Bounds and why they suffice.

- *saga*: two orders are the smallest contention; the quantities make each of
  the demo paths of the lab's README occur (confirmed; declined and compensated;
  rejected), and two orders for 3 units compete for the last ones while both
  cannot be paid. One redelivery and one loss reach every single fault at every
  point of both sagas and each pair of a loss and a repetition; the theorems have
  no bound. Cents are in hundreds.
- *choreography*: `MaxLoad` = 2 bounds orders placed plus messages repeated. Two
  orders contend for the wallet and the shelf; one order with a repeated message
  gets every handler to meet an outcome already on record, with all its tasks in
  any order. The contract's theorem has no bound. Lost messages need no action: a
  message never handled is lost, and every invariant allows for it.
- *race*: `MaxRequests` bounds the requests sent per service (7, 5 and 4: the
  more a handler remembers of the queue, the fewer). One retry gives every turn
  of the loop: first, retried, exhausted. A mailbox of 2 can be full with a
  command in the writer's hands. One client hangs up, at any point.
- *labs, outbox*: three orders, in either mode, make a batch with a first, a
  middle and a last row; three faults let the same row fail twice and another
  one once.
- *inventory_locks*: three orders of which two fit together and the third only
  after a release; `MaxRepeats` = 2 lets each task get a repeated command while
  the other is inside its call.
- *labs, event-driven*: two users with one e-mail address (both may pass the check);
  a mug created at 3 and lowered to 2, and two calls that are refused; an order of
  the mug on two lines, so that a price can change between them and the sum needs
  more than `Width` = 3 bits; one announcement unsent, one restart.
- *labs, cqrs-es*: one order, two payments, a shipment and a cancellation of which
  three are sent (`MaxCommands`): two commands that decide on one history and a
  third that decides on the outcome; one hang-up, one restart of the query side.
  One order is enough: logs share nothing; the theorems have no bound.
- *labs, fan-out*: the three providers in five registries (three, two, a duplicate,
  one without a url, an empty one), three queries, indexes with one product under
  two spellings and equal prices. `Wire` = {0, 2} and `Budget` = 2 put an answer
  before, at and after the timeout, and `Lag` = 1 lets each branch be polled on time
  or late, so that an answer that came after the budget may still be taken and a
  timeout may be reported above it (README.md:244 of the lab shows 501 ms on 500);
  time stops at the last branch.
- *labs, bff*: a checkout of two lines through web-bff, a direct one of one line, an
  empty one through mobile-bff, and both pages of the first; one hiccup and one
  restart at any point; a count of one bit, so that it wraps. microservices and
  modular-monolith have the direct checkout only.
- *labs, hexagonal*: two orders and one that is refused at `serve`, one at the `cli`;
  one death, one disk failure, at any point; one handler dropped before its write
  begins (`HangUpPoints`). Dropped in the middle of a write it breaks what the mutex
  is for, and that is `hexagonal_dropped`, which has no cli.
- Words: units are `% UnitWord` (16 in the runs, 2^32 in the code).

`CHECK_DEADLOCK FALSE` everywhere: a shop with nothing left to do stops. Whether
it stops too early is what the liveness properties ask.

### Liveness and its fairness

- `EveryBuyerIsTold` (saga): weak fairness of each subscription's loop. tokio
  schedules every task that can go on, and no handler waits for another service.
  Nothing makes a user place an order. Two things are excused. An order that
  suffered a loss: nothing in the lab recovers a lost message (`lost > 0`). And
  `stuck`: inventory's two tasks take their locks in opposite orders and may wait
  for each other for ever, with no message lost (finding 3); weak fairness of
  `Reserve` and `Release` would claim that they finish. So the deadlock is a step of
  the model, taken whenever both commands are there to be handled together, after
  which no call of that service ends. "Every buyer is told unless a message was
  lost" is not true of this program, and not claimed.
- `EveryOrderIsSettled` (choreography): weak fairness of the handlers taken
  together, which is less than what tokio gives each task: what they have to do is
  finite, so as long as something goes on everything is done. Deliberately not
  about `status`: the lab promises that the workflow does not need the tracker.
- `TrackerCatchesUp` (choreography_view): the same. In the counterexample every
  message has been handled.
- `EveryRowIsSent` (labs): weak fairness of outbox's relay, a task that does one
  thing at a time: tick, publish, mark. A publish may fail, `MaxFaults` times:
  crash rates are probabilities below 1.
- `EveryRequestIsAnswered` (race): weak fairness of the handlers of
  pessimistic-service (tokio's mutex is FIFO) and of the actor's writer. In naive-
  and optimistic-service nobody waits for anybody: there is nothing to ask. A
  hung-up client of theirs is a handler that is never scheduled again.
- `ViewCatchesUp` (labs): weak fairness of each command's and each placement's
  handler and of the query side of cqrs-es, which are tokio tasks that wait for
  nothing but a lock held for one step. No one has to send a command: a handler is
  made fair as a whole, which includes its start, and `MaxCommands` may leave some
  unsent. Excused are the orders the code leaves behind for good: one with an event
  nobody heard (`missed`) and one whose events overtook each other (`rushed`).
- `EveryCommandIsAnswered` (inventory_deadlock): weak fairness of both tasks. The
  counterexample is two tasks that wait for each other, which no scheduling helps.

## 4. Findings

1. **A failed order can reserve stock** (`saga_reserve_again`).
   `inventory-service/src/repository.rs:89` forgets the saga on release, so a
   reservation command delivered again after the compensation reserves once more,
   and nothing releases it. `repository.rs:4-5` promises the opposite. The
   choreography lab keeps a tombstone for this case.
2. **A product on two lines slips past the stock check** (`saga_duplicate_lines`).
   Line by line at `repository.rs:62`; the subtraction then wraps `u32` in a
   release build. `README.md:204` of the lab promises a failure.
3. **reserve and release can deadlock** (`inventory_deadlock`). Opposite lock
   order, `repository.rs:61,68,77` against `83,85`. The choreography lab's copy
   takes both in the same order and says why.
4. **Seeding resets the version** (`race_reseed`). `optimistic-service`'s
   `store.rs:92` starts again at version 0, so a snapshot of an unsold row taken
   before the seeding passes the compare-and-swap after it. pessimistic-service
   has the same race for another reason (`seed` takes no row mutex): the same run
   with `Targets = {"pessimistic"}`. actor-service has not.
5. **The tracker can miss the end of an order** (`choreography_view`). Its five
   tasks race; a `payments.declined` handled before `inventory.stock_reserved` is
   ignored (`tracker.rs:169`; `payments.charged` likewise at 136), and the status
   stays `awaiting_payment` for ever although the buyer was told. The lab's README
   (201-202) and `registry.rs:35-37` speak of a few milliseconds.
   `payments-service/src/repository.rs:19-24` describes this race and joins
   because of it.
6. **A BFF blames the client** (`checkout_proxy`). Either BFF's `place` turns every
   reply that is no success into a 400 (`web-bff/src/clients.rs:86`,
   `mobile-bff/src/clients.rs:83`), so that a 500 of orders-service comes back as a
   validation error. `bff/README.md:142` says "identical to POSTing straight to
   orders-service".
7. **A dropped write runs across the next** (`hexagonal_dropped`). The guard of
   `insert` (`orders-app/src/repository.rs:97`) belongs to the handler's future. A
   client that hangs up during `store` takes the guard with it, but
   `tokio::fs::write` goes on: the next request loads, stores and is told 201, and
   the older write then replaces the file with one that lacks its order. The comment
   at 44-46 says "with a mutex so two concurrent requests can't interleave"; the gap
   the README concedes is about two processes, and here is one.

Smaller observations, not runs. In event-driven (and its copies) two requests may
both pass the e-mail check before either inserts, so two users can have one
address; and `CopyCatchesUp` needs the condition `hasty`, because catalog announces
after the lock of its table is free and creations and price changes are consumed by
different tasks: the older price may stay for ever. `ViewCatchesUp` needs `rushed`
for the same reason, and `ImplementsLifecycle` excepts `StaleAppend`:
`event_store.rs:6-12` names the missing expected version, and with it an order can
be paid twice or be cancelled and shipped. `EveryEventWasLegal` says how far that
goes: every event is one that the log its command had loaded allows, so an illegal
one takes a command that was overtaken. `KeptUnlessRaced` excepts two processes at
one file, the gap the hexagonal lab's README concedes (209-211), and nothing else of
what can happen to the file. `optimistic-service/src/store.rs` calls its early
check of `expected_version` a courtesy that the compare-and-swap repeats
implicitly; but the swap compares with the snapshot's version, not the client's,
so without the early check `PinnedIsExact` fails (its mutant). `RETRIES` =
4294967295 makes the budget `retries + 1` wrap to 0.

## 5. Proofs

All for arbitrary constants under the modules' named assumptions (types of the
constants, `MaxRedeliveries \in Nat` and the like) and the hypotheses named here.
Every invariant below was first checked by TLC as an invariant of the run of its
module.

| module | theorems | inductive invariant |
|---|---|---|
| `SagaProofs` | types; `ConfirmedOrdersArePaidAndReserved`, `FailedOrdersAreNeverCharged`, `BuyersGetOneOutcome`, under any redelivery and loss | `Agreement`: per order, how the orchestrator's status, the two ledgers, the messages in flight and the emails fit together. A message in flight occurs only as a hypothesis, so the bus reduces to five lemmas on what each bus operation can put in flight |
| | `FailedOrdersHoldNoStock`, `SagaImplementsContract`, if `"ReserveStockRequested" \notin Redeliverable` | adds `Once`: the reservation command is in flight at most once and only before its outcome |
| | `BooksAlwaysBalance`, if `SeededOnce` and `SingleLines` | `Books`: a shelf (wallet) is empty until its seed is consumed, which is in flight once; after that, what is left and what the ledger took are the seed; and no word wraps |
| `ChoreographyProofs` | types; `EmailsAreTrue`; `ChoreographyImplementsContract`, with no hypothesis on what is repeated | `Agreement`: `MessagesAgree` (what a message in flight proves), `LedgersAgree` (a charge needs a reservation, a tombstone a declined charge), `TrackerAgrees`, `EmailsAgree`. The tombstone does what `Once` has to be assumed for in the saga |
| | `BooksAlwaysBalance`, if `SingleLines` | `Books`, as in the saga |
| `InventoryLocksProofs` | `ReservationsAreWhole`, if `MaxSeeds <= 1` | who holds which lock, what each task has done of its call by then, and the shelf and the ledger up to the unfinished call |
| `RaceProofs` | `NothingIsOversold`, `NothingIsLost`, `RejectionsAreHonest`, `VersionsHaveOneWinner`, `PinsAreKept`, `NoConflictForNothing`, `RaceImplementsShelf` if `SeedsRace = FALSE`; `ArrivalOrderIsKept` without | `RaceInv`: that of the service raced. optimistic: a snapshot is an earlier state of its row, and the row itself if the versions agree; each attempt cost a write of somebody. pessimistic: who thinks holds the mutex, and the snapshot is the row. actor: only the writer's command thinks, its snapshot is the row. `OrderInv`: the mailbox is the tail of the arrivals, the command in the writer's hands is the one before it, and those before that are done |
| | of each service's own specification the same; of actor-service (`ActorNothingIsOversold`, `ActorRejectionsAreHonest`, `WriterIsAtomic`) with no hypothesis on seeding | as above |
| `OutboxProofs` | types, `NothingIsLost`, `LedgerHearsInOrder`, `DuplicatesArePaidFor`, `CreatedOrdersAreHeardOf`, `InboxCountsEachOrderOnce` | `Frontiers`: marked rows are `1..k`, heard orders `1..n`, `n` is `k` or `k + 1`, and what the relay holds in its hands follows |
| | `InboxBooksAreExact` | the property itself: a delivery adds an order not yet heard of to both sides, and one heard of to neither |
| `CqrsProofs` | types; `EventsWereLegal` (every append, of the log its command had loaded), `ViewsAreHistory`, `LogsImplementLifecycle` (a step implements `OrderLifecycle` or is a stale append) | `Inv`: a log starts with its only Placed; logs only grow, so `seen` points at a prefix, whose last event the command of a decided handler accepts; an order's events in flight and its status in the view are in its log; a Placed event in flight has the price on the sheet |
| `LabsProofs`, event-driven | `CopiesCatchUp` | `CopyInv`: of a product neither `hasty` nor `unheard`, at most one write is still to be announced, and it is of the price now; with none, the last message about it in each queue says that price, and if no queue mentions it the copy has it |
| | `OrdersArePricedRight` | `OrderInv`: a price in the copy, in a desk's bill or on its way was announced; a bill's units are those of the first lines and its sum is theirs, reduced line by line |
| `LabsProofs`, fan-out | `SearchesTakeOneBudget`, `CompletenessIsKept`, for any `Lag` | `GatewayInv`: every branch begins at tick 0, however many there are, so all budgets end together; the clock stands where the last branch ended, or one is still out; a branch that is over is so for the reason its state names; the reports are those of the branches |
| | `BestOffersAreAnswered` | `AnswerInv`: the answer is the ranked merge of what the branches brought, and after it no branch changes. About the merge alone, as a function of the registry and the hits: `IsMergeOf`, kept by every turn of the two loops, says that the offers so far are one per product, each at the lowest price seen, with its id and with exactly those who had it, in the order of the registry. A ranking exists because no two offers have the same name |
| `LabsProofs`, bff and the like | `AcknowledgedOrdersAreKept`, `ErrorsHaveACause`, `PagesAreTrue` | `PagesInv`: what a till has rung up is the sum of its first lines, of products that are there or were forgotten; an order is kept only from its last line on; the names a page has fetched are those of its lines |
| `LabsProofs`, hexagonal | `OrdersAreKept`, if `HangUpPoints \subseteq {"inserting", "loading"}`; `UnreadableFilesHaveACause`, with no hypothesis | `FileInv`: without a race, one insert at a time is between its load and its write, what it has loaded holds every acknowledged order, and a file being written does not parse |

The hypotheses, each of which a run shows to be needed or names a fact of the lab:

- `"ReserveStockRequested" \notin Redeliverable`: finding 1.
- `SingleLines` (no cart names a product twice): finding 2.
- `SeedsRace = FALSE` is what race-runner does (seed, then send): finding 4.
- `HangUpPoints \subseteq {"inserting", "loading"}` (no client hangs up in the middle
  of a write): finding 7.
- `SeededOnce`, `MaxSeeds <= 1`: a `product_created` or `users.registered` delivered
  again overwrites what is left of a sold product or a spent wallet (`seed.rs:27`);
  the hazard list has it. Catalog announces a product once.
- `ModulusAssumption`, `EntriesAssumption` and the last line of `CorpusAssumption` in
  the models are facts, not choices: a power of two is positive, a sequence without
  some of its entries is a sequence of the others. The provers know neither
  exponentiation nor `SelectSeq`; TLC evaluates both. (The rest of `CorpusAssumption`
  types the providers' data: a hit has a name, whose key is known, and a price.)

The stock services appear twice. `Race` runs one of them with the variables of the
others unchanged, and the theorems of the table are about its `Spec`, which the runs
check; those on each service's own specification (`OptimisticSpec` ...) are what they
rest on.

Sums and loops. `SumFunctionOnSet` and `FoldLeft` are recursive functions, and
induction over data is beyond the provers: the induction theorems take an operator.
What is needed of them is proved in `Sums` and `LabsProofs` from a smallest
counterexample instead: a finite set has a minimal subset where two tables differ, a
sequence a first index. Of a sum: it changes by one entry when one entry changes, or
joins. Of a loop: it has a first value, one more for every turn, and the last is what
`FoldLeft` gives (`LoopTurns`), so that an invariant of its turns holds at its end
(`Climb`). Nothing is assumed of either. `Ranked` is defined as what a sort returns,
the entries in an order that `Before` does not contradict, and not with the library's
`SortSeq`, whose definition tlapm cannot expand; `RankedIsRanking` shows that there is
such an order.

Only model-checked:

- Everything temporal under fairness (section 3), which TLAPS cannot do.

Every invariant that a passing run checks is a theorem.

## 6. What is not modelled

- The check of the e-mail address in the labs of `OrderPages`, saga, choreography and
  cqrs-es: the same code as in `Announcements`, where the check and the insertion
  are two steps.
- *cqrs-es, notifications-service*: logs a line per event, keeps nothing; its users
  and catalog services are copies of those in `Announcements` and appear in `CqrsEs`
  as announcements that arrive at any time.
- Price changes in the read model of saga and choreography: a cart carries the total
  computed at its placement; `EventDriven` has the same projection with price
  changes. `failure_reason`: only shown.
- The totals per line that web-bff adds to its order page.
- Reads (`GET`) that change nothing and that no property is about. HTTP parsing,
  configuration, logging, percentiles, printing; the reporting of race-runner and
  the polling of audit-runner.
- Restarts where the whole lab forgets: saga, choreography and concurrency keep
  everything in memory and have no recovery code. Modelled restarts are those the
  rest of a lab survives: orders-service of event-driven, the query side of cqrs-es,
  the three services of bff and
  microservices, the monolith, both programs of hexagonal; the outbox lab's crashes
  are those its code simulates.
- A second search at search-gateway: searches share only the registry, which never
  changes.

## 7. Plan

Done: 1. Saga and its contract; 2. the inventory locks; 3. the concurrency lab
and `Shelf`; 4. the outbox lab; 5. the choreography, held to the same contract;
6. the read model (event-driven); 7. the event store (cqrs-es) and its lifecycle;
8. scatter-gather (fan-out); 9. placement and pages (bff, microservices,
modular-monolith), the order file (hexagonal); 10. the sums of saga, choreography
and outbox as theorems; 11. the locks, and the race as a whole; 12. event-driven,
fan-out, the pages and the order file as theorems; 13. the merge of fan-out as a
theorem.

Next:

14. What repeats: a `product_created` delivered again (`seed.rs:27`), so that the
    hypotheses `SeededOnce` and `MaxSeeds <= 1` give way to a statement of what the
    books then show.
