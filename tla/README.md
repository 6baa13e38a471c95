# order-hub: TLA+ models, checks and proofs

order-hub is the order service of a shop platform. It places an order by occupying a coupon
(OfferHub), an account freeze (ledger) and stock, then follows the order through payment,
cancellation, fulfilment, refund and closing. Every one of these operations is a *saga*: a
goroutine reads the order row once, calls remote services, and moves the row with a
compare-and-set on `version` and `status` (`OrderRepo.Transition`). There is no lock around a
saga and no distributed transaction; what keeps the parts consistent is the order of the
steps, the compare-and-set, compensation tickets, a reconciliation job and an outbox.

## Inventory

| Part (source) | State | Operations | What makes it correct |
|---|---|---|---|
| status machine, amounts (`internal/domain`) | none (pure) | `CanTransition`, `NextAfterPaid`, `SumOriginal`, `AllocateDiscount`, `BuildAmounts` | the table is followed; sums are exact; line amounts add up |
| checkout (`application/checkout.go`) | order, idempotency record, lock, reservation, freeze, stock | `Checkout` with `rollback` | one order per key; an order keeps what it occupied; nothing leaks without a fault |
| payment (`application/payment_refund.go`) | order row, reservation, freeze, intents, tickets | `RecreateIntent`, `OnPaymentCallback`, `ConfirmLedger`, `onPaid`, `afterPaid`, `RetryAfterPaid`, `Complete` | only the winner of payment and cancellation acts; money received is settled in the end |
| refund (same file) | refunded amount, channel, ledger credit, redemption | `Refund`, `splitRefund`, `reverseDiscount`, `resolveRefundLines` | never more than was paid; one at a time |
| cancellation (`application/query_cancel.go`) | as payment | `Cancel`, `CancelExpired`, `TimeoutWorker.Tick` | an unpaid order ends and gives everything back |
| close (`application/close.go`) | as refund | `Close` | the row and the outbox agree |
| compensation (`application/compensate.go`) | tickets | `Tick`, `Retry`, `handle` | a ticket is served until done, retries do no harm |
| reconciliation (`application/recon.go`) | tickets, redemption id | `Run`, `checkOffer`, `ensureTicket` | differences become tickets |
| outbox (`OutboxWorker`, `infra/outbox`) | outbox rows | `Tick`, `Fanout.Publish` | at least once, duplicates have a cause |
| repository (`infra/persistence`) | all tables | `Transition`, `InsertCheckout`, `ClaimCompensations`, lists | atomic steps of the above; a scan with cursors shows every order once; limited pages leave nothing behind |
| memory repository (`infra/memory`) | maps and slices | the same interface | it answers like Postgres, or the tests show nothing |
| renewal (`application/renew.go`) | `renew_count`, reservation's expiry | `Renew`, `Tick`, `renewOne` | no renewal twice for one count; a row in the page of a tick gives its place to the next one in the end |
| preview (`application/preview.go`, `infra/cache`) | cached quotes | `Preview`, `Put`, `GetByQuote`, `resolveSnapshot` | the price charged is the price shown, or the request is refused |
| id generator (`infra/idgen`) | last millisecond, sequence | `next`, `NewSnowflake` | ids are unique and grow |
| HTTP, authentication, seed data, configuration | none of their own | decoding, identity, wiring | not modelled, see below |

The parts interact through the order row, the ticket table and the outbox table, and through
the state of OfferHub, ledger, payment provider and fulfilment adapter. Hard to test are:
interleavings of two or more goroutines on one row (server replicas and worker), calls whose
answer is lost, crashes between two statements, retries of what was already done, and what
must happen *eventually*. `PROJECT.json` lists these hazards line by line.

## Modules

| Module | Models | State and actions |
|---|---|---|
| `OrderDomain` | `internal/domain` as far as it is pure, `splitRefund`, `reverseDiscount` | constant operators |
| `OrderLifecycle` | payment, refund, cancel, close, compensation, reconciliation | `ord` is the order row; `offer`, `freeze`, `credit`, `channel`, `intents`, `held` the services; `tickets`, `events` the tables; `pc`, `snap`, `amt`, `work`, `todo` the locals of each goroutine. One action per statement or remote call |
| `OrderPromise` | what a buyer is promised | `status`, `paid`, `refunded`, `freeze`; `returned` is what refunds gave back, `credited` what closings credited; no goroutines, versions, failures |
| `Checkout` | placing orders | `orders`, `idem`, `locked`, `taken` (what the services hold), `pc`, `ask`, `oid`, `got`, `reply` |
| `Pricing` | int64 arithmetic of an order and its line refunds | one action per function Checkout calls; integers are two's complement, up to `MaxInt` |
| `Outbox` | delivery of events by several workers to several sinks | rows, marks, deliveries; each worker's batch is a set of rows, taken oldest first (`Current`) |
| `Quotes` | preview, quote cache and the pricing half of checkout | `snap`, `until` the cache; `rule` OfferHub's rules; `req`, `quote`, `out` the locals of each checkout. `Preview`, `resolveSnapshot`, `QuoteAgain`, `Compare` are the places where time passes or rules change |
| `Renewal` | renewal of the reservations of several unpaid orders | `ord` (status, count, deadline), `resv` at OfferHub with the keys it has seen; `page` the copies `Tick` has read and not yet served, `copy` the one in hand; `Renew`, `Tick`, `NextRow`, `CallRenew`, `BumpRenew`, `Restart` against `Place`, `Decide`, `Expire` and the clock. `left` and `failed` are history |
| `Sweeps` | the timeout, reconciliation and compensation jobs over many orders | rows with their order of `updated_at`, tickets, the page of the job at work; sagas are one step here, their detail is in `OrderLifecycle` |
| `Listing` | pages of `List` and `AdminList`, Postgres and memory | the table, the reader's cursor and what was seen; a ghost for orders that stay in the filter |
| `Repository` | the Postgres and the memory repository side by side | `pg` and `mem` get the same commands; the commands are those of the sagas (`SagaCmd`), with copies of any age; `claimed` is the worker's page of tickets, served in order of their ids |
| `Snowflake` | id generators of several binaries | `clock`, `lastMs`, `seq` of each; `next` and its busy wait `spin`, restarts, clocks set back |
| `MC*` | instances for TLC | symmetry sets; `MCFocus` and `MCRepository` choose what a behaviour is about |
| `LifecycleInvariance` | proofs about `OrderLifecycle`, its refinement of `OrderPromise` included | - |
| `CheckoutProofs`, `OutboxProofs`, `SnowflakeProofs`, `RenewalProofs`, `QuotesProofs`, `PricingProofs` | proofs about the module each is named after | - |
| `RepositoryProofs` | proofs about `Repository` and `Listing`, put together by `MCRepository` | - |

Conventions. `snap[p]` is the variable `o` of a saga: read once, never refreshed except where
the code does so. `Begin` is `FindByID`; `CAS`/`Moved`/`Emit` are the three parts of
`Transition` (guard, update, outbox row in the same transaction). A remote call has three
outcomes: applied and answered, applied with the answer lost, not applied. The caller sees
the last two alike. Services deduplicate by idempotency key, as the design says (技术方案
line 377); what they do otherwise is taken from the clients' mocks. Definitions marked as
mutants are plausible bugs; each is used once or more to show that a property would catch it.

Abstractions that a reader should know:

- One order. Sagas of different orders share no row and no service state.
- A failed call and the insert of the ticket it leads to are one step; a crash between them is
  `Abandon` before the step (the ticket is lost with the call's outcome unknown).
- Database statements fail only as a crash or a cancelled request (`Abandon`), except in
  `Checkout`, where the insert may also fail, or commit and lose its acknowledgement.
- The fulfilment adapters of the repository cannot fail, so `fulfill_release` tickets are
  never written. The adapter's map lives in each binary (`held` per site) and dies with it.
- A refund's line list is checked in `Pricing`; `OrderLifecycle` uses amounts only. The refund
  row that `InsertRefund` adds after the last compare-and-set is read by no saga.
- The back-off of a ticket is any delay; attempts stop counting at the limit they are compared
  with. The fallback scan of `ClaimCompensations` after a database error is left out.
- `Sweeps` takes a saga as one step: the row moves and the coupon is settled, or a ticket is
  written, or the ticket is lost as well. It adds what one order cannot show: pages.
- `Quotes` has a cart of two lines and a coupon list that is empty or not. Allocations are
  whatever OfferHub may answer. Idempotency and reservations of the same request are in
  `Checkout`.
- `Renewal` counts time in the worker's window of five minutes, and the clock moves between any
  two steps. How often a tick comes is left open: the worker serves five tickers from one
  `select`, and a ticker drops ticks while a long job of another is running. So nothing is
  said about *when* a page is read, only about what is in it. What OfferHub does with a renewal
  (a key seen before renews nothing, an inactive reservation is refused) is external. The list
  is that of Postgres; the memory repository's is unsorted.
- In `OrderLifecycle` a payment callback names its intent; `OnPaymentCallback` skips the match
  when the id is empty (`payment_refund.go:97`). Integers are unbounded in `OrderDomain`: the
  products of `splitRefund` and `reverseDiscount` (`payment_refund.go:388`, `:396`) may overflow
  in int64. Overflow at checkout is the subject of `Pricing`.
- In `Checkout` a database error of `FindIdempotency` is left out; the code goes on as if there
  were no record (`checkout.go:108`, `:136`), and the unique key of the insert decides.
- `Outbox` leaves out a row whose payload cannot be parsed, which a tick skips.
- In `Quotes` a checkout takes its time with the first check of expiry, where the code asks the
  clock again (`checkout.go:158`, `:368`); a quote of another scene (`:385`) and a quote that
  comes back with the id of the preview (`:180`; OfferHub gives every quote a new one) are left
  out. `Pricing` has no `OriginalAmount` from the client (`amount.go:54`).
- `Repository` compares what sagas read. Differences it leaves out, because no saga depends on
  them: the memory `Transition` overwrites `paid_at`, `cancelled_at` and `completed_at` also
  with nothing; memory claims *running* tickets again (with one worker goroutine none is left
  running at a claim) and forgets the retry time a ticket had; refund rows are appended
  unchecked; lists are in map order.
- `Pricing` keeps the wrap-around of integers; currency and text are left out.

## Runs

| Run | Instance | Shows |
|---|---|---|
| `LifecycleMall` | 2 server goroutines, 1 worker, 2 tickets, payable 2 (ledger 1, channel 1), 1 failed call or crash | the safety properties of payment, cancellation, completion, refund, closing and recovery, and the refinement |
| `LifecycleFair` | the same goroutines, payment, cancellation and new intents, fair, 1 failed call, 1 crash | pending orders end, cancelled ones are released, paid ones settled, and no single fault leaves a coupon reserved |
| `CheckoutRace` | 3 goroutines, 2 ids, 2 keys, any one fault | one order per key, resources kept, leaks accounted for, lock section bounded |
| `PricingSmallInts` | 3 lines, 5-bit integers (`MaxInt = 15`) | exact overflow detection, sums, fair allocation |
| `OutboxDelivery` | 2 workers, 3 events, batch 2, 2 sinks, 1 failure, 1 crash | nothing lost, duplicates have causes, eventual delivery |
| `SnowflakeIds` | 2 binaries with different machine ids (one beyond the mask), 2 sequence numbers, 2 steps back of a clock, a restart | repeated ids have a cause, ids grow within a life, the wait for a millisecond ends |
| `RenewalMall` | 2 orders, a request and the worker, pages of 1, reservations that live as long as there is time to pay, 2 renewals, 1 failed row | count and OfferHub agree; rows ahead of an order keep it out of a page only as often as their renewals and failures can |
| `QuotesMall` | a preview and a checkout in either kind of scene, a rule change, expiry, a failed cache access | a price differs from the one shown only if the cache entry could not be read the second time; stored ledger amount and new discount belong together |
| `SweepsCover` | 3 orders, pages of 2 and 1, reconciliation reads 3, 2 faults | expired orders end, unsettled ones are filed |
| `RepositoryParts` | 2 orders, 2 ids, 2 keys, versions up to 6; 3 tickets, 2 attempts; lists of 3 orders, pages of 1 or 2 | both repositories give the same answers, hold the same rows and hand out the same tickets; `paid_at` stays in Postgres; every steady order is listed once |

Two of these put parts that would be too large together side by side in one run. In
`LifecycleMall` an action constraint (`Focused`, module `MCFocus`) lets two goroutines be at
work at a time and one thing go wrong, and keeps apart refunds and closings from recovery by
console, administrator and reconciliation: a refund or closing begins only on an order with no
ticket and no crash behind it, and the tickets it leaves itself are retried by the worker. In
`RepositoryParts` (module `MCRepository`) a behaviour is about order rows, tickets or lists,
which no command touches together.

Two runs expect a violation; each states what a document says and the code does not do:

| Run | Property | Finding |
|---|---|---|
| `CloseOverRefund` | `GivenBackWithinPaid` | a close that loses the row to a refund has already credited the buyer |
| `CheckoutForeignAnswer` | `AnswersAsk` | the loser of an idempotency race gets the other request's order |

### Further departures

The modules state some more properties that documents promise and the code does not keep. They
are not among the runs; changing the constants of a run as told, TLC finds each violated.

| Property | How to see it | What happens |
|---|---|---|
| `PaidReservationEnds` | `LifecycleFair`, `Requests` with `"pay"` and `"complete"` | an order completed while `afterPaid` fails keeps its coupon reserved: `RetryAfterPaid` takes COMPLETED for settled (`payment_refund.go:156`) |
| `RefundEnds` | `LifecycleFair`, `Requests` with `"pay"` and `"refund"` | a refund whose remote call fails stays REFUNDING: no ticket, no operation accepts it (`payment_refund.go:301`) |
| `ReversedInProportion` | `CloseOverRefund`, one worker, 2 tickets, a failed call, ticks `"compensate"` | a retried partial reverse takes back the whole discount (`compensate.go:95`) |
| `CancelledIntentsEnd` | `LifecycleFair` | an intent opened while the order is cancelled, or replaced, stays open (`payment_refund.go:65`) |
| `CancelledIsReleased` without its exception | `LifecycleFair` | a crash after the coupon's release leaves the freeze: reconciliation looks at the coupon only (`query_cancel.go:167`) |
| `PaidIsSettled` without its exception | `LifecycleFair`, no reservation | an order without coupon whose goroutine died after the PAID row is never settled (`payment_refund.go:133`) |
| `LineRefundsWithinLine` | `PricingSmallInts`, `MaxEntries = 2` | a line is refunded more than once, from the money of the others (`payment_refund.go:357`) |
| `UniqueIds` | `SnowflakeIds`, `Env <- EnvUnset` | binaries with the default machine id, as in `docker-compose.yml`, issue equal ids (`snowflake.go:28`) |
| `ReservationCoversPayment` | `RenewalMall`, `PayTimeout = 4` | with 30 minutes to pay the worker begins to renew in the last five, when the 15 minutes of the reservation are over unless a request has renewed it (`scene.go:85`, `renew.go:38`) |
| `PriceAsPreviewed` | `QuotesMall` | the quote expires between two look-ups and another price is charged (`checkout.go:181`) |
| `StaleMeansChanged` | `QuotesMall` | a checkout is refused as stale although nothing changed: preview and checkout set `AutoBest` differently (`checkout.go:169`) |
| `LinesAsQuoted` | `QuotesMall` | line discounts are proportional and ignore OfferHub's allocations (`checkout.go:187`) |
| `ListedOnce` without its condition | `RepositoryParts` | the memory repository's lists ignore the cursor, or start again when its order left the filter (`order_repo.go:230`, `:271`) |
| `BrokenIsFiled` | `SweepsCover`, `ReconLimit = 2` | an order behind the rows updated last is never reconciled (`order_repo.go:562`) |

Bounds. With two server goroutines and a worker any two of the sagas overlap, refund with
refund included; in `LifecycleFair` and `CloseOverRefund` all goroutines may be at work at once.
Payable 2 allows two partial refunds, whose ledger shares round to nothing, or a full one,
against a closing at work (that a copy of the first PARTIAL_REFUNDED is of no use in the second
takes a third refund: there the theorems on refunds, which hold for every amount, take over).
Two tickets allow a ticket of each of two kinds to be open at once.
One failed call reaches every error path, one crash every point of every saga.
The safety theorems below hold without any of these bounds. In `CheckoutRace` any one fault
happens anywhere, with three goroutines so that one enters while another holds an expired
lock. In `PricingSmallInts` products and sums exceed the width by up to a factor of two, so
that wrap-around gives both negative and small positive results. In `SnowflakeIds` a
millisecond has two sequence numbers, so that the third id in it meets the wait. In `RenewalMall` a
page of one leaves the other due order out, two renewals keep the first row in the page for
two ticks, and time goes on past the deadline of an order placed at the start. Checkouts
share nothing in `Quotes` but the cache entry, which none of them writes: one is enough, with
every combination of what a request may leave out. Three
orders in `SweepsCover` are one more than a page of the timeout job and two more than a page
of tickets, so that faults can keep a page busy. In `RepositoryParts` six versions reach a
second partial refund, and every command is also tried with every version. Deadlock is not checked
where the system may stop: all goroutines idle and nothing requested.

Fairness. A goroutine that has begun keeps running (`WF` on its steps): Go schedules it and
every remote call has a 2 s timeout. The worker serves its tickers from one `select`, which
picks at random among those due, so a job that is due again and again is served (`SF` on the
timeout scan, the claim of tickets and the reconciliation). Nothing is assumed about requests
of buyers, merchants or the console, nor about the buyer's payment. After a crash some
promises really fail, and the properties of `LifecycleFair` say which.
`SweepsCover` keeps its promises through crashes of the worker, because the next tick reads
the tables again. In `SnowflakeIds` the host's clock runs and the waiting goroutine is
scheduled; in `OutboxDelivery` a worker goes on with its batch and ticks again.

## Proofs

The theorems hold for every value of the constants, that is for any number of goroutines,
workers, orders, tickets, events and faults and any amounts, limits and clocks: none of the
bounds of the runs enters. Every inductive invariant was checked by TLC on a small
instance like that of its run before it was proved; `LifecycleInv` is kept among the properties of `LifecycleMall`.

| Module | Theorems (property) |
|---|---|
| `LifecycleInvariance` | `Typing` (`TypeOK`), `LifecycleInvariant`, `CopiesAreCurrent` (`SnapshotAgrees`), `WinnerTakesAll` (`OnlyWinnerActs`), `RefundsBounded` (`RefundsWithinPaid`), `RefundsExclude` (`RefundIsExclusive`), `OutboxAgrees` (`EventsMatchRow`), `CloseIsEven` (`ClosedIsEven`), `ExcessIsBounded` (what the finding of `CloseOverRefund` can cost), `ParkedIsServed` (`ParkedHasTicket`), `TableIsFollowed` (`StatusFollowsTable`), `PromiseIsKept` (refinement of `OrderPromise`) |
| `CheckoutProofs` | `CheckoutInvariant`, `CheckoutTyped` (`TypeOK`), `KeyNamesOneOrder` (`OneOrderPerKey`), `RollbackSparesOrders` (`OrderKeepsResources`), `LeaksAreAccountedFor` (`LeaksAreFaults`), `SectionHasOneOwner` (`SectionIsBounded`), `KeysForGood` (an action property: orders and recorded keys stay) |
| `OutboxProofs` | `OutboxInvariant`, `NoEventIsLost` (`MarkedWasDelivered`), `DuplicatesAreBounded` (`DuplicatesHaveACause`) |
| `SnowflakeProofs` | `SnowflakeInvariant`, `IdsGrowInALife` (`IdsGrow`), `IdsAreUnique` (`RepeatsHaveACause`) |
| `RenewalProofs` | `CountAgrees` (`RenewalsCounted`), `RowsGiveWay` (`LeftOutSeldom`) |
| `RepositoryProofs` | `RepositoryInvariant`, `AnswersAgree` (`SameAnswers`), `RowsAgreeAlways` (`SameRows`), `TicketsAgreeAlways` (`SameTickets`), `PaidAtIsKept` (`PaidAtStays`), `ListsShowOnce` (`ListedOnce`), `PartsOfRepository` (the parts TLC explores are behaviours of the whole) |
| `PricingProofs` | `ExactSum` (`SumIsExact`), `AddUp` (`LinesAddUp`), `FairShares` (`AllocationIsFair`) |
| `QuotesProofs` | `QuotesInvariant`, `ChangesAreNoticed` (`SurpriseNeedsAMiss`), `LedgerTakesAll` (`LedgerPaysAll`) |

Assumptions. The constants have their types; beyond that: `LedgerPay <= Payable` and a freeze
is for a positive amount (`OrderLifecycle`), the goroutines of `Checkout` and the workers of
`Outbox` are finitely many (their properties count them), a coupon's discount is at most the
price (`Quotes`), clients send integers of the width (`Pricing`), order ids are positive numbers
and a page has room for a row (`MCRepository`). Two theorems have hypotheses of their own.
`PaidAtIsKept`: orders cost something (`Paid > 0`);
`paid_at` of an order of nothing cannot be told from the amount. `ParkedIsServed`: the ticket
table has a vacant row whenever a ticket is written (`[]RoomLeft`). The code's table is not
bounded; the model's is, and `onPaid` drops the error of an insert that fails, so with a full
table the property is false.

### The life of an order

None of the safety properties is inductive by itself. `LifecycleInv` adds:

- `CopiesTrackRow`: a copy is older than the row or agrees with it. This is what makes a
  compare-and-set on the version mean something, and it needs that the two statements without
  version (`UpdatePaymentIntent`, `UpdateRedemption`) leave status and money alone;
- `PhasesAgree`: where a goroutine stands tells which side of the race was decided (the steps
  of `afterPaid` only when the order was paid, the releases only when it was cancelled), and
  so does the kind of a ticket: `ledger_release` exists for cancelled orders only;
- `RefundsAgree`: outside REFUNDING the money returned is exactly the refunded amount; inside,
  the goroutine that holds the version owns the row, and what it has paid back so far (`Legs`)
  is what is missing from the row. A refund that died leaves REFUNDING behind, which nobody
  can leave, so the account stays bounded;
- `EventsAgree`: which events were written, per status.

The proof summarises the steps that write the row by their effect (`PayEffect`, ...), shows
that all other steps are quiet, and preserves each conjunct by one lemma per conjunct. The
refinement maps each of these effects to an action of `OrderPromise` and the quiet steps to
its stuttering or to its steps of freeze, refund and closing credit. `OrderPromise` keeps two
accounts. What refunds give back (`returned`) never exceeds what was paid, and moves only while
a refund has the row. What a closing credits (`credited`) is the ledger's part, once, at any
time after payment and whether or not the closing then gets the row: `close.go:75` credits
before its compare-and-set. Only an order that was credited and of which nothing was returned
is closed. The sum of the two accounts is not promised to stay within what was paid, and does
not (`CloseOverRefund`). For the refinement it is needed that a closing works on an order that
was paid for (`ClosingIsPaid`) in a scene that allows it (`NeverClosed`). `ClosedIsEven` needs one more conjunct,
`CloseAgrees`: the credit of a closing carries one idempotency key per order, so a goroutine
that is past it has made the one credit there can be, whichever closing made it first. The same
conjunct bounds the damage of the finding: a closing that loses the row to a refund has given
back the ledger's part at most (`GivenBackBounded`), and in a scene without closing refunds and
credits together stay within what was paid (`NeverClosed`).

`ParkedHasTicket` needs `TicketsAgree`. The ticket must be there from the moment `onPaid` goes
on to park the order until the order has left COMPENSATING, and what could take it away is a
worker or the console marking it done. So the invariant says of every goroutine that works on
an after_paid ticket and is about to mark it done that the order is past COMPENSATING; the
goroutines that give back a coupon or a freeze get there without looking at the row, and hold
tickets of other kinds. That a ticket somebody holds keeps its kind is `InsertSpares`. The rest
is that no step returns an order to PAID or COMPENSATING, and that only `Park` parks one.

### Checkout

`OneOrderPerKey` needs `KeysAgree` (what a key records exists and was answered) and `IdsOwned`
(an order id belongs to one goroutine). The other three bound damage by the number of faults,
and a bound on a count is only inductive if each step that can add to the count is paid for:
`Lost` are resources no rollback from the present position will give back, `AtRisk` orders
that are stripped or whose goroutine is rolling back, and `HoldsWhatItKnows` says that before
the insert a goroutine knows exactly what it holds, so that a rollback without a fault loses
nothing. The cardinalities use the library's theorems on finite sets.

### Outbox

`Reached` says which sinks the worker at work has called with success. `CallsCounted` is a
budget: deliveries so far, workers that will still call, and workers that will read the row
again, never exceed workers plus failures plus crashes. A refusal or a crash moves a worker
back from "has called" to "will read again", which is where the extra delivery comes from.

### Id generator

`Remembers` ties `lastMs` and `seq` to the last id of the present life, `Marked` keeps the
machine id in every id, `Rising` carries growth over restarts that did not step back. The
arithmetic is in lemmas about `Pack`: it is injective in the three parts and monotone in
milliseconds and sequence number, for every width.

### Renewal

`RenewalsCounted` needs that copies are not ahead of the row and below the limit (`OldRow`), also
the copies of a page while they wait for their turn, and that a renewal is made before it is
counted (`CopyIsOld`).

`LeftOutSeldom` says how a page of 100 rows ordered by `expire_at` can keep a due order out. A
place of a page is a row and the count it was read with. A page that leaves an order out is
full of such places of rows that run out no later (`Ahead`), and each row has `MaxRenew` of
them. `PlaceInv` counts the places that are used up (the row has moved on, or is decided) or
in the worker's hand: `left * PageSize` is at most that number and the failures. A full page
adds new places, because the rows in it have not moved on; a place that leaves the worker's
hand is used up, or its renewal failed. Renewals by requests use places up as well, but take
none. So with 100 rows a page and 3 renewals an order can be left out of at most
(3 * rows ahead + failures) / 100 pages. The bound is exact: TLC finds states that reach it.
What does not follow is that the order gets its renewal in time, if more orders run out
together than the ticks of their window can serve, or the ticks do not come.

### Repositories

`RowsAgree`, `IndexAgrees` and `TicketsAgree`: rows agree but for their times, memory's map of
`client_order_id`s is the index the table has, and open tickets are due at the same time.
The second is what makes an insert get the same answer, the third what makes claims agree.
Done or failed tickets may differ in their next time, which no claim looks at.

The lists are stated of sets of rows: a page is a set such that what is left comes after all of
it, and the cursor is its last row. `ListInv` says of the cursor `c` that whatever was shown is
not after `c`, and that a steady order not after `c` was shown (`Shown`). A page moves `c`
down without leaving out a row, and an order that is placed meanwhile, on either side of the
cursor, is not steady. It rests on `BeforeIs`: the order by time and id is total and strict,
which is why the query compares both.

### Amounts

`WrapIs` and `WrapUnique` characterise wrap-around: the one number of the class modulo the span
that fits. From there `AddIs` and `MulIs` show that the overflow tests of `Add` and `Mul` are
exact for the amounts a line can have. `SumOriginalIs` carries this through the loop, and
`TotalCongruent` shows that line discounts add up whatever wrapped, since the last line takes
the difference and all is computed in one class. `Shortfall` adds up the roundings. The provers
cannot instantiate the library's induction over a predicate, so `Upwards` states induction of
*sets*: a set with 0 that contains the successors of its members below m contains all of 0 .. m.
Its proof is a least counterexample (`WellFoundedInduction`). Each loop names the set of the
numbers of lines at which its claim holds. `Recursion` derives from it that the recursive
functions of the model exist and compute what they say.

### Preview and quotes

`SnapshotsPay` fixes what the snapshot of an account scene holds, `RequestFits` that a request
past `resolveSnapshot` has the ledger amount of the snapshot it was compared with (it is part
of the hash). From the two, `Compare` either refuses, or places the order at the snapshot's
price, or had its second look at the cache fail.

### Only model-checked

All liveness properties (`LifecycleFair`, `SweepsCover`, the waits of `Snowflake` and the
delivery of `Outbox`): fairness is outside the prover's reach. Every invariant and every action
property of a passing run is a theorem.

## Plan

1. `Sweeps` promises liveness only; a safety half (no tick takes a row that is not due, a page
   is not served twice) would bring it within reach of the prover.
2. Refund rows and the statistics of the console, if a saga begins to read them.
3. The memory repository's outbox next to `Outbox`, as `Repository` does for the tables.

## Not modelled

- HTTP decoding, routing, identity look-up and the console's pages: they keep no state and
  call the modelled operations. The seed service calls them in sequence for demonstrations.
- Configuration and wiring of the binaries, apart from the worker's loop.
- Refund rows, counts and statistics: written last or only read, no saga depends on them.
- The fallback scan of `ClaimCompensations` after an error of its first query.
- The memory repository's outbox: with more than 200 unpublished rows its list shares the
  array that `MarkEventPublished` filters in place. `Outbox` models the Postgres table.
- What OfferHub, ledger and payment provider do inside, beyond what their clients show.
