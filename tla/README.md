# Voyant: a formal model of the transactional core

Voyant is a TypeScript monorepo for travel commerce. One organisation runs
resident Node processes (Hono routes, an in-process event bus, scheduled jobs) over one Postgres
database. Most
of the code is CRUD, contracts and user interface; what is hard is the small part where several
requests, jobs and subscribers act on the same rows: seats of a departure, the items of a booking,
a Booking Session and its payment, a supplier's reservation, rows of the event outbox and of the
webhook queue. This directory models that part in TLA+, checks it with TLC and proves
its most important facts with TLAPS. Paths below are relative to `src/packages/`.

1. [The system](#1-the-system): components, state, operations, hazards
2. [The modules](#2-the-modules): what models what
3. [The runs](#3-the-runs): what is checked, on which instances
4. [The proofs](#4-the-proofs)
5. [Where code and documentation part](#5-where-code-and-documentation-part)
6. [What is not modelled](#6-what-is-not-modelled)
7. [The plan](#7-the-plan)

## 1. The system

### Components with state that several actors share

| Component | State | Operations | Interacts with |
|---|---|---|---|
| **Event outbox** `db/src/outbox.ts`, `core/src/events.ts` | `event_outbox` rows: status, attempts, `next_attempt_at` | capture in a transaction, durable `emit`, drain (claim, deliver, complete or fail, announce), prune | every service that emits; all subscribers; the drain job |
| **Drain job** `db/src/outbox-job.ts` | none of its own | call `drainOutbox` with a batch size, a concurrency and budgets | outbox, event bus |
| **Availability holds** `operations/src/availability/service-holds.ts` | `availability_holds`, `availability_slots.remaining_pax` | place (or replay), extend, release by token, sweep | booking sessions, booking creation, capacity edits |
| **Departure edits** `operations/src/availability/service-core.ts` | `availability_slots` | `updateSlot`: capacity rebalance, status, timing | holds, bookings |
| **Bookings** `bookings/src/service-core.ts`, `state-machine.ts` | `bookings`, `booking_items`, `booking_allocations` | convert a product (and a hold), start, complete, cancel, override, create/update/delete items | departures, outbox, finance callbacks |
| **Refund saga** `bookings/src/sagas/refund-booking.ts`, `core/src/saga.ts` | none persisted; a list of completed steps in memory | validate, credit note, release seats, reverse the supplier, transition, emit, notify; compensations in reverse | bookings, finance, suppliers, outbox |
| **Booking Sessions** `catalog/src/booking-engine/sessions-service.ts`, `sessions-drizzle.ts` | session, quote and hold rows; commit attempts; settlements | renew, update, quote, place hold, abandon, expire, Commit, settle a captured payment | holds, bookings, payments, outbox |
| **Card payments of a session** `catalog/.../sessions-payment-production.ts`, `finance/src/booking-session-payment.ts`, `card-payment.ts`, `payment-adapter-*.ts` | `payment_sessions` rows | create or reuse, start, fail, authorize, complete, expire, transfer to the booking | sessions, payment processor, outbox |
| **Supplier operations** `catalog/src/booking-engine/supplier-operation*.ts`, `sessions-production.ts` | operation rows with a version; the session's state | claim, dispatch, record the answer or its absence (`in_doubt`), reconcile, resolve, materialize the booking | sessions, suppliers, operators |
| **Hold expiry wake-up** `operations/src/expired-holds-job.ts` | timers in memory | arm, sweep, re-arm | holds |
| **Webhook delivery** `webhook-delivery/src/*`, `apps/src/webhook-delivery.ts` | attempts, the subscription with its failure count | enqueue, claim or take over, deliver, complete, retry, pause | outbox, endpoints, apps |
| **Write intents** `db/src/write-intents.ts` | intent rows | open, settle by event, expire | outbox |
| **Idempotency keys** `hono/src/middleware/idempotency-key.ts` | stored responses | look up, run the handler, insert | all routes |
| **Execution locks** `core/src/locking.ts`, `db/src/runtime/locks.ts` | advisory locks, leases | acquire, renew, release | scheduled work |
| **Invoices, schedules, refunds** `finance/src/*` | invoices, payment schedules, captures | issue, capture, refund, settle | bookings |
| **Trips** `trips/src/service-reservation.ts` | a reservation of several components | reserve each, compensate | bookings, suppliers |
| **Promotion scheduler** `commerce/src/promotions/service-boundary-scheduler.ts` | a watermark | emit boundaries, move the watermark | outbox |

Everything else (catalog index, pricing, documents, suppliers' inventory packages, relationships,
auth, UI, migrations) is listed in `PROJECT.json` with the reason for leaving it out.

### How they interact

Services talk to each other by calls inside one database transaction, and by events. An event is
captured as an outbox row, either by the service's own transaction (`insertOutboxEvents`) or by
`bus.emit(..., { store })` before any handler runs; the emitter then delivers it in place, and what
it does not finish the drain delivers later. Seats are moved by three independent writers of
`availability_slots.remaining_pax`: the hold service, `adjustSlotCapacity` of the bookings service,
and the operator's `updateSlot`. What orders them are Postgres row locks (`FOR UPDATE`) under READ
COMMITTED, taken in an order that differs from writer to writer.

A Booking Session sits above these. What the shopper does holds the session row, but a Commit is
several transactions: preflight, payment, consumption. The money is captured by a callback later,
`payment.completed` goes through the outbox, and a settlement commits the session in the shopper's
stead. For a supplier's inventory the order is turned round: the supplier is asked first, under a
durable operation, and the booking is made of a secured reservation. Webhooks are a second queue
fed by the outbox, with claims that time out and no fence around them.

### What is hard here, and what must be true

* **Interleaving of transactions.** A statement reads, a later one writes what it concluded. What
  must hold at every commit: a seat is free or claimed once, a hold is settled once, an allocation
  follows its item, a cancelled booking holds nothing.
* **Lock order.** Holds before departures, departures before holds: the sweep must not deadlock
  with itself or with a placement.
* **Crashes and lost statements.** A process dies between a claim and a settlement: the event must
  be delivered by somebody, at least once, and not be claimed without end.
* **Edits of what others count on.** An operator lowers a capacity, makes a departure unlimited or
  cancels it while seats of it are held; a booking's party is rewritten under its allocations.
* **Timeouts.** The bus stops waiting for a handler that still runs; a lease runs out under a
  claimer that is alive; a webhook claim is taken over from a worker that is only slow.
* **Money and things that lapse.** Session, quote and hold each have a clock; the payment is under
  way meanwhile. What is booked must be what was paid for, once, and a captured payment must end as
  a booking or in front of a person.
* **Requests whose answer is lost.** A reservation may have been made, or may still be on its way:
  nothing may be sent twice, and a refusal, whoever hears it, must give the session back.
* **Legal calls in an order nobody wrote a test for.** Override, then cancel; delete, then delete
  again; replay while a conversion is under way.

`PROJECT.json` lists 40 such hazards at their lines, with the properties that cover them.

## 2. The modules

```
abstract                        model                 proofs                    for TLC
DurableDelivery   <--refines--  EventOutbox           EventOutboxProofs         MCEventOutbox
                                OutboxLeases          OutboxLeasesProofs        MCOutboxLeases
SeatLedger        <--refines--  AvailabilityHolds     AvailabilityHoldsProofs   MCAvailabilityHolds
   (SeatLedgerProofs)                                                           MCSeatLedger
                                BookingLifecycle      BookingLifecycleProofs    MCBookingLifecycle
                                BookingSession        BookingSessionProofs      MCBookingSession
                                SupplierOperations    SupplierOperationsProofs  MCSupplierOperations
DurableDelivery   <--refines--  WebhookDelivery       WebhookDeliveryProofs     MCWebhookDelivery
```

The `MC` modules only add the symmetry sets for TLC, where the properties allow any. Definitions headed `\* Mutant:` are not part
of the specification: each is a plausible bug in the definition after it, and the property named in
`PROJECT.json` fails when the definition is replaced by it.

A note on the common modelling of transactions (`AvailabilityHolds`, `BookingLifecycle`): a step is
a statement that takes a row lock or reads something a later statement relies on. What a
transaction writes becomes visible in its last step, which is the commit; statements after the last
lock are merged with it, because nobody else can see or disturb what they touch. A lock that is not
free makes the step wait. `Rollback` is every way of ending without writing: a refusal, a thrown
`BookingServiceError`, a deadlock victim, a lost connection, a dead process.

### DurableDelivery

What the event path promises, without rows or workers. An event is `none`, `owed`, `delivered` or a
`deadLetter`; `handled` is who has handled this capture of it. `Deliver` needs everybody to have
handled it; only a delivered event may be forgotten.

### EventOutbox

`outbox.ts` with the two things that deliver from it. Rows are `status`, `attempts` and `due`;
`job[w][e]` is what worker `w` is doing with event `e`: the handlers still out (`todo`) and the
verdict so far. `handled` is a history variable, and `detached` the handler runs the bus gave up on.

| Action | Code |
|---|---|
| `CaptureInTransaction`, `EmitDurably` | `insertOutboxEvents` (insert, skip a duplicate event id), alone or from `emit`, which owns the delivery if the insert returned a record |
| `HandlerSucceeds`, `HandlerThrows`, `HandlerTimesOut`, `DetachedEnds` | `runHandler`, `runBatch` of `events.ts`: handlers run in parallel; a timed-out one keeps running and may still take effect |
| `SettleSuccess`, `SettleEmitFailure` | `settle` of `emit` |
| `SettleSuccess`, `SettleDrainFailure`, `Announce` | the per-row body of `drainOutbox` with `completeOutboxEvent`, `failOutboxEvent` and the dead-letter announcement |
| `Claim` | `claimDueOutboxEvents`: one statement, `SKIP LOCKED`, counts the attempt, hides the rows |
| `BecomesDue` | `next_attempt_at` passes: the visibility timeout or the backoff runs out |
| `Prune` | `pruneDeliveredOutboxEvents` |
| `Crash`, `LoseSettlement` | a worker dies; a settling statement throws (`emit` swallows it, the drain rejects) |

The clock is one bit per row. A claimed row may become due while its claimer is at work, so every
safety property holds for any ratio of delivery time to visibility timeout. `Prune` waits for runs
to end: retention is fourteen days. `MaxFaults` bounds deaths and lost settlements.

### OutboxLeases

The timing `EventOutbox` leaves out. A claim leases a whole batch; `forEachConcurrent` delivers
`Concurrency` rows of it at a time, each for at most `HandlerTimeout`. `lease` and `elapsed` count
relative to now, so time needs no bound. `Tick` passes only when no free worker could start a row
and no delivery has reached its timeout. Two history variables say which claims outlived their
lease: `age`, the time since a drain's claim, and `overran`, the rows some drain still held when
their lease was over. No relation between lease and batch is assumed. Instead the module says what a short lease costs:
`LeaseRounds` rounds of deliveries fit under a lease, and `Tail` is what they leave of a full batch
(15 of the scheduled job's 50 rows).

### SeatLedger

What the availability code promises about seats, without transactions. A claim (a hold, or a
booking's allocation) is `unused`, `live` or `settled`, at a place, with a size. `GiveBack`,
`Exchange` (give back some, take anew), `HandOver` (a hold's seats become a booking's), `Resize`
and `Recapacitate` are all that may happen to the departures in `counted`. A departure may leave
`counted` (`WriteOff`), and the ledger promises nothing of it from then on.

### AvailabilityHolds

The hold service, the capacity edit, and the capacity half of booking creation and cancellation.
`slot`, `hold` and `booking` are rows; `tx[w]` is the transaction of a connection: the rows and
departures it has locked and those still to be locked. A departure has its status (open, sold out,
closed, cancelled), its `unlimited` flag, its capacity and a `remaining_pax` that may be NULL
(`None`): the hold service's SQL keeps NULL, bookings and edits read it with a default. Locks are taken in the order of the code:

| Transaction | Steps |
|---|---|
| `placeAvailabilityHold` (direct) | `BeginPlace` locks the departure, then looks for the request's hold; `PlaceNew` or `PlaceAgain` (update by id) |
| `placeHold` of a session | `BeginRehold` locks the session and its live holds; `LockSlot` for each departure; `ReholdPlaces` or `ReholdRefused` |
| `extendAvailabilityHold` | `BeginExtend`, `ExtendWrites`: two statements, no transaction |
| `releaseAvailabilityHoldsByToken` | `BeginRelease` locks the holds, `LockSlot`, `ReleaseWrites` |
| `releaseExpiredHolds` | `BeginReap` probes without a lock; `LockSlot` in ascending order and `ReapRows` for each departure; `ReapWrites` |
| `convertProductToBooking` | `BeginBook` locks the token's holds; `LockSlot` for the departures to restore, or for the booked one; `BookFromHold` or `BookAfresh` |
| `cancelBooking`, `updateSlot`, time | `CancelBooking`, `EditCapacity` (capacity, `unlimited` or both in one patch), `EditStatus`, `HoldExpires` |

The code does not keep the seats of every departure. `counted`, a history variable, is the set of
departures of which it never stopped: a departure leaves it when it is made unlimited (its remaining
seats are forgotten, and stay so when it becomes finite again), when it is given fewer seats than it
has given away (`updateSlot` clamps at zero), and when a booking on it is cancelled while the
departure is (`adjustSlotCapacity` gives nothing back to a cancelled departure). Everything said of
seats is said of `counted`; section 5 has all three.

`SessionFlow` says who calls. Booking Sessions hold the session row around every call, and replace
a hold by release and placement. Direct callers of the exported service replay placements and
extend; nothing orders them but the hold service's own locks. The two have different properties.

### BookingLifecycle

One booking with its items and allocations. `booking` is the row (status, total, pax), `item` and
`alloc` the children, `remaining` the departures' seats, `tx` as above; `fence` is the lock on the
booking row, exclusive (`FOR UPDATE`) or the shared one a foreign key takes when an item is
inserted. `Init` is what `convertProductToBooking` leaves. Without a hold every line has an allocation of
its own quantity (`TakesItsOwn`), or of the party's size if it is the only line and counts rooms or
vehicles. With a hold the first line carries all of the hold's seats and the others have no
allocation (`TakesTheHold`), whatever their quantities. Seats and quantities may thus differ from the start, and no
property assumes that they agree.

| Transaction | Steps |
|---|---|
| `cancelBooking`, `completeBooking`, terminal `overrideBookingStatus` | `BeginStatus` (lock the booking, check, read allocations), `LockSlot`, `LockMarked`, `ChangeStatus` |
| `startBooking`, non-terminal override | `StartBooking`, `ForceStatus`: the booking row only |
| travellers added, changed or removed, `updateBooking` | `EditParty`: `bookings.pax` is rewritten, the allocations stay as they are |
| `createItem` | `BeginCreate` (status read without a lock), `InsertItem`, `ReadItems`, `CreateItem` |
| `updateItem` | `BeginUpdate` (item lock, status, old quantity), `LockOwn`, `LockSlot`, `ReadItems`, `UpdateItem` |
| `deleteItem` | `BeginDelete`, `LockOwn`, `LockSiblings`, `LockSlot`, `ReadItems`, `DeleteItem` |

An edit of an item goes by the party it read when it began. `ReadItems` and the closing update are `recomputeBookingTotal`. A unit price is one, so an item's
total is its quantity. Moving an item to another departure is refused by `updateItem` for an
allocated item and is left out, as are snapshots, notes, ledger entries and the FX rollup.

### BookingSession

One session for an owned product, from shopping to its booking. `session`, `quote`, `hold` and
`payment` are rows; `commit[k]` is the shopper's Commit under key `k`, and `settlement[k]` the
delivery of `payment.completed` for the payment that key opened. A commit key owns one payment, so
`Keys` names both.

| Steps | Code |
|---|---|
| `BeginOperation`, then `RenewSession`, `UpdateSession`, `QuoteSession`, `PlaceHold` or `AbandonSession` | the shopper's operations. They hold the session row, but ask about payments in flight on another connection, hence two steps |
| `BeginExpiry`, `ExpireSession` | `expireSession`, from the maintenance sweep or the first call on a lapsed session |
| `Preflight`, `PreflightRefuses` | the first transaction of `commitSession` |
| `Prepare`, `CreatePayment`, `ReusePayment`, `StartPayment` | the payments port: nothing to collect, money already there, a payment to open or to open again; then the claim of the payment by the processor's adapter |
| `CheckSources`, `CommitBooks`, `CommitStops` | `consumeCommittedSources` and `consumeCommit`: read without a lock, then claim each row by the state it must be in |
| `PersistFailure`, `RetireSession` | what a failed Commit tears down |
| `InitiationAnswers`, `PaymentFails`, `PaymentAuthorized`, `PaymentPaid` | the initiation's answer and the processor's callbacks, in any order `canApplyPaymentAdapterStateTransition` lets through |
| `SettlementBegins` (`FindSources`, `RetakeHold`), `SettlementChecks`, `SettlementBooks`, `SettlementBlocked`, `SettlementFails`, `SettlementRefused` | `commitPaidSession` on each delivery: the preflight, the booking's transaction, a row that went, an error, a final refusal |
| `SessionLapses`, `QuoteLapses`, `HoldLapses` | the three clocks |

Revisions are not kept: the shopper's own changes move the revision and supersede the active quotes
at once, so the check of the quote's state is the one that counts. Adopting an anonymous session (`adoptSession`,
which moves the revision and leaves the quotes) is not modelled; the code then refuses a Commit that
the model would allow. `expires_at`
is a bit for each row, and a payment's own deadline is the earliest of its session's, quote's and
hold's. Inventory answers as it likes here; `AvailabilityHolds` says how it does. It may refuse a settlement for good inside the booking's transaction
(`SettlementChecks`, which then ends in `SettlementRefused`), as well as before it. `PaymentPaid` follows any
earlier status, for a payment entered by hand goes from pending to paid at once, and it may
lose the event (`lost`), because it is emitted after the transaction that says paid.

### SupplierOperations

A Commit for sourced inventory. `session` is its row with the number of its current quote; `op[k]`
the durable operation of commit key `k`; `wire` the requests on their way; `upstream` what the
supplier has by idempotency key; `work[w]` a request, either a Commit or an operator's reconciliation.

| Steps | Code |
|---|---|
| `Requote`, `AbandonSession`, `SessionLapses`, `ExpireSession` | what happens to the session meanwhile |
| `BeginCommit`, `ClaimOperation` | preflight, and `createOrReplay` under the session's lock: one blocking operation for a session |
| `Dispatch`, `DispatchUnsupported`, `AdapterAnswers`, `AdapterNotSent`, `AdapterInDoubt` | `dispatch` of the workflow: a queued operation is claimed and sent once; certainty `not_sent` returns it to the queue, any other error leaves it in doubt |
| `ReopenSession`, `MaterializeBooking` | the two ends in `commitSourcedBooking` |
| `Reconcile`, `SupplierObserved`, `GiveBack`, `Stamp` | the operator's `reconcile`: read, ask the supplier, or hand the operation to manual review where the adapter cannot retrieve, save, reopen the session, note the attempt |
| `ResolveOperation` | the operator's `resolve`, one transaction |
| `Receives`, `RequestLost`, `Settles`, `Withdraws`, `WorkerDies` | outside the code: the supplier, the network, the process |

The version column becomes one bit per worker: `fresh` says that nobody has written the record since
the worker read it, and `Save` refuses otherwise. `manually_resolved` is two states, by the upstream
status it carries. That the operator resolves an operation only when nothing of it is on
its way, and as the supplier has it, is an assumption about the person: `resolve` takes the verdict it is given
(`supplier-operations-operator.ts:139-149`). The Commits are the shopper's; a settlement of a paid session
commits the quote it was paid for, superseded or not, and is not modelled here. `LookupByKey` is the adapter's capability of finding a reservation by its idempotency key.

### WebhookDelivery

The attempts for one subscription, under either store. The operators' (`postgres-store.ts`) and the
apps' (`apps/src/webhook-delivery.ts`) implement the same port differently and share no row, so a
behaviour chooses one (`store`) at the start and keeps it.

| Steps | Code |
|---|---|
| `EnqueueLocked` / `EnqueueLook`, `EnqueueInsert` | `enqueueAttempt`: look and insert under an advisory lock / without one |
| `Claim` | `listReadyAttemptIds` and `claimAttempt`: a pending row that is due, or one in flight for longer than a minute |
| `Load`, `Send`, `Finish`, `Count`, `Pause` | `execute`: the subscription, the request, `completeAttempt` or `completeAndEnqueueRetry`, `recordSubscriptionOutcome` and, for an app, the subscription's failure |
| `Deactivate`, `Activate`, `ChangeRetries`, `IssueSigningKey` | edits of the subscription between any two of these, and the signing key of an app, which the host may rotate and the app confirms |
| `WorkerFails`, `Ripen` | a worker dies or its database throws; a retry's time or a claim's minute comes |

`sub.keyed` says that the signing key the host resolves is the one the app has confirmed. Without
it `getSubscription` throws: `Load` then ends the work and leaves the attempt in flight and uncounted,
to be claimed and thrown again. This is no fault and has no bound. `MaxFaults` bounds deaths and failing databases only.
`ripe` is the clock of a row: due if it is pending, timed out if it is in flight. `accepted` is a
history variable, what the endpoint has answered well, which a timeout may hide from the worker. A
test delivery or an operator's replay begins a chain under a key of its own and needs no action
beyond `EnqueueLocked`. An app's retry is inserted with the completion of its attempt, in one
transaction as for operators, but only where no such attempt exists. The operators' store is shown
to implement `DurableDelivery`, the contract of the outbox that feeds it: a delivery is owed until the
endpoint has accepted it or it is a dead letter, and is never owed again afterwards.

## 3. The runs

| Run | Shows | Instance |
|---|---|---|
| `outbox_safety` | at-least-once delivery (`DeliveredMeansHandled`), one owner per capture, claims past the limit are explained, dead letters stay, refinement of `DurableDelivery` | 1 event, 2 subscribers, 2 emits, 2 drains, 2 attempts, 1 fault |
| `outbox_liveness` | every captured event is eventually delivered or dead-lettered | 2 events, 1 subscriber, 1 emit, 1 drain, batches of 1, 1 fault |
| `overdue_batches` | under a lease that is too short, two drains hold a row only if one of them held it beyond its lease, and only the tail of a batch can be such a row | 4 rows, 2 drains, batch 3 at concurrency 2, timeout 2, lease 3, backoff 2 |
| `holds_of_sessions` | seats are conserved, a session holds at most once, sweeps do not deadlock with each other, refinement of `SeatLedger` | an unlimited departure and a finite one of 1 seat that is given 0 or 2, made unlimited and finite, closed, cancelled and reopened; 2 holds, 2 sessions, 2 connections |
| `holds_of_direct_callers` | a replayed request has one hold, the sweep and `placeAvailabilityHold` do not deadlock | 1 departure of 2 seats, 2 holds, 1 token, 2 connections, parties up to 2 |
| `seat_ledger` | the ledger conserves seats and is never oversold | 2 departures, 3 claims, parties up to 2 |
| `booking_lifecycle` | seats conserved, a cancelled booking holds none and its items stay, an update moves the allocation by what it moves the quantity | 2 items up to 2 each, 2 departures of 3, 2 connections, a party of 3 or unknown, a hold of 3 or none |
| `booking_session` | one booking, for what was paid (`BookedTogether`, `BookedAsPaid`); no seats left behind (`HoldsFollowSession`); a settlement keeps the hold it can use; every announced capture is settled or dead-lettered; a lapsed session is retired | 2 quotes at up to 2 amounts, 2 holds, 1 commit key, all three clocks, 2 deliveries |
| `supplier_operations` | at most one reservation for a session, one booking of a confirmed one, verdicts are not overwritten, a refusal gives the session back | 2 commit keys, 2 requests, 2 quotes, lookup by key, 1 death |
| `webhook_delivery` | attempts form a chain, no retry is lost, refinement of `DurableDelivery`, every delivery that can be signed ends | 1 key, 2 producers, 2 workers, 1 retry, threshold 2, 1 fault, both stores |

Two runs end in a counterexample, which section 5 tells:

| Run | The claim that fails | Instance |
|---|---|---|
| `scheduled_job_lease` | `NeverDoubleClaimed` | the job in proportion: 5 rows, 2 drains, batch 5, concurrency 1, timeout 1, lease 4 |
| `supplier_operations_superseded` | `SecuredCanBeBooked` | 1 commit key, 2 requests, 2 quotes, no death |

**Why these bounds.** Every hazard listed needs two actors and one row they share; two connections
(two drains plus two emits, a Commit and a settlement, two requests, two delivery loops) give every
order of two, and a third transaction can come between two steps of one because a connection starts
another when it is done. The outbox rows do not interact except through a drain's batch, so one
event suffices for safety; liveness, where one event could starve another, has two. Two subscribers
let one succeed and the other fail. One fault is the smallest number of deaths with which a row has
to be finished by somebody else; `MaxFaults` and `attempts` are unbounded in the proofs. Two holds of
one session on two departures is the smallest case of a deadlock between sweeps. A finite departure
has one seat in `holds_of_sessions`, so that the last seat is contended, and may be given none or two: fewer
than are claimed, or more. Only that departure is edited (`Edited`), because an edit touches one row and edits
of both multiply the states. `holds_of_direct_callers` has parties of up to two, because a replay changes the
size of a hold. Two items on one departure are the smallest case of a shared claim, and a hold of three seats
is more than either of them may count. In `overdue_batches` three rows at concurrency two need two rounds of two units, and the lease lasts three:
the lease runs out while a part of the batch is under way.

In `booking_session` two quotes make one of them superseded while its payment is captured, two
amounts make them differ, and the second hold is what a settlement retakes when the first is gone.
With one commit key the shopper's retried Commit and the settlement of its payment still race; what
two keys add, two payments for one session (`Competing` in `Prepare`), does not occur in this run,
since two keys with all three clocks are beyond a run of this size. Two deliveries allow one retry
before the dead letter. In `supplier_operations` two keys ask whether a second Commit can get a
second reservation, and two requests are a Commit and whatever overtakes it: another, a
reconciliation, or the operator. In `webhook_delivery` two workers are a claim and its take-over;
one retry has a first, a last and a forbidden attempt; a threshold of two lets one failure count
without pausing; a second key would only add the count two chains share.

**What the runs do not claim, because the code does not keep it.** Seats are claimed of the departures in
`counted`, which says when the code stops telling them; what an edit may do is unrestricted. They are not
claimed for direct callers of the hold service, nor, in `booking_lifecycle`, of bookings whose
completion or cancellation is overridden (`Overrides` is `confirmed` and `in_progress`). An allocation is
not claimed to equal its item's quantity or the booking's party, at any time. `RefusalsReopen`
speaks of behaviours without a death. `ChainIsLinear` and the refinement of `DurableDelivery` are claimed
for the operators' store only, and `SignableDeliveriesEnd` once the attempts can be signed for good.
`SettlementEnds` begins with a delivery in the outbox; a capture whose announcement was lost is
nobody's. Section 5 has the behaviours behind each.

**Deadlock.** TLC's check stays on for the holds, the leases and the ledger. It is off for the
outbox (an event may be a dead letter for good), for bookings (a cancelled booking with no request
under way has nothing left to do), for sessions that are over, for operations that are settled and for
webhooks that are delivered.

**Fairness.**

* `outbox_liveness`: `HandlerReturns` is weakly fair because the bus times every handler out;
  settling and announcing because they follow in the same function; `BecomesDue` because time
  passes. `Claim` of a row is strongly fair: the job runs again and again, and a drain takes due rows
  in `next_attempt_at` order, so a due row is overtaken only by rows that were due before it. The row
  may stop being due in between, when somebody's failure backs it off, hence strong and not weak.
  Emits, deaths and detached runs are owed nothing.
* `booking_session`: the maintenance sweep is scheduled (`booking-session-maintenance-job.ts`), so
  `Sweep` is weakly fair; the sweep takes a limited number of sessions in no order
  (`sessions-drizzle.ts:159`), so this assumes it comes to this one. A transaction that was begun
  ends. `Settle` is weakly fair because the outbox delivers until the handler succeeds or the
  attempts are used up, which is `EventuallySettled`. The shopper and the processor are owed nothing.
* `webhook_delivery`: each loop polls at an interval (`app-webhook-delivery-loop.ts`), requests have
  a timeout, and time passes. Claims are weakly fair for a worker, not for a row. What
  `SignableDeliveriesEnd` needs besides is its hypothesis, that from some point on the app has confirmed
  its signing key or the subscription is off. The fairness alone does not
  suffice: in the model as in the code, an attempt without the key is claimed and thrown for ever (section 5).

No liveness is claimed of supplier operations. Nothing in the code tries a Commit again, and what
ends an operation in doubt is a person.

## 4. The proofs

Every invariant, every action property and every refinement that a passing run checks is also proved,
for all values of the constants, in a module beside the model. The assumptions are the
named `ASSUME`s of the modules, which TLC evaluates in the runs, and the hypotheses in the table, which the
code does not guarantee by itself and section 5 explains.
`NothingUnhandledIsForgotten` is proved only: retention forgets nothing a subscriber has yet to handle.

| Module | Theorems | Hypotheses |
|---|---|---|
| `EventOutboxProofs` | `TypeCorrect`, `DeliveredIsHandled`, `CaptureHasOneOwner`, `OverrunsAreExplained`, `NothingUnhandledIsForgotten`, `Refinement` | |
| `OutboxLeasesProofs` | `TypeCorrect`, `OnlyOverdue`, `OverdueTail` | (none: the scheduled job's numbers are covered) |
| `SeatLedgerProofs` | `LedgerTypeCorrect`, `SeatsAreConserved`, `NothingIsOversold` | |
| `AvailabilityHoldsProofs` | `TypeCorrect`, `OneHoldForARequest`, `SweepsDoNotDeadlock`, `SweepsSparePlacements` | |
| | `OneHoldForASession`, `Refinement`, `NoSeatMintedOrLost` | `SessionFlow`: callers hold the session row |
| `BookingLifecycleProofs` | `TypeCorrect`, `SeatsAddUp`, `CancelledClaimsNothing`, `EditsKeepTogether` | `CompletedIsFinal`: operators do not override completed bookings |
| | `CancelledItemsAreKept` | `OutcomesAreFinal`: nor cancelled ones |
| `BookingSessionProofs` | `TypeCorrect`, `OneBookingTogether`, `PaidForWhatIsBooked`, `OneHoldWhileActive`, `SettlementsSpareTheirHold` | |
| `SupplierOperationsProofs` | `TypeCorrect`, `OneReservationHeld`, `BookingsAreSecured`, `VerdictsAreFinal`, `RefusalsAreReopened` | |
| `WebhookDeliveryProofs` | `TypeCorrect`, `RetriesAreEnqueued`, `AttemptsAreAChain`, `Refinement` | (the last two speak of the operators' store) |

The runs meet the hypotheses (`SessionFlow` in `holds_of_sessions`, `Overrides` in
`booking_lifecycle`). What capacities, statuses and `unlimited` an operator gives a departure, how long a lease
is, and which party, hold and quantities a booking starts with are arbitrary in the proofs. Each proof is an invariant `IInv`, a lemma
that it holds initially, one lemma for each action, and a theorem for each property it implies. What
`IInv` adds to the properties, and why:

* **`EventOutboxProofs`.** The step that marks a row delivered knows only that its own delivery saw no
  failure. `VerdictsAreEarned`: as long as a delivery has seen no failure, every handler that is no longer
  out has handled this capture. `RunsHaveRows`: a run belongs to a row that exists, so a new
  capture, which clears `handled`, cannot meet an old run, and an emit that gets to deliver found nobody
  at work. `OverrunIsExplained` is inductive with `TypeOK` and counts the drains at work on a row; it is
  the one theorem that needs `DrainsAssumption`, that the drains are finitely many. The refinement maps
  each action to one step of the contract or to a stutter under `phase = PhaseOf[status]`.
* **`OutboxLeasesProofs`.** `LeasesRun`: a row a drain holds is hidden for what is left of the lease it was
  claimed under, unless it has been overdue before; so a second drain finds only overdue rows due, which is `OnlyOverdue`.
  `OverdueTail` is an argument of list scheduling. `OnSchedule`: once a batch is older than `k` timeouts at most
  `BatchSize - (k + 1) * Concurrency` of the rows it holds began later than `k` timeouts after the claim,
  because no worker idles while a row waits. With `k` one less than `LeaseRounds`, all but the `Tail` are over when the
  lease is (`TailOfSchedule`). `StartedOnce` and `FreshRows` say
  that a row waits or runs and that its clock starts with it. `EventsAssumption` says that the rows are finitely many.
* **`SeatLedgerProofs`.** `LedgerTypeOK /\ Conserved /\ NeverOversold` is inductive. The seats of a set of
  claims are the cardinality of a set of (claim, seat) pairs rather than a recursive sum; `SeatsAdd`,
  `SeatsOfOne`, `SeatsFrame` and `Regrouped` are then facts about finite sets.
* **`AvailabilityHoldsProofs`.** `Good` says of each transaction what its locks let it rely on: the holds
  it locked are live (`RowsAreLive`); a placement that has its departure knows whether its request has a
  hold there (`PlaceKnows`); a sweep's departures ascend (`SweepsUpwards`); a request of a session knows all of
  the session's live holds (`SessionKnows`). `Apart` is the exclusion of locks. The deadlock theorems come from the least departure
  two sweeps wait for. The refinement maps a hold or a booking to a claim; each commit is shown to be
  one `Exchange`, `HandOver`, `Resize`, `Recapacitate` or `WriteOff`, with `SeatLedger`'s own invariant
  for the sums, and `NoSeatMintedOrLost` is then the ledger's theorem read back. A counted departure has a number for its remaining
  seats (`SlotsTyped`), and by `LedgerBalance` it has given away exactly what `updateSlot` computes from its row
  (`Consumed`), so an edit that covers this is a `Recapacitate` and every other one writes the departure off.
* **`BookingLifecycleProofs`.** `Knows`: a change of status has the booking row to itself, so its transition and
  the seats it read stay right; an edit has its item's row, and once it moves seats the allocation's. No allocation is larger than its
  departure, because the seats add up, so moving a claim to a sibling keeps the types. `Alike`: a cancellation or completion marks all
  allocations or none. `NoneFulfilled`, where completed bookings are final: a live booking has no fulfilled
  allocation, so a cancellation marks all it gives back. `Kept`, where cancelled ones are too: the
  items of a live booking are confirmed, so a cancellation waits for every edit's item lock. `Sum` and its
  lemmas (`SumAdd`, `SumSplit`, `SumMonotone`) are facts about sets of pairs, as in the ledger. `EditsKeepTogether` follows from
  what an update knows: its item's quantity is the one it read, so both differences are taken from the same number.
* **`BookingSessionProofs`.** A Commit and a settlement carry what they read from one transaction to the next.
  `Rests` and `RestsOn` say what that rests on: a hold of the quote, a payment of the quote's amount. It lasts
  because a quote's amount, a hold's quote and a payment's amount and quote never change once the
  row is there (`QuotesGoOn`, `HoldsGoOn`, `PaymentsGoOn`). `AllOrNothing` is `BookedTogether` before and after
  there is a booking; `RowIsLocked` is what the session lock keeps between two steps of an operation.
* **`SupplierOperationsProofs`.** `StatesMatchSupplier`: an operation that was not sent is unknown to the supplier, a
  failed one is not held there and not on its way, a secured one was confirmed. `FreshMeansUnchanged`: a worker whose copy is fresh knows
  how far the operation has come, which is all that the version column gives. `OneBlocks` is the partial unique index on a session's operations.
  `RefusalsAreReopened` needs `FrozenIsAttended` on top: a frozen session has an operation that blocks it, or a request
  that is about to reopen it, or a process died. Whoever brings a refusal (`EndingReopens`) is such a request.
* **`WebhookDeliveryProofs`.** `LastIsOpen` and `NothingSkipped`: with the advisory lock and the check of `in_flight`, the
  attempts of a key have different numbers, without gaps, and all but the last failed. `FirstsAreFew` and `OneRetryEach` bound the
  rows, so the model's finite table is never full. `SuccessIsEarned`: a success is recorded only of what the endpoint accepted.

Only model-checked: liveness (`EventuallySettled`, `SettlementEnds`, `LapsedSessionRetires`,
`SignableDeliveriesEnd`), which needs fairness and ENABLED, and the proof system reasons
about neither; and the counterexamples of section 5. Nothing here needs induction over data: sums are cardinalities, and
a largest or least number of a finite set is found by the pigeonhole principle.

## 5. Where code and documentation part

Two are runs that end in a counterexample:

* **`scheduled_job_lease`** (`db/src/outbox-job.ts:19`). The job claims 50 rows and delivers five at a
  time, each up to 15 s: ten rounds, 150 s, against a lease of 120 s (`db/src/outbox.ts:345`). A second
  drain claims the tail of a slow batch while the first still has it; the comment at
  `outbox.ts:235` says that concurrent drains "never double-claim". `overdue_batches` and the theorems say what
  is left of that: only overdue rows are held twice, at most 15 of the 50.
* **`supplier_operations_superseded`** (`catalog/src/booking-engine/sessions-production.ts:447`).
  Between the preflight of a Commit and the transaction that claims its operation the session is
  still active, so the shopper may quote again; the claim checks the session's state only, and
  freezes it. The supplier confirms; the booking's transaction refuses the superseded quote for
  good, and every later Commit of the shopper conflicts with the operation. Resolve and abandon refuse a succeeded
  operation; reconcile asks the supplier about it once more, hears the same and changes nothing. `docs/architecture/catalog-booking-engine.md:209` says a secured result
  materializes one confirmed Booking. A settlement of a captured payment, which commits the quote it
  was paid for, is not modelled (section 6); where there is none, nobody has a call left that books.

The others were met while modelling. The models contain the steps; the properties are stated so as
not to claim what the code does not do.

Outbox:

* Attempts pass `max_attempts` when a drain dies (`outbox.ts:249` counts at the claim and never asks;
  `schema/infra/event_outbox.ts:28`). `OverrunIsExplained` states how far.
* A settlement does not look at the status it overwrites (`outbox.ts:219`): a dead letter may become
  delivered, and a delivered row a dead letter, by a late claimer.
* A dead letter made by a failing `emit` is not announced (`events.ts:508`; `outbox-events.ts:9`).

Holds and departures:

* `adjustSlotCapacity` gives nothing back to a cancelled departure, since "A cancelled departure is terminal"
  (`bookings/src/service-core.ts:1424`). `updateSlot` lets an operator open it again, and the seats of the
  bookings cancelled meanwhile are missing for good, which is the leak that `releaseAllocationCapacity` says it
  prevents (line 1786). `SeatsConserved` keeps the books of that departure only until then.
* The sweep takes a departure before its holds because "a checkout placing a hold on the same slot while this
  runs deadlocks" otherwise (`operations/src/availability/service-holds.ts:277-280`). That spares callers of
  `placeAvailabilityHold` (`SweepSparesPlacement`, proved). The repository's own checkout is a Booking Session,
  which locks the hold it replaces first (line 217) and the departure after, and does deadlock with the sweep.
  Postgres aborts one of the two; seats stay balanced.
* A conversion locks the hold but not the departure (`bookings/src/service-core.ts:1498`); a replayed
  placement locks the departure but reads the hold without a lock and updates it by id. With a
  conversion in between, the departure pays for a size the booking does not have.
  `service-holds.ts:9` says every operation locks the departure. Sessions are safe: their row orders
  the two.
* `extendAvailabilityHold` answers ok for a hold the sweep released between its two statements
  (`service-holds.ts:199`).
* The departures of several holds are locked in no order by a session that replaces them
  (`service-holds.ts:217`) and by `cancelBooking` (`bookings/src/service-core.ts:3306`), in ascending order by the sweep. Postgres aborts
  one of two.
* `updateSlot` clamps the rebalance at zero (`availability/service-core.ts:321`): a capacity
  lowered below what is claimed and raised again offers seats somebody has. Making a departure unlimited
  sets `remaining_pax` to NULL, and making it finite again, with a capacity or without, starts from that: with one,
  as if nothing had been taken; without one, with a NULL that every reader takes for zero.
* The hold service moves `remaining_pax` without the status, while the storefront lists only open
  departures (`operations/src/catalog-runtime-extension.ts:29`).

Bookings:

* Where no party is recorded, deleting one of three lines on a departure gathers the seats of the others on
  one of them (`bookings/src/service-core.ts:4790`). A later update moves that allocation by the change of
  quantity (`EditsMoveTogether`), and the two differ, against the comment at line 4509.
* Completed, overridden to confirmed, cancelled (`bookings/src/service-core.ts:3314`): the seats of a
  fulfilled allocation are given back, but only held and confirmed allocations are marked, so a later
  terminal override gives them back again.
* A conversion with a hold puts the hold's seats on the first line and none on the others
  (`bookings/src/service-core.ts:2964`). Deleting that line where no party is recorded gives up the seats of
  all, since what the siblings need is read from their own allocations and they have none.
* Adding, changing or removing travellers rewrites `bookings.pax` (lines 717-737), and `updateBooking` may write it; the
  allocations that claim the party's seats stay as they are (`EditParty`). A booking may so claim more seats
  than its party, or fewer, until an item is edited.
* The total is summed before the booking row is touched (`service-core.ts:4361`); two item edits
  overwrite each other's.
* `createItem` reads the status without a lock (`service-core.ts:4431`), so an item can be added to a
  booking that has just been cancelled.

Booking Sessions:

* A settlement that found or retook a hold reads it again inside the booking's transaction. If it
  lapsed or was released in between, the `hold_failure` is taken for final and the delivery is
  dead-lettered (`sessions-service.ts:3081`), though the next attempt would ask inventory again.
  `catalog-booking-engine.md:318` says only inventory may strand a payment.
* A retried Commit is not stopped by a payment in flight, and its refusal releases the hold the
  shopper is being charged for (`sessions-service.ts:1624`).
* Whether another payment is live is read before this one is created and started
  (`sessions-payment-production.ts:247`), and an embedded checkout stays `pending`: two tabs can open
  two checkouts for different amounts. Only one of them is booked, for its own amount.
* `payment.completed` is emitted after the transaction that says paid
  (`service-payment-session-completion.ts:472`): a death in between loses the settlement.

Supplier operations:

* Reconciling an operation that is merely `submitted` asks nobody, but notes the attempt, which is a
  new version (`supplier-operations-operator.ts:102`): the dispatch's answer is then refused as
  stale, and the operation stays `submitted` until a person resolves it.
* Reconciling an operation that is still `queued` looks it up, finds nothing and leaves it in doubt,
  although it was never sent.

Webhooks:

* While the signing key the host resolves is not the one an app has confirmed, `getSubscription` throws after
  the attempt was claimed (`apps/src/webhook-delivery.ts:379`). Nothing is completed or counted; after a minute
  the attempt is claimed again and throws again, without bound and without a dead letter.
  `webhook-delivery/README.md:5` promises "bounded retries, terminal dead-letter state";
  `SignableDeliveriesEnd` says which deliveries have that.
* Such an attempt also stands in the way of others. The loop takes the row due first, one at a
  time, and a throw ends the drain until the next poll (`webhook-delivery/src/worker.ts:66`); with about as many such
  rows as there are polls in a claim's minute, the deliveries of every other subscription wait behind them. And
  the subscriptions of an event are listed together (`apps/src/webhook-delivery.ts:48`): one app without the confirmed key makes the
  listing throw, and the event is enqueued for none of them until the outbox tries again or gives up.
* The store of apps looks for an attempt and inserts it without the advisory lock
  (`apps/src/webhook-delivery.ts:57`), so one event may begin two chains, and it completes an attempt
  whatever its status (line 127), so a worker that lost its claim may turn a success into a failure
  and send again what was accepted.
* An app's subscription is paused in a statement after the count
  (`apps/src/webhook-delivery.ts:163`): a signing key confirmed in between is paused all the same.

## 6. What is not modelled

In the modelled parts: the read side, formatting, activity logs, notes, action-ledger entries and
event payloads; the outbox's counters (read only); `updateSlot`'s timing fields and revision
precondition, slot creation and deletion; travelers, documents and fulfilments of a booking, product
loading and pricing at conversion, the FX rollup. A booking of `BookingLifecycle` starts as
conversion leaves it; the conversion itself, from the departure's side, is in `AvailabilityHolds`.
Departures are open or sold out in `BookingLifecycle` and keep their capacity; `AvailabilityHolds` has the closed and
cancelled ones and the edits. So `SeatsConserved` of `BookingLifecycle` is not about a departure that is
cancelled or edited: there a cancelled booking's seats are lost (section 5). Of a capacity
patch, a null `initialPax` is left out. `OutboxLeases` has no dead letters: a row that fails comes
back after its backoff.

Of a Booking Session: access control, request fingerprints and the replay of the smaller operations,
trips (`component_pending`), the purge of sessions that are over, and what happens to money
after it was booked or stranded (captures, refunds, invoices), and the adoption of an anonymous session by a customer. Of supplier operations: a
settlement that books sourced inventory, which loads the quote that was paid for even if it is superseded
(`sessions-service.ts:2347`); amendments
(modify and cancel an existing reservation), which go through the same record, and the payment,
which `BookingSession` has. Of webhooks: signing, redirects and payload checks, and the deletion of a
subscription, which is as good as switching it off. One subscription is modelled, and a loop claims its rows
in any order, so what one subscription does to another (section 5) is out of the model. The worker's refusal of a row
without an event id (`webhook-delivery/src/worker.ts:479`) is too: every path that enqueues requires one.

Whole components: those of section 1 that section 2 does not name, and the packages listed in
`PROJECT.json` with their reasons: CRUD with one statement per change, pure evaluation over large
data, derived data that is rebuilt from events, build-time composition, user interface.


## 7. The plan

Done: the outbox with its contract and its timing; the holds with the seat ledger; the booking
lifecycle; Booking Sessions with their payments and settlements; supplier operations; webhook
delivery against the same contract as the outbox; proofs of every safety property and of every
refinement the runs check.

To state and prove: seat conservation for direct callers of the hold service, which needs the
conversions that lose seats told apart first; seat conservation of `BookingLifecycle` on departures that are
cancelled and edited, with `counted` as in `AvailabilityHolds`; the settlement of a paid session over
`SupplierOperations`; and two subscriptions of `WebhookDelivery` under one loop.

To model, in this order:

1. **NotificationSend.** The durable send of `notifications/src/service-durable-send.ts`: leased claims
   whose row equality is the fence, a provider idempotency key, retry and dead letter in the outbox.
   To state: one provider message per delivery; a `processing` row whose lease ran out is claimed
   again with no look at its attempts.
2. **PublicationIntents.** The worker of `distribution/src/publication-intent-worker.ts`: the lease
   owner as fence, a checkpoint cursor, attempts counted at failure only, a late reindex.
3. **HoldExpiryWake.** Timers in memory, restarts, the schedule; composed with the holds: an
   expired hold is eventually swept.
4. **IdempotencyKey, ExecutionLocks**: look-up, handler, insert; leases and their holders.
5. **Promotion scheduler** (the watermark moves after the events,
   `commerce/src/promotions/service-boundary-scheduler.ts:158`) and **Trips**: compensation over
   several components.
6. **RefundSaga**: two sagas and a cancellation over one booking, seats released after an unlocked
   read, compensations in reverse. **WriteIntents** with `EventOutbox`: settlement against expiry
   (`db/src/write-intents.ts:115`). They come last because the entry points of both, `buildRefundBookingSaga`
   and `enqueueWriteIntent`, are exported and tested but called by nothing else in the repository.
