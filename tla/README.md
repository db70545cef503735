# OrderHub: TLA+ models of the order path

OrderHub takes restaurant and shop orders from marketplaces, its own storefronts, tables and a
counter, moves each through a status machine, tells the rest of the system through a
transactional outbox, prints its tickets, takes the money, splits bills, sends drivers and books
couriers. This directory models the parts of that path where processes, crons, agents, webhooks
and people write the same rows at the same time. TLC checks the models on small instances; TLAPS
proves every safety property they check for every value of the constants.

Paths below are relative to `src/apps/api/src/modules/` unless they start with `src/`.

1. [Inventory](#1-inventory) · 2. [Plan](#2-plan) · 3. [Modules and the code](#3-modules-and-the-code) ·
4. [Runs](#4-runs) · 5. [Fairness](#5-fairness) · 6. [Proofs](#6-proofs) ·
7. [Where code and documents disagree](#7-where-code-and-documents-disagree) ·
8. [Properties that need their assumptions](#8-properties-that-need-their-assumptions) ·
9. [What is left out](#9-what-is-left-out)

To run one: `tlc -config outbox_many.cfg MCOutbox.tla`, `tlapm OutboxProofs.tla`.

## 1. Inventory

`PROJECT.json` lists every component with its source files. The ones that hold the program's own
protocols:

| Component | State it keeps | Operations | Talks to | Modelled |
|---|---|---|---|---|
| Order status machine (`orders/order-state-machine.ts`, `src/packages/shared/src/types/order-status-rank.ts`) | none | which status may follow which, for staff, system and webhooks | every writer of a status | `OrderStatus` |
| Orders service (`orders/orders.service.ts`, `orders/orders-auto-complete.cron.ts`) | `Order` (status, updatedAt, paymentStatus), `OrderStatusHistory` | ingest, create, updateStatus, automatic acceptance, retail completion, marketplace resync, closing a tab, the 5am rollover | outbox (same transaction), payments and dispatch (fire and forget), marketplaces (webhooks in) | `OrderLifecycle` |
| Transactional outbox (`outbox/`) | `OutboxEvent` rows, a `running` flag per process | recover stuck rows, claim due rows, enqueue, mark | Bull queue in Redis, deduplicated by jobId | `Outbox`, `EventDelivery` |
| Print jobs (`printers/`, `src/apps/print-bridge/`) | `PrintJob` rows; each agent's SQLite outbox | claim, start, complete, fail, retry, release stale claims, clear queue, print directly from the API, mark printed by a tablet | agents over HTTP, printers over TCP | `PrintJobs` |
| Card payments (`payments/payments.service.ts`) | `Payment`, `Refund`, ledger rows, `Order.paymentStatus` | authorise, capture on accept, release or refund on abort, refund in part, Stripe's webhooks, polling | orders, Stripe | `CardPayment` |
| Split bills (`orders.service.ts` addPayment, `payments/terminal.service.ts`) | `Payment` rows of a tab, table status | take a part in cash or on a reader, settle it by poll or webhook, close the tab | orders, tables, Stripe | `SplitBill` |
| Driver dispatch (`dispatch/`, `driver-app/`) | `DeliveryAssignment`, driver presences | assign, unassign, the driver's six actions, settlement when an order ends, sweep, shifts | orders | `DriverDispatch` |
| Auto-dispatch (`auto-dispatch/`, `integrations/stuart/`) | `AutoDispatchRun` rows, the wallet's dispatch fees | reclaim, schedule, claim, try providers in turn, retry, give up | courier APIs, wallet, orders | `AutoDispatch` |
| Order worker (`src/apps/worker/`) | Bull jobs | create print jobs and kitchen tickets, push statuses to marketplaces | outbox's queue, print jobs, KDS | no |
| Sessions (`auth/services/token.service.ts`) | refresh-token chains | rotate with a grace minute, detect reuse, revoke | — | no |
| Kitchen display (`kds/`) | tickets | fire, bump | worker, orders | no |

Everything else (menus, marketing, voice agents, billing, dashboards, the mobile and desktop
applications) reads that state, calls these operations, or is CRUD and calls to foreign services.

**What is hard.** No component holds a lock across its database calls. A handler reads a row,
awaits, and writes, and the same row is written meanwhile by staff, webhooks, crons and its own
creation. Three styles of write coexist: under an optimistic check on `updatedAt`
(`updateStatus`), conditional on the status (`claim`, server-direct, retail completion, the run of
auto-dispatch), and by id alone (resync, tab, rollover, markAuthorized, assignToDriver,
reclaimStale, every handler of an agent's report). Crons run in every API process, some with
ticks that overlap. Agents, Redis, the database, Stripe and courier APIs fail independently; a
call that throws may have been done, a webhook comes late, twice or never, and a report whose
answer is lost is replayed.

**What makes each component correct.** A finished order stays finished; a transition is committed
only against the status it was checked on; the history explains the status. An event is enqueued
before it counts as sent, and is not forgotten. A ticket comes out once; a row that says PRINTED
has paper; no crash strands a job. Our rows say nothing of a customer's money that is not true at
Stripe; an accepted order's money is taken and a rejected one's goes back. A bill is PAID when
and only when the parts taken cover it, and no table is overcharged. Order, stop and driver's
presence agree, and no driver with a stop to make is called free. One courier is booked per
order, and paid for once.

`PROJECT.json` lists forty hazards at their lines, each with the properties that cover it and, where
they cover it only in part, what they leave out.

## 2. Plan

| | Module | State |
|---|---|---|
| 1 | `OrderStatus`, `OrderLifecycle`: who may write a status, and how the writers interleave | built, safety proved |
|   | `OrderMachine`: one checked transition at a time, which the guarded writers of `OrderLifecycle` implement | built, refinement checked and proved |
| 2 | `Outbox`: claim, crash, recovery, deduplication | built, safety proved |
| 3 | `EventDelivery`: at-least-once delivery, which `Outbox` implements | built, refinement checked and proved |
| 4 | `PrintJobs`: claims, reports, replays, three kinds of printer | built, safety proved |
|   | `TicketDelivery`: a ticket comes out, counts as printed, or is given up, which `PrintJobs` implements | built, refinement checked and proved |
| 5 | `CardPayment`: capture, release and refund against Stripe's webhooks in any order | built, safety proved |
| 6 | `SplitBill`: parts of a bill from several tablets and readers | built, safety proved |
| 7 | `DriverDispatch`: assignments, the driver's actions and the settlement against the order's status | built, safety proved |
| 8 | `AutoDispatch`: the run of an order through ticks, retries and providers | built, safety proved |
| 9 | `OrderPayment` = `OrderLifecycle` × `CardPayment` | open: `CardPayment` carries the part of the order's status that its handlers look at (`order`, `accepted`, `spawned`), so what the product would add is the optimistic check, at a state space TLC does not finish |
| 10 | `TokenRotation`: grace minute, reuse detection, revocation of a chain | open |
| 11 | `OrderWorker`: from an outbox job to print rows | open: a retried job prints again (section 7), and the rest of the worker is calls of foreign APIs |

What could still be stated: *one courier per order* as an abstract specification of `AutoDispatch`.

## 3. Modules and the code

Two conventions run through the modules. A handler under way is a record (`req[r]`, `hand[i]`,
`work[w]`) that holds where it is and what it has read; each database statement and each call to a
foreign service is one action, so every `await` is an interleaving point, and `Crash` may end a
handler at any of them. Faults are named; `faults` is a record of how many happened (`n`, bounded by
`MaxFaults`) and of which kinds, so that a property can say under which of them it is claimed,
while the run still contains the others. Where a fault is nothing but an unlucky interleaving
(`late` in `SplitBill` and `AutoDispatch`), it is noted in `kinds` and not counted.

### OrderStatus, OrderMachine, OrderLifecycle, MCOrderLifecycle

`OrderStatus` holds the whitelist, the rank and the two checks as operators: `AssertTransition` for
staff and system, `AssertWebhookTransition` for pushes of couriers and marketplaces.
Rows of `OrderLifecycle` are functions over `Orders` (`status`, `updatedAt`, `paid`, `trail`);
`req[r]` has the order, the status it wants (`to`), and the status and updatedAt it read (`seen`,
`ver`).

| Code | Actions |
|---|---|
| `updateStatus` (2635) | `UpdateStatusRead`, `UpdateStatusCommit` or `UpdateStatusConflict` |
| `create` (1384–1467), `setPaymentStatus` (3075) | `CreateFollowUp`, `SetPaymentStatus` |
| `maybeAutoAccept` (433) → updateStatus | `AutoAcceptCheck`, `AutoAcceptLoad`, `UpdateStatusCommit` |
| `maybeCompleteRetailSale` (2991) | `RetailRead`, `RetailWrite`, `RetailAudit` |
| `resyncMarketplaceItems` (1035) | `ResyncRead`, `ResyncWrite` |
| `completeAndFreeTable` (2544) | `TabRead`, `TabWrite`, `TabAudit` |
| the rollover cron | `GoQuiet`, `RolloverRead`, `RolloverWrite` |
| editOrder, courier fields, loyalty, … | `Touch` |
| the process dies | `Crash` |

`updatedAt` is a counter: two writes of one row are assumed to stamp different values (in the code
they are milliseconds). `RolloverWrite` is raw SQL and stamps nothing; that is what makes it
different. `channel` fixes which handlers see an order. `Handlers` chooses the writers of a
configuration, so that a property can be asked of the guarded ones alone.

`OrderMachine` is what those promise: a status changes by one permitted step, with its history row;
the sale over the counter is the exception, complete in one step and noted in a later one, or never.
`OrderLifecycle` implements it (`FollowsTheMachine`) with its own `channel`, `status` and `trail`:
requests, versions and everything a handler has read are left out of the picture. A commit is a
`Move` only if the status it overwrites still permits it, which is what the check on `updatedAt` is
for.

### Outbox, EventDelivery, MCOutbox

Rows are numbered by `createdAt`. `hand[i][e]` is what dispatcher `i` does next with a row it has
claimed, `found[i]` the stuck rows it has read, `read[i]` the attempts it read: the code decides
between FAILED and DEAD on that copy, while the increment happens in the database. `job` is Bull's
memory of a jobId, and `created[e]` counts the jobs that really came to exist for an event.

| Code | Actions |
|---|---|
| the transaction that changes the order | `Commit` |
| `dispatch`, `recoverStuckProcessing` | `Tick`, `RecoverOne`, `RecoverThrows` |
| `processBatch` | `Claim`, `EndTick` |
| `processOne`, `dispatch_event` | `Add`, `AddThrows`, `Mark`, `MarkThrows`, `Fail`, `FailThrows` |
| time | `FallDue`, `GoStale` |
| Bull | `JobDone`, `Evict` |

`SELECT … FOR UPDATE` in the recovery runs outside a transaction, so its locks end with the
statement: `Tick` reads and `RecoverOne` writes later, row by row. `EventDelivery` is what the outbox
promises: an event is owed from its commit until it is sent or given up, once, and jobs are made for
it only meanwhile. The map: `Standing` takes PENDING, PROCESSING and FAILED to *owed*, PROCESSED to
*sent*, DEAD to *given up*; `created` is the abstract `jobs`.

### PrintJobs, TicketDelivery, MCPrintJobs

`status`, `claimedBy`, `held` (claimedAt is set) and `attempts` are the row; `paper[j]` counts the
times a ticket came out of a printer, which no table records. An agent's report is a record in
`calls`, handled in two steps because `requireClaimedBy` reads and the handler then writes by id;
a call whose connection broke may still be under way. `owed[a]` is the agent's SQLite outbox.
`tick` holds runs of the server-direct cron, which starts every two seconds with nothing to keep
two runs apart.

| Code | Actions |
|---|---|
| `Agent.drain`, `handle`, `complete`, `fail` | `AgentClaim`, `AgentStart`, `AgentPrint`, `AgentPrintThrows` |
| `flushOutbox` | `Flush` |
| `markStarted`, `markPrinted`, `markFailed` | `Authorise`, `Handle` |
| a broken connection | `Disconnect`, and the second disjunct of `AgentClaim` |
| `ServerDirectPrintCron.drainOnce` | `DirectRead`, `DirectClaim`, `DirectPrint`, `DirectPrintThrows`, `DirectMark`, `DirectMarkThrows`, `DirectRetry` |
| housekeeping every 30 s | `PromoteRetry`, `ReleaseStale` |
| `clearQueue` | `ClearQueue` |
| `printToAll` (the tablet), `markOrderPrinted` | `TabletPrint`, `MarkOrderRead`, `MarkOrderWrite` |
| a process dies | `AgentCrash`, `DirectCrash` |

`Orders` says which jobs are of one order, since the tablet knows orders and no rows: it prints an
order from its own feed on the printers it drives itself (`TabletPrint`, with any set of the order's
jobs as those whose ticket is then out, the empty one included), and reports the order as soon as one
of them worked. `markOrderPrinted` then reads every pending job of the order, whichever printer it is
for, and marks each PRINTED by id (`tablet[o].todo`).

A failed send is taken to have printed nothing unless the fault is `torn`. A job's copies are one
piece of paper. The agent's answer to a job for a printer it does not know (`handle`, first lines)
is left out: it claims only for the printers it knows.

`TicketDelivery` is what the kitchen is promised: a ticket that is owed comes out, is confirmed once
it did, or is given up while it did not; afterwards nothing happens to it. The map: `Standing` takes
PRINTED to *printed*, FAILED to *dead* and every other status to *owed*; `paper` is itself;
`disturbed` is that a fault other than a refused send has happened, after which a ticket may come
out twice.

### CardPayment, MCCardPayment

One order's card payment. `capture`, `pi` and `returned` are the truth at Stripe; `pay`, `linked`,
`booked`, `ledger` and `owed` are our rows; `order`, `accepted` and `spawned` what the order's status
changes contribute: updateStatus calls captureForOrder or refundForOrder without waiting, so the
call is one more thing that starts some time later. `events` are webhooks under way.

| Code (`payments/payments.service.ts`) | Actions |
|---|---|
| `updateStatus` (orders.service.ts) | `UpdateStatus`, `StartSpawned` |
| `captureForOrder` (2279) | `CaptureRead`, `CaptureLookup`, `Charge`, `ChargedRow`, `ChargedOrder` |
| `refundForOrder` (2457), `cancelAuthForOrder` (2404) | `RefundRead`, `Ask`, `Return`, `ReturnedRow`, `ReturnedOrder`, `Release`, `Void` |
| `createRefund` (649) | `StartPart`, `Part`, `Book` |
| `runEventHandlers`, `dispatchStripeEvent` | `Deliver`, `Find` |
| `confirmPayment` | `Confirm`, `Land`, `Ledger` |
| `markAuthorized` (2701) | `Authorise`, `Announce` |
| `markCancelled`, `markRefunded`, payment_failed | `MarkCancelled`, `MarkRefunded`, `PaymentFailed` |
| `reconcileOrderPayment` | `StartPoll`, `Poll` |
| Stripe and the customer (external) | `Pays`, `Declined`, `HoldExpires`, `EventLost` |

A call to Stripe has three outcomes: done, refused (Stripe's own rule, such as a capture of what is
not held), and thrown, done or not (the fault `stripe`). The webhook endpoint answers before it
handles, and turns a second delivery away only once the first is through: that is `duplicate`.

### SplitBill, MCSplitBill

`kind`, `amount` and `row` are the parts' Payment rows, `stored` and `latest` what findPaymentForPi
goes by, `intent` the PaymentIntents at Stripe. `overlap` remembers that a part was begun while
another was under way, since what is owed is computed from settled rows only. What parts come to
(`AmountOf`) is counted unit by unit, as the size of a set, which is the form the proofs need.

The till polls from the moment the charge has returned (`Charged`) and stops for good once it is told
paid, declined or cancelled, or when its modal is closed. The model does not follow where it stopped:
a poll may come at any time, and settles only what Stripe says was taken, as `status` does without a
look at the row; and none need ever come.

| Code | Actions |
|---|---|
| `addPayment` (orders.service.ts 2423), `paymentSummary` | `AddPayment`, `Create`, `SumAfter`, `MarkPaid`; `Banked` |
| `completeAndFreeTable` | `FreeTable` |
| `chargeOrder` (terminal.service.ts 565) | `ChargeOrder` or `ChargeWhole`, `Present`, `Record` |
| `startCharge` (charge-reader-modal.tsx), `status` | `Charged`, `Poll` |
| `dispatchStripeEvent`, `findPaymentForPi` | `DeliverSucceeded`, `DeliverFailed`, `Find` |
| `settleCardPresentPayment`, `settleSplitPart` | `Bank`, `CheckCovered` |
| the customer at the reader (external) | `Tap`, `Decline` |

### DriverDispatch, MCDriverDispatch

Three rows that must agree: `order`, `stop` (the DeliveryAssignment, with its driver) and
`presence`. Each operation writes them in statements of its own, in the order the code does.

| Code | Actions |
|---|---|
| `assignToDriver` (dispatch.service.ts 882) | `AssignToDriver`, `AssignRun`, `AssignBusy` |
| `unassign` (1019) | `Unassign`, `UnassignCheck`, `UnassignCount`, `WritePresence` |
| `jobAction` (driver-app.service.ts 553) | `JobAction`, `WriteStop`, `WriteOrder`, `WritePresence` |
| an order ends otherwise; marketplaces and staff move it | `Close`, `Push` |
| `settleForOrder`, `sweepTerminalOrders`, `settle` | `SettleForOrder`, `SweepTerminalOrders`, `Settle` |
| `freeDrivers` | `Look`, `FreeDriver` |
| the rollover cron, which sweeps after it | `RollOver` |
| shifts | `GoOnline`, `GoOffline` |

Faults: `overlap` (a request comes in while another is under way), `stale` (a job card of a stop
that is no longer the driver's), `push` (somebody else moves the order), `crash`.

### AutoDispatch, MCAutoDispatch

One order, one rule, any number of ticks. `run` is the AutoDispatchRun, `booked` counts the couriers
really on the road (by ticks, by staff), `fees` the dispatch fees taken and not given back; a
handler's record holds the attempts it counts with (`seen`), the providers it has `left` to try and
the `result` it will write.

| Code | Actions |
|---|---|
| `tick` → `reclaimStale` | `Tick`, `Reclaim` (`Stale`, `Verdict`) |
| `scheduleNew` | `ScheduleNew`, `Create` |
| `runDue` | `RunDue`, `Claim`, `Throws` |
| `execute` | `Execute`, `Try`, `Refused` |
| `retryOrFail`, `finish` | `Retry`, `Finish` |
| `dispatch` of a provider (Stuart; Uber Direct alike), `debitForDispatch`, `refundDispatch` | `Refuse`, `Debit`, `CreateJob`, `CreateJobFails`, `CreateJobTimesOut`, `RefundDispatch`, `Attach` |
| `updateRule`, `deleteRule` | `UpdateRule`, `DeleteRule`, `SkipScheduled` |
| staff | `BookByHand`, `GiveToOwn`, `WriteOwn`, `TakeBack`, `Close` |

A death between the booking and the write of it on the order is a fault of its own (`orphan`), as
are a tick that takes back a run somebody is still at (`slow`) and two ticks that take back the same
one (`late`): these are what decides whether a second courier comes.

## 4. Runs

MC modules hold constants and symmetry sets only; every definition they check is in the module
proper.

| Run | Module | States | Checks |
|---|---|---|---|
| `lifecycle_guarded` | `MCOrderLifecycle` | 52 k | `TypeOK`, `SnapshotCurrent`, `TerminalIsFinal`, `FollowsTheMachine` (refinement) |
| `lifecycle_all` | `MCOrderLifecycle` | 1.14 M | `AuditExplainsStatus`, `RankNeverFalls`, `AcceptLostOnlyByConflict` |
| `outbox_many` | `MCOutbox` | 547 k | `TypeOK`, `DeadOnlyWhenExhausted`, `ProcessedWasQueued`, `NoDuplicateDispatch` |
| `outbox_single` | `MCOutbox` | 21 k | `DeliversAtLeastOnce` (refinement), `EventSettles` |
| `outbox_failed` | `MCOutbox` | — | `FailedIsRetried`, refuted (section 7) |
| `print_agents` | `MCPrintJobs` | 17 k | `HeldIsReleasable`, `DeliversTickets` (refinement), `JobSettles` |
| `print_faults` | `MCPrintJobs` | 3.50 M | `NoDuplicatePaper`, `PrintedMeansPaper` |
| `card_faults` | `MCCardPayment` | 3.18 M | `PaidMeansCharged`, `RefundedMeansReturned`, `CancelledMeansReleased`, `ChargedMeansAccepted`, `BookedMeansMoved`, `ReleaseIsKept` |
| `card_settles` | `MCCardPayment` | 609 k | `AcceptedIsCaptured`, `RejectedIsReleased` |
| `split_bill` | `MCSplitBill` | 248 k | `BankedMeansCharged`, `PaidMeansTaken`, `NeverOvercharged`, `CoveredIsFreed`, `ChargedIsBanked` |
| `driver_dispatch` | `MCDriverDispatch` | 622 k | `DispatchAgrees`, `FinishedStaysFinished`, `FreedMeansDone`, `StrandedIsSettled` |
| `auto_dispatch` | `MCAutoDispatch` | 773 k | `OneCourier`, `BooksAgree`, `AttemptsBounded`, `RunSettles`, `VerdictIsFinal` |

What each shows, in a sentence, is in `PROJECT.json`.

**Bounds.**

| Run | Instance | Faults, at most |
|---|---|---|
| `lifecycle_guarded` | 1 order, 2 handlers, 2 writes; staff, webhook, autoAccept, retail, touch, crash | crash, any number |
| `lifecycle_all` | the same with every writer but touch and crash | — |
| `outbox_many` | 2 events, 2 processes, a batch of 1, 2 attempts | crash, queue, db, slow: 3 |
| `outbox_single` | 2 events, 1 process, a batch of 1, 2 attempts | crash, queue, slow, evict: 4 |
| `outbox_failed` | 1 event, 1 process | queue: 1 |
| `print_agents` | 2 jobs, 2 agents, 2 retries | send, torn, crash: 3 |
| `print_faults` | 2 jobs of 1 order, 2 agents, 2 ticks of the cron, tablet and operator, 2 retries | send, torn, slow, lost, crash, db: 1 |
| `card_faults` | 2 handlers, 2 units of money; ACCEPTED, CANCELLED, REJECTED | crash, db, stripe, duplicate, lost, expire: 1 |
| `card_settles` | 2 handlers, 1 unit; ACCEPTED, REJECTED | duplicate, expire, lost, db: 1 |
| `split_bill` | 2 parts, 2 handlers, a bill of 2 | early, decline, twice, whole, crash: 1 (and late) |
| `driver_dispatch` | 2 orders, 1 driver, 2 handlers | overlap, stale, push, crash: 1 |
| `auto_dispatch` | 2 providers, 2 handlers, 2 attempts | crash, orphan, slow, late, timeout, db, staff: 1 (late noted only) |

Why they are enough. Every hazard of section 1 is a read that is stale when its handler writes: one
handler to read and one to write in between, on one row. The second order is there where a handler
walks through several (a dispatcher's batch, a driver's run, the settlement), the second unit of
money where a refund can be partial. `MaxWrites` lets a row be written twice after it was created,
once by each handler; with the rows the creation itself writes, `updateStatus` meets each of the
other writers on either side of its read. Two attempts are one retry and one end of retries. Most
properties name the faults that void them (section 8), so one fault more adds only states the
property says nothing of; `print_agents`, `outbox_many` and `outbox_single` allow more because a
job or an event takes a fault for each retry. `print_faults` has two jobs of one order, one that the
tablet prints and one that it only marks, and pays for them with the second fault; its two properties
are proved for any number. And what the bounds leave out is what the proofs of
section 6 are for: they have none of these bounds.

Deadlock is checked in the outbox runs, where the dispatchers tick for ever. Elsewhere
`CHECK_DEADLOCK FALSE` is said because the system may really come to rest: a finished order, an
empty print queue, a settled bill.

The definitions that are named for a mistake (`RefundReadTrusting`, `CheckCoveredAlone`,
`ReclaimBlind`, ... ) are never used by a specification. They are the mutants of `PROJECT.json`: each
replaces the definition after it by what a plausible bug would make of it, and TLC then finds the
named property violated. Every property of every passing run has one.

## 5. Fairness

Safety is claimed without fairness. For the rest:

- `Outbox`: weak fairness of every dispatcher, since the cron runs in every process every five
  seconds, and of time (backoffs run out, five minutes pass). Nothing is assumed of Bull.
- `PrintJobs`: weak fairness of the agents' loops, of the API handling what it has received, and of
  housekeeping, which every API process runs every 30 seconds. None for the ticks of the cron, which
  `JobSettles` does not need: its run has agents only.
- `CardPayment`, `SplitBill`, `DriverDispatch`, `AutoDispatch`: weak fairness of every step a
  handler takes once begun. Strong fairness for what begins one: a spawned call and Stripe's delivery
  (retried for days), `CardPayment`'s poll, the hourly rollover, the tick of auto-dispatch every 20
  seconds. It is strong only because the model has a fixed number of handlers, and a beginning is
  disabled while all of them are busy; in the code nothing waits for a free handler.
- In `SplitBill` nothing is promised of the till: its poll stops for good on a decline, and when the
  modal is closed, while the card may still be taken. What banks a card part is the webhook, which
  Stripe delivers. Only the simulated readers of a test drive have none
  (`payments/terminal.service.ts:743`): they are outside this fairness.
- Faults, customers, staff and drivers are never fair: they may stop at any time.

`OrderLifecycle` has no liveness: nothing but a person moves an order on, and what the rollover does
is not promised by when.

## 6. Proofs

`tlapm` checks the eight `*Proofs` modules. They take the constants as they come, under the named
assumptions of the modules (finite sets of handlers or parts where something is counted, a positive
bill, faults that exist), so for any number of orders, events, jobs, agents, handlers, providers,
drivers and faults.

| Theorem | Assumes | The argument |
|---|---|---|
| `TypeCorrect`, `OutboxTypeCorrect`, `PrintTypeCorrect`, `CardTypeCorrect`, `SplitTypeCorrect`, `DriverTypeCorrect`, `AutoTypeCorrect` | — | one step per action |
| `SnapshotCorrect` | no rollover | `SnapshotInv`: a handler's version is never ahead of its row's, and at the same version the status it read stands |
| `FinalCorrect` | guarded writers | `FinalInv`: what a handler is about to commit was checked against the status it read, which was not final; with `SnapshotInv` it is the status there is |
| `MachineCorrect` | guarded writers | `MachineInv`: what a handler will commit was permitted from the status it read; with `FinalInv` and `SnapshotInv` that is the status there is, so every step is a step of `OrderMachine` or none |
| `WhitelistClimbs`, `WhitelistLeadsOn`, `RankIsABackstop` | — | of the tables alone: a permitted step raises the rank, no status in flight is a dead end, and the rank check refuses nothing the whitelist allows |
| `AuditCorrect` | writers that check: no retail sale, resync, tab or rollover | `StoryInv`: the last row of the history ends at the status, each begins where the one before it ended |
| `ToldCorrect` | no crash | `ToldInv`: the history has the status or its writer is about to add it |
| `RankCorrect` | — | `RankInv`: no handler of an order of the shop's own is on its way with a status of lower rank than the one it may overwrite |
| `AcceptCorrect` | — | `AheadInv`: but for a marketplace's re-offer, nobody is about to write PENDING over a status beyond it, so whoever takes a paid sale out of PENDING has accepted it, and whoever gives up has met a conflict or died |
| `DeadCorrect` | — | `ReadBehind`: the count a dispatcher has read is at most the row's |
| `ProcessedCorrect` | each event its own jobId | `QueuedInv`: whoever is about to mark a row has had its job created, and a job Bull knows was created |
| `OnceCorrect` | Bull forgets no jobId | `OnceInv`: an event has a second job only if Bull forgot the first |
| `GivenUpCorrect` | one process | `CountInv`: what the one dispatcher has read of a row it holds is the row's count still, and the jobs it made are no more than its attempts |
| `DeliveryCorrect` (of `OutboxProofs`) | own jobIds, one process, the database answers | `HandsOn`: whoever has a row in hand has it PROCESSING; so every step is a step of `EventDelivery`, several of them taken together, or none |
| `PrintedCorrect` | — | `PrintedInv`: whoever is about to say a job is printed, or has sent or kept such a report, has put it on paper; what the tablet is to mark is of an order it reported |
| `OnePaperCorrect` | — | `PaperInv`: while only sends fail, a job that is on paper has nobody left who would print it; each holder is the only one |
| `HeldCorrect` | no lost connection, nobody slower than his claim | `HandsInv`: one holder per held row, one call per job |
| `DeadLetterCorrect` | the same, and no operator or tablet | `HandsInv`: nobody has a report under way for a row that is dead |
| `RetriesCorrect` | no lost connection, nobody slower than his claim, no cron (it never dead-letters) | `RetryInv`: with `HandsInv`, the count a report was authorised on is still the row's, and a job in somebody's hands has an attempt left |
| `DeliveryCorrect` (of `PrintClaimsProofs`) | the same, and the database takes what the cron writes | `PaperInv`, `HandsInv` and `PrintedInv` together: whoever has a ticket in hand has a job that is owed, so every step is a step of `TicketDelivery` or none |
| `PaidCorrect`, `ReleasedCorrect`, `ChargedCorrect` | — | `MoneyInv`: of every place a handler may be in and every event under way, what it lets us conclude of the PaymentIntent |
| `ReturnedCorrect`, `BookedCorrect` | — | `RefundInv`: what is booked and what handlers have moved and not booked yet come to no more than what went back. The sum is the size of a set with one element per unit of money, so it grows and shrinks by theorems on finite sets |
| `CaptureCorrect` | — | `CaptureInv`: money held for an accepted order has its capture spawned, an event on its way, or a handler on the path to the charge, none of which a stale read turns away |
| `ReleaseCorrect` | — | `HoldKept`: which rows may lag behind a hold (one whose card was declined may not); so each read on the way back leads to the call that moves the money, and nobody can charge it meanwhile (`MoneyInv`) |
| `BankedCorrect` | — | `BankedInv`: a handler that reads a part's row knows its intent; barring early webhooks, who is to bank a part, or has, saw its card taken |
| `PaidCorrect` (of `SplitBillProofs`) | — | `PaidInv`: who is about to mark the bill PAID or to free its table summed settled parts that cover it, and settled parts stay settled |
| `OverchargeCorrect` | — | `HeldInv`: while parts are taken one at a time, those that count and the one being paid never exceed the bill |
| `FreeingCorrect` | — | `SettleInv`: whoever banks a part sums after it, so the last to bank sees the bill covered |
| `BankingCorrect` | — | `SettleInv` (`Banking`) and `BankedInv`: the event of a card that was taken leaves only for a handler that finds the row of this very card, and that handler ends with the row SUCCEEDED; a declined or doubled event and a poll take nothing from it |
| `FinishedCorrect` | — | `FinishedInv`: without overlap one handler is busy, and what it read of its order and stop stands |
| `FreedCorrect` | — | with that, who is about to be called available has no stop left (`Unburdened`) |
| `AgreesCorrect` | — | `PayInv` and `AgreeInv`: for each place of the one busy handler, which of the three rows it has yet to write |
| `SweepCorrect` | — | `Outcomes`: what a settlement is about to write ends the stop; so a stop leaves a sweep's hands only when it is over |
| `StrandedCorrect` | requests one after the other, no fault but pushes | `PayInv`: who closes an order settles its stop in the same request |
| `OneCourierCorrect` | — | `OneInv`: while ticks only die, one of them at most is between claim and finish (`Alone`), and a courier on the road is either on the order or in its hands (`Road`) |
| `BooksCorrect` | — | `FeesInv`: fees = couriers + handlers between the debit and the API's answer; `TellInv`: a run that ended well has a courier, one that did not has none |
| `StaleCorrect` | — | `DeathInv`: a run that is RUNNING is in somebody's hands, unless a process died or a statement threw |
| `AttemptsCorrect` | — | `TriesInv`: attempts and the readers that count too low (`Young`) together stay within the bound; a fault buys one more |
| `VerdictCorrect` | — | `HoldInv`: a handler that will write the end of a run is the one that holds it, unless one was taken back too late |

A theorem that assumes nothing of the faults is about a property that names the ones it excludes
(section 8), or holds under all. `FinishedCorrect`, `FreedCorrect`, `FinalCorrect`, `RankCorrect`,
`AcceptCorrect`, `SweepCorrect`, `DeadLetterCorrect`, `ReleaseCorrect` and `VerdictCorrect` are about steps and rest on the same
invariants.

Every safety property a passing run checks is proved, and so are the three refinements. Only
model-checked are the liveness properties (`EventSettles`, `JobSettles`, `AcceptedIsCaptured`,
`RejectedIsReleased`, `CoveredIsFreed`, `ChargedIsBanked`, `StrandedIsSettled`, `RunSettles`):
fairness speaks of ENABLED, which this version of TLAPS does not reason about. What they rest on is
proved instead. That the work which will do it is never lost: `CaptureCorrect` for
`AcceptedIsCaptured`, `ReleaseCorrect` for `RejectedIsReleased`, `FreeingCorrect` for
`CoveredIsFreed`, `BankingCorrect` for `ChargedIsBanked`, `SweepCorrect` for `StrandedIsSettled`,
`HeldCorrect` for `JobSettles`, `StaleCorrect` for `RunSettles`. And that it cannot go round for ever:
`RetriesCorrect` for `JobSettles`, `AttemptsCorrect` for `RunSettles`, `GivenUpCorrect` for
`EventSettles`. Fairness then has only to let the work take its next step. No induction over data is needed anywhere: sums are sizes of sets, histories are looked at
by their last element.

Some invariants are proved and in no run: `AuditContiguous` and `DeadLetterIsFinal`, which the
refinements say more of; `CaptureIsUnderWay`, `FreeingIsUnderWay`, `BankingIsUnderWay`,
`AttemptsCount`, `RetriesCounted`, `SweepSettles`, `NothingStranded` and `StaleMeansDeath`, stated in
the proof modules; and `TypeOK` of all but the first two models.

## 7. Where code and documents disagree

One disagreement is a run of its own:

- **FAILED events are not retried** (`outbox_failed`). `src/OUTBOX_ARCHITECTURE.md:120` says they
  "Will be retried automatically on the next dispatcher tick after nextAttemptAt"; `processBatch`
  selects PENDING rows only, and nothing turns FAILED into PENDING.

The others were met while modelling. Each is in the models as the code has it, at the place named:

- A marketplace resync writes its status by id, so it resurrects a finished order
  (`src/packages/shared/src/types/order-status-rank.ts:12` calls terminal states final). This is why
  `TerminalIsFinal` is asked of guarded writers.
- A counter sale paid while `create` is still at its follow-up may stay PENDING: the call that should
  accept it loses the optimistic check to another write, which is only logged, against the comment at
  `orders/orders.service.ts:3117`. `AcceptLostOnlyByConflict` says that there is no other way but a
  crash.
- With two API processes an outbox row can outlive `maxAttempts`, against
  `src/OUTBOX_ARCHITECTURE.md:114`: FAILED, PENDING or DEAD is decided on the count that was read
  (`outbox/outbox-dispatcher.cron.ts:181`), and two of them count the same row. `GivenUpCorrect` is of
  one process.
- The tablet's report of an order marks every pending job of it PRINTED
  (`printers/print-jobs.service.ts:863`), "so the queue clears and the widgets reflect reality" (line
  860), "the receipt has physically printed" (`use-bridge-auto-print.ts:266`); but the kitchen ticket
  of the same order, for a printer the tablet did not reach, is marked too, and never comes out.
  `PrintedMeansPaper` leaves out the jobs of an order that was reported.
- The till's poll is there so that it "gets a definitive answer even before the webhook lands"
  (`payments/terminal.service.ts:740`), but it also ends for good before the webhooks are through
  (`charge-reader-modal.tsx:270-294`). A report of an earlier decline that lands after the part was
  banked writes FAILED over SUCCEEDED (`payments/payments.service.ts:3759`), and nobody repairs it; one
  that lands between the banking and `settleSplitPart`'s sum leaves a bill open that was covered.
  `ChargedIsBanked` and `CoveredIsFreed` end there.
- A tablet's "Pay & close" on a part-paid tab charges the whole bill
  (`payments/terminal.service.ts:588`), where line 600 says the ceiling is what is still owed: the
  fault `whole`.
- A job card that is no longer the driver's still moves the order (`driver-app/driver-app.service.ts:560`):
  the fault `stale`.
- A death between `settle` and `freeDrivers` (`dispatch/dispatch-settlement.service.ts:178`) leaves the
  driver ON_JOB with nothing to do, which is what that file says at line 23 must not happen; the next
  sweep finds no stop of his.
- Two ticks that take back the same stale run can each run it: two couriers from one crash
  (`auto-dispatch/auto-dispatch.service.ts:460–482`, against `schema.prisma:7043`): the fault `late`.
- When the write that follows a booking fails, auto-dispatch takes it for a refusal and books the
  next provider too (`auto-dispatch.service.ts:639`, `integrations/stuart/stuart-dispatch.service.ts:259`):
  the fault `db`.
- A tick of auto-dispatch that read a due run before another tick tried it and put it back claims
  it all the same, since the claim asks for SCHEDULED and not for the due time, and counts from its
  old read (`auto-dispatch.service.ts:551–566`): the run is tried again at once, and more than
  `MAX_ATTEMPTS` times "in total" (line 46). `RunDue` and `Claim` have it so; TLC finds it in 20
  steps when asked, without any fault. `AttemptsBounded` is the bound it does keep: one more for each
  other process and for each fault.
- An authorisation that arrives while the courier has the order is never captured:
  `ACCEPTED_STATES` (`payments/payments.service.ts:2773`) leaves out PENDING_DISPATCH,
  ASSIGNED_DRIVER, ACCEPTED_BY_DRIVER, RIDER_ARRIVED and DISPATCHED, against the comment on line
  2767 ("or the money stays held"). `CaptureCorrect` therefore speaks of the statuses before them,
  and of the later ones only for orders that skip them.
- A retried worker job makes its print rows again (`src/apps/worker/src/processors/order-processing.processor.ts:53`).
- The server-direct cron never dead-letters, which `src/docs/printers/LAN_PRINTING.md` promises of
  print jobs; the heartbeat cron writes a status, PENDING, that print jobs do not have
  (`printers/printer-heartbeat.cron.ts:158`).

## 8. Properties that need their assumptions

Each of these was tried without its assumption, and TLC finds it violated: the assumption is the
price, not a convenience.

| Property | Fails with |
|---|---|
| `SnapshotCurrent` | the rollover, which does not stamp updatedAt |
| `TerminalIsFinal` | the rollover, the closing of a tab, the resync |
| `FollowsTheMachine` | resync, closing a tab, rollover |
| `AuditExplainsStatus` | a crash between the status and its history row |
| `RankNeverFalls` | orders that take webhooks |
| `NoDuplicateDispatch` | a jobId that Bull has forgotten |
| `ProcessedWasQueued` | two events with one jobId |
| `DeliversAtLeastOnce` | a second process, or database errors |
| `AttemptsCount` | a second process |
| `PrintedMeansPaper` | the jobs of an order the tablet reported |
| `NoDuplicatePaper` | lost connections, slow work, crashes, torn sends, the tablet |
| `HeldIsReleasable` | lost connections, slow work |
| `RetriesCounted` | lost connections, slow work |
| `DeliversTickets` | the operator, the tablet; lost connections, slow work, database errors of the cron |
| `BankedMeansCharged`, `PaidMeansTaken` | early webhooks |
| `NeverOvercharged` | parts begun while another is under way, early or late settlement, a charge of the whole |
| `CoveredIsFreed` | a crash, a part that a late report takes out of the sum again |
| `ChargedIsBanked` | early settlement, a crash, a late report once the webhook of the card is through |
| `AcceptedIsCaptured` | a crash, errors of Stripe or the database, a lost webhook |
| `RejectedIsReleased`, `ReleaseIsKept` | a crash, errors of Stripe |
| `FinishedStaysFinished`, `FreedMeansDone` | overlapping requests |
| `DispatchAgrees` | overlapping requests, stale job cards, crashes; orders moved by others, but for pay |
| `OneCourier` | orphan, slow, late, timeout, db, and staff who book by hand meanwhile |
| `VerdictIsFinal` | late |
| `AttemptsBounded` | late |
| `BooksAgree` | the run: timeout, db, orphan, late, slow; the fees: timeout, db, crash |

## 9. What is left out

The repository has 440 000 lines; most are generated Prisma clients, screens, CRUD and adapters of
foreign APIs. The models cover the code in which several actors write the same rows, and say nothing
of the rest.

Inside the modelled components:

- Orders: the lines of an order (editOrder, addRound), prices, numbers, queries. Other columns are one
  `Touch`. Discounts and totals are arithmetic without interleaving.
- Print jobs: routing and rendering, what the tablet prints of an order after the first time (second
  rounds, edits, cancellation slips, reprints), reprints (new rows), the legacy endpoints and the one
  no client calls, `retryOfflineJobs`, the ten-minute age limit of the server-direct cron.
- Card payments: Tap, Dojo and Mollie, several payments of one order, wallet, vouchers, payouts.
- Split bills: tips, the items a part stands for, other makers' terminals, refunds and voids of a part.
- Driver dispatch: pay, earnings, PINs, positions, `activeAssignmentId` (a screen's pointer), and two
  services that no client calls.
- Auto-dispatch: which rule matches, quotes and prices (which providers are left to try is open), due
  times, the per-location waiver of the fee (`stuart-dispatch.service.ts:217`; a configuration switch
  that skips debit and refund alike, so that `BooksAgree` is of locations that pay), creating a rule,
  one courier for several orders, the couriers' own progress.
- The outbox and the status machine are modelled whole.

Not modelled, and why: sessions (`TokenRotation` is in the plan: one protocol, apart from the order
path); the order worker and the marketplace adapters (what they do between the modelled ends is
calls of foreign APIs whose behaviour the source does not tell); kitchen display, realtime and mail
(one-way followers); stock, loyalty, group orders, reservations, menus, marketing, voice, back
office, payouts, billing (records of their own, single statements, or Stripe's state machines);
applications and packages (screens, types). `PROJECT.json` says so component by component.

What the models do not see: two writes of one row in the same millisecond, which leave one updatedAt;
a Postgres transaction is atomic and its failure leaves nothing; clocks of processes agree.
