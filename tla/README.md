# Verification of repracer

TLA+ specifications of the parts of repracer that decide *what reaches a channel,
and when*: the versioned write queue in PostgreSQL with the write dispatcher in
front of the channels, the raise of a price to its floor, the reading of orders,
the reservations and the published stock they lead to, the switches of an account, the
relay that carries outbox events to the broker, the scheduler that starts the
periodic jobs, and the bulk jobs of the sellers. Every definition is translated
from the source under `src/`; `PROJECT.json` maps each one to the lines it stands
for.

## 1. The system

repracer reprices offers on several sales channels (Amazon, eBay, Kaufland,
Walmart) and publishes stock quantities. A snapshot of the competition or a
change of a cost leads to a decision, the decision to a *write* of a price; a
change of the stock leads to a write of a quantity. A **write scope** is one field
(PRICE or QUANTITY) of one offer on one channel: all writes of a scope are
versions 1, 2, 3, ... and exactly one value may be on its way at a time.

| Component | State it keeps | Operations | Talks to |
|---|---|---|---|
| Write queue (`pricing-store-pg/src/write-queue.ts`, `migrations/0018, 0036, 0055, 0128`) | `channel_write`, `channel_write_history`, `write_scope_sync_state`, `write_scope.status` | insert (triggers), `claimNext`, `recordOutcome`, `recordReconciliation`, `due_write_scopes` | dispatcher, decision commit, stock recalculation |
| Write dispatcher (`write-dispatcher/src`) | chains per scope in memory | `processScope`, `dispatchCommitted`, `sweep`, `readBack` | write queue, channel adapters, broker consumers |
| Commit of a decision (`pricing-store-pg/src/store.ts`) | intents, explanations, outbox, ledgers | one transaction per decision; claims the write it inserts | write queue, dispatcher |
| Stock and reservations (`pricing-store-pg/src/stock.ts`, `stock-sync/src`, `migrations/0007, 0020, 0122, 0156`) | pools, reservations, returns, published quantity | `recordOrderLines`, `recalculate`, counts of warehouses and people, confirmations, expiry | reading of orders, write queue |
| Reading of orders (`services/scheduler/src/jobs.ts`, job `order-lines`) | saved place: window, cursor, refusals of the cursor | one run: pages, record, place | channel adapters, stock, scheduler |
| Raise to the floor (`migrations/0180, 0182`, `strategy-engine`, `price-gate`, `pricing-pipeline`, the floor checks of `write-queue.ts`) | `floor_raise_request`, the last rung | request, list, evaluate, commit, consume, recheck at the claim | write queue, decision commit |
| Account switches (`migrations/0128, 0162, 0164`, triggers) | mode, confirmation of quantity writes, other tools, synchronisation of a scope | switch, confirm, revoke, answer, enable | write queue, decision commit, stock |
| Outbox relay (`broker/src/outbox-relay.ts`, `relay-order.ts`) | watermark in `outbox_relay_state`, cursor in memory, advisory lock | `runOnce`, `run` | outbox table, broker |
| Keyed consumers (`broker/src/kafka.ts`) | offsets | one handler at a time per key | broker, dispatcher |
| Pricing pipeline, strategy engine, price gate, input sanity | snapshots, cohorts, halts, distrust | evaluate, approve, refuse | decision commit |
| Edit budget (`migrations/0008, 0055`) | ledger of edits | charge, refund | write queue |
| Bulk jobs (`migrations/0108, 0113, 0193`, the bulk worker) | `bulk_job` with its lease, import journal, stored files | create, cancel, claim, apply, store, finish | stock |
| Scheduler (`services/scheduler/src`) | `scheduled_job` rows: due time, lease, failures | `tick`, `claim`, `finish`, `renew`, alerts | every periodic job |
| Alert delivery, notification receiver, channel authorization | their queues and leases | deliver, receive, check | database, mail, SQS, OAuth |
| Channel clients and adapters | pacing, tokens | translate and send | the channels |
| Console, operator panel, identity, service runtime, analytics export | screens, sessions, files | - | database |

Every component is listed in `PROJECT.json`, with the reason for each one that is
not modelled.

**What is hard.** Several dispatcher processes, decision paths and recalculations
touch one scope at the same time and only meet in the row lock of
`write_scope_sync_state`; between the claim of a write and the record of its
outcome lies a call to a channel, during which nothing is locked. The call may be
lost, answered late, answered "accepted" and applied hours later or never; the
process may die at any point of it. A value that was read back may be recorded
after the row has moved on. Events between processes may be lost, so that
whatever waits must be found by a periodic sweep. The relay reads rows by the
start time of their transactions, while they become visible in the order of the
commits.

**What makes the components correct.**

* Write queue and dispatcher (INV-03, ADR-0009): one write in flight per scope;
  only the newest version waits or leaves; nothing is sent again before the
  outcome of the last attempt is known; an old value never follows a newer one
  at the channel; what is recorded as applied is what the channel shows; every
  write ends.
* Stock (INV-14, R-25, R-200): a recalculation that writes nothing is right; a
  piece sold from a warehouse is held back until the warehouse's own count has it;
  nobody forgets that more is published than is left; the count of our own pools is
  the sum of their journal.
* Reading of orders: the window never moves past a change that was not recorded,
  and every change is recorded in the end, also after the channel forgets a cursor.
* Raise to the floor (ADR-0051, R-210, R-211): a rung never lowers a price; a price
  below the floor is owed a raise, and gets it.
* Account switches (R-169, R-202): no quantity leaves after the revocation of the
  confirmation, a synchronised scope has a confirmation, a confirmation no second
  writer; a switch to SHADOW holds everything that waits.
* Relay (ADR-0005): at least once; per scope in the order of `scope_seq`;
  duplicates come from restarts only; nothing is left behind the watermark.
* Scheduler: one run of a job at a time, a result is not recorded over a later
  one, one alert for a series of failures.
* Bulk jobs: the journal of imports tells what is in the data, a repeated job does
  not apply its import twice, a finished export shows the file that is stored,
  every job ends.
* Edit budget: the charges of a day never exceed the limit. Alerts: every alert is
  delivered.

## 2. Modules

| Module | Models | Notes |
|---|---|---|
| `Transitions` | `planOutcomeTransition`, `planReconciliationTransition` (`transitions.ts`) | pure rules: what an answer or a reading makes of a write |
| `SingleFlight` | the promise of the queue (INV-03, first layer of ADR-0009) | abstract specification |
| `WriteQueue` | one scope: queue, dispatcher chains, decision paths, recalculation, channel | extends `Transitions`; implements `SingleFlight` |
| `WriteQueue_proofs` | theorems about `WriteQueue` | checked by the TLA+ proof system |
| `MCWriteQueue` | instances for TLC | symmetry |
| `OutboxRelay` | outbox table, relays, advisory lock, broker | |
| `OutboxRelay_proofs` | theorems about `OutboxRelay` | checked by the TLA+ proof system |
| `MCOutboxRelay` | instances for TLC | symmetry |
| `Scheduler` | the ticks of several processes over the table of jobs | |
| `Scheduler_proofs` | theorems about `Scheduler` | checked by the TLA+ proof system |
| `MCScheduler` | instances for TLC | symmetry |
| `Reservations` | order lines, reservations, pools, what is published, readers, requests | |
| `Reservations_proofs` | theorems about `Reservations` | checked by the TLA+ proof system |
| `MCReservations` | which product a line is of | |
| `OrderReading` | one account's order job: window, pages, saved place, runs that overlap | run directly |
| `OrderReading_proofs` | theorems about `OrderReading` | checked by the TLA+ proof system |
| `FloorRaise` | one price scope below its floor: two paths of evaluation, the queue, the channel | run directly |
| `FloorRaise_proofs` | theorems about `FloorRaise` | checked by the TLA+ proof system |
| `AtomicSwitches` | what the transactions promise to those who see no lock | abstract specification |
| `AccountSwitches` | the owner's transactions against claims, decisions and recalculations, lock by lock | implements `AtomicSwitches` |
| `AccountSwitches_proofs` | theorems about `AccountSwitches` | checked by the TLA+ proof system |
| `MCAccountSwitches` | how many writes a scope has | symmetry |
| `BulkJobs` | import and export jobs under leases | run directly |
| `BulkJobs_proofs` | theorems about `BulkJobs` | checked by the TLA+ proof system |

### WriteQueue

A transaction of the source takes the row lock of the scope first
(`SELECT ... FOR UPDATE` in `write-queue.ts`, the triggers of `channel_write`)
and holds it to its commit, so one transaction is one action. A *thread* is
a chain of a dispatcher process (which serializes its own calls for a scope) or a
decision path, which sends the write it has committed outside of any chain. Between
two transactions a thread is `CLAIMED` (planning the call), `SENDING`, `ANSWERED`,
`READING` or `OBSERVED`.

| State | Code |
|---|---|
| `write[v]` | the row of version v in `channel_write`, and in `channel_write_history` once it has ended |
| `latestCreated`, `latestDispatched`, `latestApplied`, `inFlight`, `lastSent` | columns of `write_scope_sync_state` |
| `scope` | `write_scope`: its field, which never changes, and its status |
| `next`, `age` of a row | `next_attempt_at` against the clock; time since `dispatched_at` or `accepted_at` against the dispatch and accept limits of the policy |
| `transit`, `submitted`, `channel` | requests on their way, requests accepted by an asynchronous channel, what the channel shows |

| Action | Code |
|---|---|
| `CommitDecision` | the decision commit: insert (version, supersession, status), and the claim in the same transaction if the slot is free |
| `Recalculate` | the stock recalculation: `last_quantity`, insert if the quantity changed |
| `ClaimNext` = `ClaimReconciliation`, `DiscardOlder`, `ClaimDispatch`, `ClaimEnds`, `ClaimBlocks` | the branches of `claimNext`, with its early returns as guards |
| `Plan`, `Send`, `GiveUp`, `ReadBack` | planning, the call, its deadline, the reading of a value |
| `RecordOutcome`, `RecordReconciliation` | the two settling transactions, with the trigger that moves the slot and `last_sent` |
| `Deliver`, `Refuse`, `ApplySubmitted`, `DropSubmitted` | the channel (synchronous or asynchronous) |
| `NextDue`, `Age` | time |
| `Crash`, `SetScopeStatus` | a process stops; people hold or release a scope |

`Due` is the predicate of `due_write_scopes`. A claim may happen at any time (an
event, a hand-off), but is only *fair* when `Due` holds: only the sweep is
certain to come.

Abstractions: an amount or quantity is one number; the account, offer and policy
are fixed; `Refusals` stands for what the dispatch guards and the edit budget kept
by other components may answer; a write that has ended stays in `write` as its
history row does.

### OutboxRelay

An event carries the start of its transaction (`created`) and is committed at most
`MaxLag` ticks later. `Fetch`, `Publish`/`PublishNothing` and `Persist` are
the steps of `runOnce`; `ScopePlan` is `planPublication` for one scope,
`NextWatermark`, `Remembered` and `LastSeqs` are what `markPublished` leaves in
memory. `Restart` ends a relay anywhere, also when the broker has received a
part of its batch; `LoseConnection` frees the advisory lock under a relay that
goes on until its next statement (`FindOut`).

### Scheduler

Every statement to the database is an action; between two of them other processes
run, time passes, leases expire and a process may stop. The clock is the
database's (`databaseNow`), in units of the shortest pause between two ticks.

| State | Code |
|---|---|
| `job[j]` | the row of `scheduled_job`: `next_due_at`, `lease_owner`, `lease_until`, `consecutive_failures` |
| `log[j]` | the lines of `scheduled_job_run`; the last one is also `last_outcome`, `last_finished_at`, `last_error` of the row |
| `process[p]` | where the tick of a process is; `at` and `seen`: its time and its list of due jobs; `slot`, `failures`, `started`: the row as it was claimed |
| `told` | how often each alert was raised |

| Action | Code |
|---|---|
| `Begin`, `Look` | `tick`: its time, the list of due jobs (`dueOf`); `Rest`: the pause of `runScheduler` |
| `Claim`, `Skip` | `claim`, or nothing claimed; `InHand` is the order of the list and the slots of an `EVERY_SLOT` job |
| `Renew` | the heartbeat |
| `Finish` | `runOne` from the result on, with the transaction of `finish`; `LoseLease` if the row has another owner |
| `Alarm` | the alert of a series of failures, a step after `finish` |
| `Stop` | the process stops and starts, or a statement of its tick fails |
| `Tick` | time; `lapses` counts the leases that expire under a run |

Abstractions: all jobs of an instance have one interval and one lease; `RetryBase`
and `RetryCap` stand for the two kinds of jobs (CHANNEL, INTERNAL); what a job
does is its outcome; how long a process sleeps beyond the shortest pause is left
open. The review of the lag at the end of a tick is not modelled.

### Reservations

A reader runs the order job: `ReadPage`, `Look` (the reservations of the page are
read without a lock), `Record` (one transaction for all its lines, or none) and
`Recalculate`; everything else may come between two of them. A request of a
warehouse or of a person changes the stock in one transaction and recalculates in
a second one (`Propagate`), or dies in between (`RequestDies`).

| State | Code |
|---|---|
| `order`, `unread` | what the channel says of a line, and whether the next window contains it |
| `res[l]` | the row of `channel_data.reservation`: status, report of the shipping, instants |
| `returned` | `order_return` |
| `pool[p]` | `stock_pool`: pieces, instant of the count they come from; `without` is history: the lines already taken off that count |
| `registered`, `figures` | what a warehouse knows, and the counts it has sent, which arrive in any order |
| `published` | what the last recalculation made of the product |
| `owed`, `refused` | requests between their two transactions, and requests whose sender has no answer and repeats them |

| Action | Code |
|---|---|
| `Place`, `Progress`, `Register`, `SendFigure` | the channel and the warehouse |
| `InboundStock`, `ConfirmInboundOrders` | `inboundStock` with `stock_pool_guard`, `confirm_reservations_by_source` |
| `Stocktake`, `DecideReturn` | people, with the movements of the journal |
| `Does`, `Outcome`, `Allowed`, `Record` | `recordOrderLines`: what it decides by what it has seen, and what the triggers of 0020 and the unique key make of it |
| `Reserved`, `Target`, `Recalculated` | `RESERVED_SQL`, `PUBLISHED_SQL`, `recalculate` under the lock of the tenant |
| `ReleaseExpired` | `release_expired_reservations`, one statement for all |

Abstractions: one pool per product, lines of one piece, no ceiling and no listing
threshold; instants that nothing reads again are left out.

### OrderReading

`run[r]` is a run of the job between its steps: the window it began with, the
offset it has reached, the versions it has read, and the place it will save.
`place` is the row the job keeps (`since`, `cursor`, `readFrom`, `failures`).
`Begin`, `Pin`, `ReadPage`, `ReadLast`, `PageLimit`, `Interrupt`, `FirstPageFails` and
`Save` are the branches of the job; `Onward`, `Continue` and `AfterRefusal` are the
three places it can save. The channel lists the lines changed since an instant,
latest first, by offset: a line that changes meanwhile moves above the offset.
`Expire` makes the channel forget a cursor for good. Assumed: a page is
one line; equal instants keep their order; runs overlap only once a place
exists (two first runs at once may pin the later of their windows); a place saved by
the older format is left out.

### FloorRaise

Two paths evaluate the same scope, the scheduled recomputation and a competitor
snapshot. Each reads its context in one transaction and commits in a later one that
compares the versions of the bounds and of the stop (`ContextHolds`), not the price.

| State | Code |
|---|---|
| `floor`, `version`, `stopped` | the bounds and a person's stop, as `contextVersion` sees them |
| `sent`, `flight`, `checked`, `waiting` | `last_sent_amount_minor`, the write in flight with `floor_at_dispatch_minor`, the newest waiting write |
| `request` | `floor_raise_request`; `"read"` once the pass has listed it, `"fresh"` if it was renewed since |
| `lastRung`, `paced` | the last approved change is a rung; it is younger than a pace |
| `eval[p]` | how far a path has got, and the context it has read |
| `lapsed` | history: a raise was lost, or a price below a floor that had risen meanwhile landed |

| Action | Code |
|---|---|
| `SetFloor`, `ClaimBlocked` | the triggers of `request_floor_raise` |
| `BeginPass`, `Consume` | `listFloorRaiseScopes`, `consumeFloorRaise` |
| `RaiseStep`, `Proposal`, `LadderPaced`, `GatePasses` | the strategy engine, the pause of the ladder, the Gate |
| `ReadContext`, `CommitChange`, `CommitNothing`, `CommitFails` | `loadScopeContext`, `commitDecision`, `commitWithRetry` |
| `MayStand`, `LadderStepAllowed` | `assert_price_floor`, `price_ladder_step_allowed`, at creation and at every claim |
| `Claim`, `ClaimStopped`, `Accept`, `Refuse`, `Fail` | the queue's and the channel's steps, for this one scope |

Left out: the edit budget, SHADOW, clearance prices, requests from exchange rates,
the channel's own bounds, asynchronous channels, a floor above `max_price`.

### AccountSwitches

This module is finer than the others: the question is about locks, so a transaction
is a session that goes from lock to lock and from statement to statement. A
statement reads what is committed when it starts; a row that had to be waited for is
looked at again; changes appear at `Commit`. `Want` names the lock of each step
and its mode: the row of the account, the advisory lock 202 of the account, the scope, the
sync state, a row of the queue. `Through` is a statement over several rows, `Dies` a lost connection, a
timeout or the victim of a deadlock.

| Action | Code |
|---|---|
| `BeginSwitch`, `SwitchMode`, `Hold`, `Drop` | the switch of `write_mode` and its trigger |
| `Answer`, `ConfirmationGuard`, `Confirm`, `Revoke`, `DisableSync`, `Discard` | the other tools, the confirmation and the revocation, with the trigger of the journal |
| `EnableScope`, `EnableGuard` | the synchronisation of a quantity scope |
| `ClaimSync`, `Pick`, `ClaimRow`, `ModeGuard`, `QuantityGuard`, `Refused` | `claimNext` and the dispatch guards of the row |
| `InsertScope`, `InsertRow`, `DecideGuard` | the insert of a version, by a decision that claims it or by a recalculation |
| `Settle` | `recordOutcome` |

`AtomicSwitches` is what remains for those who see no lock: every transaction is one
step, and its conditions are those of the account and the queue at that instant. A
write leaves as the newest version into a free slot, a quantity only with the
confirmation; an insert of a quantity finds the scope synchronised; a switch, a
revocation or an answer ends only what it may end. `AccountSwitches` implements
it with the identity on `account`, `enabled` and `row`: a `Commit` is the step of its
transaction, all that comes before changes nothing. Each guard is read some
statements before its `Commit`, so this is what the locks are for. The mode is not among the conditions of a
dispatch, since it is read without a lock (section 6).

Left out: `last_shadow_amount`, rows and scopes held by people, attempts, budget and
floor at the claim, the tenant's lock of the recalculations (one of them runs).

### BulkJobs

A worker is one of the steps of `bulk_job`'s runner; each database statement is an
action, and the process may die, lose its lease or meet a failing statement between
them. `Claim`, `Beat`, `Lapse`, `Settle` are the lease; `Prepare`, `Look`,
`Write`, `Refuse`, `After` an import (plan again, journal, one transaction for pool
and journal row, recalculation); `Produce` an export. `Journals` and `Stores`
are what the triggers of 0108/0193 accept of a journal row and of a file. Abstractions: a file has one
product; one tenant.

## 3. Runs

| Run | Question | Bounds |
|---|---|---|
| `queue_sync` | no old value after a newer one, `APPLIED` is shown, a recalculation that writes nothing is right once the queue is empty (synchronous channel) | price and quantity scopes, 3 versions, 2 values, 2 attempts, 1 crash, people hold the scope |
| `queue_async` | no blind retry over an asynchronous channel; every write ends | 2 versions with distinct values, 2 attempts, 1 crash |
| `queue_slots` | only the newest version leaves, and the refinement of `SingleFlight`, when deadlines pass while requests travel | 2 versions, 2 attempts, 1 crash, both refusals |
| `relay_order` | nothing behind the window, duplicates from restarts only, order per scope, with two relays and lost locks | 3 events, 3 instants, batch of 3, 2 restarts |
| `relay_arrives` | every event arrives while fewer events than a batch lie in a window | 1 relay, 3 events, 4 instants, 1 restart |
| `scheduler` | one runner, the journal from slot to slot, starts an interval apart, one alert for a series | 2 processes, 1 job of either kind, 5 instants (two slots and a half), 3 runs, 1 stop, 1 lease that expires under a run |
| `reservations` | what is sold stays held back, what is published too high has somebody who still recalculates, the journal of a pool is its count | a product of our own and one of a warehouse, an order of each, 1 piece, 1 reader, at most one of a death, a count of the warehouse taken over, a stocktake, expiry after 1 of 2 instants |
| `orders_read` | nothing behind the window, a cursor stands for what was read, every change is recorded | 2 runs that overlap, 2 lines, 2 changes, 3 instants, 1 page per run, the cursor dropped at the 2nd refusal, 1 fault |
| `floor_ladder` | a rung climbs, a price below its floor is owed a raise and gets it | 4 prices, 2 floors (two rungs and a last step apart), 2 attempts, 2 changes of the floor, 1 stop, 1 snapshot, 1 fault |
| `account_switches` | the switches agree, every transaction is as if it happened at its commit (`AtomicSwitches`: no quantity leaves without a confirmation then), the shadow holds the queue | 2 owners, 1 dispatcher, 1 decision path, 1 recalculation, 1 price and 2 quantities, 2 acts of the owners, every state of the switches at the start |
| `bulk_jobs` | the journal is true, a finished job is whole, no second application after a crash, the file is that of the result, every job ends | 2 workers, 1 import, 1 export, 2 attempts, pool 0..2, 1 sale or return, 1 lost lease, 1 failing statement, any number of deaths |
| `expired_stuck` | a disagreement of the code with its documents, section 6 | 2 lines of one warehouse, nothing fails |

**Why the bounds are enough.** The hazards of a scope need an old version, a newer
one that overtakes it and, for what a history is read for, one in between: 2 to 3
versions. A retry needs 2 attempts; the limit is reached at the second, so
exhaustion is reached too. Crashes only return a thread to its start while its
request travels on; one crash gives two requests of different attempts. The slot
discipline is proved for every bound (section 5). In the relay the window is one
tick of overlap and one tick of lag: late commits, a hole in the numbers and a
restart all occur with 3 events; what `relay_order` checks of the window is
proved for every batch size, also for a batch cut in the middle of a burst. The hazards of the scheduler are about one job and two
processes, of which one has read what the other changes; a lost lease, the second
claim and the late result take 3 runs. Two failures are a series there
(`AlertAfter`, 3 in the code), so that within them one is complete and then ended by a success or carried on.
The journal is proved for every bound (section 5).

An order of a warehouse and one of our own meet in the same page, so that the
failure of one line undoes the other; one piece is enough for "sold
out" and "too much published". What is sold and the books are proved for any number
of readers (section 5). Reading needs two lines, so that one can move above the other while the window
is read page by page, and two changes of it. From 2 to a floor of 6 with steps of one
half a ladder has a rung at 3, a rung at 4 and the floor, and the floor can move while
it climbs. In `account_switches` two acts start from every state of the
switches: a confirmation and an enabling, a revocation of what was there, or a switch and its
return, around one claim; two quantities are one that
waits and one that supersedes it. An import is claimed a second time after a death or
a lost lease, and a third time only to be given up (2 attempts).

**Assumptions of single runs.** `LateDelivery = FALSE` in `queue_sync`
and `queue_async`: no deadline of ours passes while a request is
still unsettled (the code's limits are minutes, a request's seconds). It is what
those properties need: `queue_slots` sets it TRUE and shows what the
database guarantees without it. `DistinctValues` in `queue_async`: a
reading compares values only, so version 3 with the value of version 1 may be
confirmed by a late version 1; the code has no other evidence. One chain: the keyed
consumers of the broker give a scope to one dispatcher process (section 6, item 2).
`Burst` below the batch size in `relay_arrives`, at most the batch size in
`relay_order` (item 5). One reader in `reservations` (item 7); the order
job of an account is leased, and two overlap only after a lost lease. `OneDisturbance`
in `reservations`: a death, a stocktake and a count taken over do not meet in one
behaviour, which keeps the run short; what is proved of the reservations (section 5) covers
their combinations.

No run checks for deadlock: with every version created and settled a scope has
nothing left to do, clocks end, owners have acted, jobs are settled. Deadlocks of the
locks in `AccountSwitches` are there and end by `Dies` (section 6, item 9).

## 4. Fairness

* `WF(Due /\ ClaimNext)`: `services/pricing-worker/src/worker.ts:126-146` sweeps
  every few seconds, for as long as the process runs.
* `WF(Settle(p))`: a chain goes on; calls have deadlines.
* `WF` of the channel's steps per request: a request is delivered, refused or
  lost, a submission is applied or dropped.
* `SF(NextDue)`, `SF(Age)`: clocks advance. They are strong because under
  `LateDelivery = FALSE` a deadline is disabled while a request is unsettled.
* Relay: `run` polls and asks for the lock every second; time goes on. Restarts
  are bounded and never fair.
* `OrderReading`: `WF(RunStep(r))`: the scheduler starts the job again and again, a
  run goes on. Faults are bounded and never fair, except that a forgotten cursor
  stays refused.
* `FloorRaise`: `WF` of the scheduled pass, of the sending and of the pace: the
  scheduler repeats the pass, the dispatcher serves a free slot, the channel answers,
  time goes on. Nothing of snapshots and of people: a stop may last for ever, and
  the property says so.
* `BulkJobs`: `WF` of a worker's next step and of its next claim, and of the end of
  the lease of a process that has died. Deaths are not bounded: `EveryJobSettles`
  holds because the attempts are.
* `Reservations` (only in `expired_stuck`): the order job and the release go on, and
  time passes; the counterexample fails under all of it.

Nothing is assumed about people, crashes, decisions or recalculations. Only
safety is checked of the scheduler and of the switches; `OneRunner` assumes, as R-126 does, that the
heartbeat comes in time (`lapses = 0`), the other properties do not.

## 5. Proofs

Every safety property that a run checks is also the statement of a theorem; what is
left to TLC is named at the end of this section.

`WriteQueue_proofs` proves, for any number of chains, decision paths, versions,
attempts and crashes, synchronous or asynchronous, with late delivery or not:

* `TypeCorrect`: `TypeOK`. It is more than typing: `attempts` stays within the
  limit because a claim requires an attempt left, and a retry cannot bring a row
  back past it.
* `SlotDiscipline`, `SlotHolds`: the inductive invariant. `OneInFlight` alone is
  not inductive: an insert or a claim could meet a row that waits although it is
  not the newest. `SlotInv` adds that only the newest version waits
  (`OnlyNewestWaits`), that rows exist exactly for the versions created
  (`CreatedRows`) and that nothing was sent before it was created.
* `AtMostOneInFlight`, `NewestWaits`: the two readable parts of it.
* `OlderNeverLeaves`: the action property `NoOlderDispatch`.
* `QueueImplementsSingleFlight`: the refinement. `StepKinds` first sorts every
  step of `Next` into four kinds (creates, leaves, settles, keeps); each kind maps
  to one action of `SingleFlight` or to a stutter, and `LandedStays` shows that a
  version that has ended never comes back.

Up to here the only assumption is `WriteQueueAssumption` on the constants. What is on
its way to the channel needs more, and the second half of the module proves, for any
number of decision paths, versions, attempts and crashes:

* `SentHolds`: the inductive invariant `SentInv`. `FlightFits`: at most one request is on
  its way, it is the last attempt of the write in flight and has not taken effect.
  `JobFits`: what each step of a thread knows of that write; `ThreadsFit`: one thread
  at most is at work. `RowFits`: what the status of every version, ended ones too,
  says of the channel. None of the four can be kept without the others: an answer
  is only worth what the request was, a reading only what the row still is.
* `NoRetryIsBlind`, `ChannelOnlyAdvances`, `AppliedStaysShown`, `UnchangedIsRight`:
  `NoBlindRetry`, the action property `ChannelNeverGoesBack`, `AppliedIsShown` and
  `UnchangedWhenQueueEmpty`.

Their hypotheses are the assumptions of the runs (section 3), and each is needed:
`OneChain` (with two dispatcher processes a second, stale reading frees the slot under
the next attempt; section 6, item 2), `LateDelivery = FALSE`, and over an asynchronous channel
`[]TellApart`: the values of the versions differ (`DistinctValues`), because a reading
compares values. Over a synchronous channel values may repeat, which `queue_sync` covers.

`OutboxRelay_proofs` proves, for any number of relays, scopes, events and
restarts, any batch size and any gap timeout:

* `TypeCorrect`: `TypeOK`.
* `DuplicatesOnlyFromRestarts`: `DuplicatesFromRestarts`. A *life* begins with the lock
  and ends with a restart or a lost connection. `SentPerLife` counts, for every event, the
  copies received and the relays that may still send one (`MaySend`) against the lives so
  far: within a life what was published is remembered (`BatchInWindow` keeps the batch within
  what the memory covers), and an event that the broker has was committed before
  (`ReceivedCommitted`), so none comes in under a relay that has looked already.
* `WindowHolds`: the inductive invariant `TypeOK /\ WindowInv`.
* `NothingIsLeftBehind`: `NothingLeftBehind`, its readable part.
* `NothingIsOvertaken`: `NoOvertaking`, as long as what a relay is about to read fits into
  one batch (`BacklogFits`). `OrderInv` says that numbers have no gap (`NumbersFollow`)
  and that whatever a batch lacks of its scopes is received or comes later
  (`BatchWhole`); a pass then publishes no number before a smaller one (`PassInOrder`).
  The condition is needed: numbers follow the commits and a batch the start times, so a
  batch that is cut may hold a number and not the one before it (section 6, item 5).

`NothingLeftBehind` speaks of the stored watermark only, and a relay stores what it
has computed from its memory two steps earlier. `WindowInv` follows the value
back: the watermark in the memory of every relay also leaves the unpublished events
in its reach (`NothingSkipped`, first part; another relay may have stored its own
meanwhile), and so does the batch it has fetched and is about to publish, since
its watermark moves to a time of that batch (second part: `CutIsNewer` shows it for
a batch that was cut at `BatchSize`). `TimesKept` bounds every watermark by the
clock, so that an event that commits late is still within reach: this is where
`MaxLag <= Overlap` is used, the assumption of the last three theorems. The source gives
transactions that commit late as the reason for reading the window again
(`outbox-relay.ts:7-9`), and bounds their length nowhere. `MemoryKept` says that
what a relay remembers as published the broker has received, so a restart,
which forgets it, and a fetch, which skips it, lose nothing.

`Scheduler_proofs` proves, for any number of processes and jobs, of both kinds, and
whatever leases are lost and processes stop, from `SchedulerAssumption` on the
constants:

* `TypeCorrect`: `TypeOK`.
* `JournalHolds`: the inductive invariant `TypeOK /\ JournalInv`.
* `SlotsInOrderHolds`, `StartsSpacedHolds`: its readable parts.
* `OneRunnerHolds`: `OneRunner`. `LeaseHeld`: while no lease has expired under a run,
  whoever runs a job has a lease of it that has not run out, and a row names one owner.
* `SeriesToldOnceHolds`: `SeriesToldOnce`. `AlertInv` counts the alerts raised and
  about to be raised (`Accounted`) against the series in the journal: never more, and
  fewer only by the processes that stopped between `finish` and the alert. The
  count of failures in the row is that of the end of the journal, so a record completes a
  series exactly when it is the failure the alert waits for (`SeriesGrows`).

`SlotsInOrder` and `StartsSpaced` compare lines of the journal, and `finish` writes
the slot that was read at the claim, maybe long ago. `ClaimIsCurrent` says why that is
right: as long as the row names the process as owner, nobody else has recorded or
claimed anything, even if the lease has expired, so that slot and failures are
still those of the row. `DueIsSpaced` carries the distance from the last completed
run to the next slot, because no claim is taken before its slot: for this every
process's time of a tick must not be ahead of the clock.
`RecordingFollows` shows what one record does, `RecordingKeepsJournal` what it does to
the journal; `NothingRecorded` covers all other steps.

`Reservations_proofs` proves, for any number of lines, products, readers, deaths,
counts and requests, from `ReservationsAssumption`:

* `TypeCorrect`: `TypeOK`; what is published and counted never falls below zero.
* `SoldStaysHeld`: `SoldIsHeld`. The line of a warehouse leaves what is held
  back when a count newer than its confirmation arrives. That such a count has
  already left the line out follows from where the instants come from: a line
  is confirmed only when the warehouse has registered it, the confirmation
  bears the time of the clock, and every count that is newer was sent after the
  registration. The inductive invariant (`HeldInv`) says this of the counts on
  their way and of the one that was taken over (`KnownInv`), that no instant is ahead of
  the clock (`ClockInv`), and that a line that was not ordered has left no trace
  (`PlacedInv`).
* `BooksAlwaysBalance`: `BooksBalance`. Each action that moves a pool is shown to move the other
  side by as much; the page of a reader moves several lines at once, so that the
  step is an equation of cardinalities of disjoint sets.
* `NeverSilentlyOverstated`: `NoSilentOverstatement`, for one reader. What is proved
  (`OwedInv`) is stronger: the page a reader has in hand does not count as somebody who still
  recalculates, since the reader may die with it; a request does, or the next window of
  orders. Only a new reservation takes from what is left without a request that owes
  the recalculation, and its line is still in the next window: `ReadInv` says that a line the
  window does not contain has its reservation or needs none, on the page as in the orders. Two
  readers break it: one that has read an order while it was open may record it after
  the other has taken the cancelled order past the window, and die before its
  recalculation (section 6, item 7).

`FloorRaise_proofs` proves, for any prices, floors, targets, step limit, bounds and
number of faults, from `FloorRaiseAssumption`:

* `TypeCorrect`: `TypeOK`: the ladder stays within the prices, and the attempts of an
  evaluation within their limit.
* `RungsAlwaysClimb`: `RungsClimb`.
* `BelowFloorAlwaysOwed`: `BelowFloorIsOwed`. It is not inductive: the pass consumes a
  request it read two transactions earlier. `OwedInv` adds what the pass knows in
  between: after its judgement (`Judged`) either a request was made meanwhile or the
  raise it decided is on its way, and before its commit (`Decided`) the context it
  holds is of the floor in force, and a price that has changed since is cared for;
  `Rungs` ties the queue to the last decision. `StepIsRung` and `QuotientBound` are the
  arithmetic of the step limit: a raise the strategy proposes passes the Gate.

`OrderReading_proofs` proves, for any number of lines, runs that overlap, pages,
changes, refusals and faults, from `OrderReadingAssumption`:

* `TypeCorrect`: `TypeOK`; a cursor stays within the lines, because an offset only
  moves on over a line that is there (`RankBelowLines`), and refusals below their limit.
* `ReadingInvariant`: the inductive invariant.
* `NeverLeftBehind`, `CursorAlwaysEarned`: `NothingLeftBehind`, `CursorIsEarned`.

The two properties speak of the saved place, and a run writes a place it has computed
from what it read long ago, while lines changed and other runs recorded. So `ReadingInv`
says the same of every run and of every place about to be saved: `Behind` (all before
the window is recorded) and `Earned` (what is listed above the offset, and changed
before the reading began, is recorded or in the hands of the run). Places and runs are
judged against a *world*, and `GoesOn` lists how it can go on: the clock, a
change, a record. A change lifts its line to the top and lets the others
sink (`OthersMoveDown`), so no line comes to lie above an offset that
was not there before (`RankStands`), and what is earned stays earned. The end of a window
needs that an empty page lies behind every line: ranks have no gap (`NoGap`, by the
pigeonhole principle).

`AccountSwitches_proofs` proves, for any number of sessions and writes, with no
assumption on the constants:

* `SwitchesHold`: the inductive invariant `SwitchInv`.
* `SwitchesAlwaysAgree`: `SwitchesAgree`.
* `NoQuantityLeavesUnconfirmed`: the action property `NoQuantityUnconfirmed`. It has no
  run of its own; the run checks it as a condition of `Leaves` in `AtomicSwitches`.
* `RowsHold`: the inductive invariant `SwitchInv /\ RowInv` of the rows of the queue.
* `TypeCorrect`: `TypeOK`.
* `TheShadowHoldsTheQueue`: the action property `ShadowHoldsTheQueue`.
* `TransactionsAreSerial`: the inductive invariant `AllInv`, which adds `SerialInv`.
* `TransactionsHappenAtOnce`: `SwitchesAreAtomic`, the refinement of `AtomicSwitches`.

`SwitchInv` says what each lock protects (`Good`): a session knows the switch, the
confirmation or the row of the account it has read only as long as it holds what
nobody else may hold while writing it. A revocation has the advisory lock 202
exclusively, a session that sends or enables has a share of it, and the confirmation and the
answer about other tools take the row of the account. `Exclusive` says that the locks are
what they claim to be, `Shapes` which transaction is of which kind. The changes of a
transaction appear at its `Commit`; `RowInv` says that what it is about to change still
fits the rows although others commit in between (`Writes`), that a switch into the
shadow has ended, or will, what waited when it began (`Held`), that a scope has its
versions without a gap (`Grown`), and that a dispatch is only decided on as the last
thing before a commit (`Unsending`).

The refinement needs more: that what a transaction is about to commit is still
right. `SerialInv` says so of each kind. Claims and inserts hold the sync state of their scope, so
no version is added and none leaves beside them: a claim finds the slot free (`Vacant`),
takes at most the newest write, whose row it has locked (`Claiming`, `Takes`), and an insert
supersedes everything that waits (`Supersedes`). Switches and
revocations do without the sync state; they only end writes, whose rows they lock, so a write
that was about to end has at most ended meanwhile (`Drops`). What was read of the switches stands
(`Still`): enabling and revoking hold the row of the scope, and a recalculation a share of it. Every
transaction stays with the rows of its kind (`Confined`). `Spares` carries this over the
commits of the others.

`BulkJobs_proofs` proves, for any number of workers and jobs, any limit of attempts and
any number of deaths, lost leases, sales and returns, from `BulkJobsAssumption`:

* `TypeCorrect`: `TypeOK`.
* `JournalAlwaysTrue`, `SucceededAlwaysWhole`, `FileAlwaysMatches`: `JournalIsTrue`,
  `SucceededIsWhole`, `FileMatchesResult`. `WholeInv` adds how far the process
  of a job has got, and `FileInv` what a process about to finish an export vouches for.
* `CrashesNeverApplyTwice`: `CrashNeverAppliesTwice`. Its two halves have an invariant each:
  without a lost lease only one process works on a job (`Solo`), so that whoever writes
  has seen the journal (`OnceAlone`); without a pool that moves, the check of the pool stops the second
  process (`OnceStill`).

Only model-checked are the liveness properties: `EveryWriteSettles`, `EveryEventArrives`,
`EveryChangeIsRead`, `BelowFloorIsRaised`, `EveryJobSettles`, and `ExpiredIsReleased`,
which the code violates. The prover handles neither ENABLED nor fairness. The
inductive invariants are proved and have no run of their own.

## 6. What the model shows about the code

A run of its own:

1. `expired_stuck`: R-25 (`docs/decisions.md:43`) gives an unconfirmed reservation a
   life of 24 hours. `release_expired_reservations` releases all expired ones in one
   statement, and a row that was reported as shipped is refused there by
   `reservation_shipped_before_close`: one such row keeps every other expired
   reservation from being released, for as long as the warehouse does not confirm it.

Visible in the models:

2. Write queue: a settling transaction does not compare the attempt it was read
   for. Two processes that read the same write back can free the slot under the
   next attempt; the old price lands after the newer one. The database layer does
   not suffice by itself, as ADR-0009 says it does; the broker's one consumer per
   scope is needed (`Chains` with two members).
3. Write queue: the direction of a quantity is fixed at its insert. A write that has become a
   decrease meanwhile is blocked in a held scope (INV-14). `due_write_scopes` skips a
   write in flight of a held scope unless that write is itself a decrease, and a
   waiting write while the slot is taken: a decrease behind an increase
   in flight waits until some event makes a chain look at the scope.
4. Stock: `last_quantity` looks at the history only; a version after the last applied one
   that is still in the queue is overlooked. Hence the condition "once the queue
   is empty" of `UnchangedWhenQueueEmpty`.
5. Relay: a batch full of published events moves no watermark, and later events never
   leave; the batch is cut by `created_at`, so a relay that has just started may
   publish a number before a smaller one. Hence `Burst` and `BatchSize`.
6. Scheduler: the pause after a failure (R-132) is kept by the list a tick has read, not by
   the claim. A second process with an older list claims the failed job as soon as
   its lease is free. One process alone keeps the pause; `process.ts:6` allows
   several, R-129 deploys one.
7. Reservations: two readers that overlap, one of which dies between the record and the
   recalculation, can leave too much published with nothing left that would correct it
   before the next change of the product. A line of our own pool shipped while its
   count is 0 violates the CHECK of `stock_pool.on_hand` (`0007:66`): the
   transaction of the whole page fails, and so does every retry of it. A reservation
   released by its age is followed by no recalculation of its own. A confirmation
   between the look of a reader and its report of the shipping leaves the row
   CONFIRMED with the report on it, until the next call that names its order.
8. Raise to the floor: a final raise that the channel refuses, or that a stop ends after its request was
   consumed, is not repeated until an input changes (`lapsed`). A price sent before
   the floor rose may be accepted after it. The step limit is compared with the
   price that was read, which is not part of the version of the context; two rungs
   within one pace are possible over the two paths. A rung makes no
   progress when price times limit is below 10000 basis points.
9. Switches: the mode is read without a lock. A decision or a claim that has read
   LIVE may commit its dispatch after a switch to SHADOW has committed, and a row
   inserted meanwhile stays PENDING, where R-169 (`docs/decisions.md:342`) says that nothing
   leaves; `ShadowHoldsTheQueue` is therefore about what waited when the switch began.
   `0164:29-33` removes the deadlock of one pair of transactions; a cycle of three,
   and one of a decision and a switch, remain, and PostgreSQL ends them with a
   victim. A claim whose row was ended by a switch while it waited for it fails with
   an exception instead of finding nothing to do.
10. Bulk jobs: a process that lost its lease can apply an import a second time if the pool
    has come back to the quantity of the check (`CrashNeverAppliesTwice` says what that
    takes). A row REFUSED may stand beside data that were applied before it, and a job that
    FAILED may have changed the data, where the console says that nothing has
    changed (`console-model/src/i18n/en.ts:1765`).

## 7. Plan

Next modules, the most important behaviour first:

1. `Sweep`: rounds and batches over several scopes, chains released between
   collection and send, a failing record in a batch.
2. `EditBudget`: charges and refunds of a storefront day, what `Refusals` stands for.
3. `AlertDelivery`, `NotificationReceiver`, `Authorization`: letters, deliveries,
   the belief in a revocation.
4. `SnapshotGate`: the order of snapshots and the distrust of them.
5. `Scheduler`: the review of the lag (its alert repeated or lost when two processes
   review with different lists) and liveness (every due job runs while some process
   ticks).

Runs are kept few: the properties of a new module share one instance where the bounds
allow it, as `queue_sync` does for prices and quantities.

## 8. Not modelled

* Translation and I/O: channel adapters and HTTP clients (what a channel may answer is
  modelled), parsing of imports, currency rates, screens, deployment, the service runtime.
* Arithmetic without state over time: input sanity, the targets of the strategies, the
  cost, rate and halt checks of the Gate, the plans of the bulk jobs other than the
  import and the export.
* Access control: identity, sessions and second factor.
* A second implementation: the in-memory store, for tests of the port the database
  implements.
* Generated code, texts and translations, which are a large share of the
  repository's lines.
* Parts of modelled components: the weekly digest of the shadow and its last price,
  bundles, several pools of a product and allocations to channels, polling and loss
  checks, the review of the scheduler's lag, the alerts of the sweep.
* Left for the plan above: the sweep over several scopes, the edit budget, alert
  delivery, the notification receiver, channel authorization, the analytics
  export, the migration of eBay listings.
