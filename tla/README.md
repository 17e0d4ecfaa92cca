# Payments processor: TLA+ verification project

The payments processor accepts payments over HTTP, drives each of them through a bank and tells
subscribers the outcome by webhook. Its promise is one sentence of `docs/demo-walkthrough.md`: a
payment that was answered with `202` is durable and reaches a terminal state exactly once, even if a
worker or the broker dies. This project models the parts that keep that promise, checks them with TLC
on small instances, and proves the main safety results with TLAPS for every instance.

Paths below are relative to `src/apps/api/src/` unless they start with `docs/`, `packages/` or `apps/`.

## 1. Inventory

### Processes and shared state

Three kinds of process run from one code base, each in several replicas, and the dashboard runs in
browsers:

| process | loops and handlers | memory it keeps |
|---|---|---|
| API | `POST /payments`, read endpoints, webhook endpoints, bank configuration | none |
| relay | `RelayService`, `ReaperService`, `WebhookDispatcherService`, `WebhookReaperService`, `OutboxCleanupService` | timers |
| worker | `PaymentProcessor`, `WebhookProcessor`, `BankConfigSyncService` | the circuit breaker, the simulated bank's key store |
| browser tab (`apps/web`) | polling pages, the payment drawer, the chaos and webhook forms | the page's state |

They share Postgres (`payments`, `payment_events`, `idempotency_keys`, `outbox`, `webhook_endpoints`,
`webhook_deliveries`, `bank_config`) and two BullMQ queues in Valkey, which runs without a volume.
Nobody calls anybody: the components meet only in rows and jobs.

### Components

| component | state | operations | what makes it correct |
|---|---|---|---|
| Submission (`payments/`) | four rows per payment | header and amount checks, one transaction of four inserts, lookup after a unique violation | one payment per key; a 202 is durable; racing requests are told the same; nobody waits for ever |
| Outbox relay (`relay/relay.service.ts`) | `outbox.published_at` | lock unpublished rows, add their jobs, mark, commit | a marked row has its job; every row is eventually taken |
| Queues (BullMQ, external) | jobs by id | add (an id already known is dropped), lock, complete, fail, stalled check | - |
| Payment worker (`worker/payment.processor.ts`) | the payment's row and trail, position in `process()` | read, compare-and-set claim, breaker, bank call, retry / give up / finalise, enqueue | the trail is a legal chain; terminal is final; one verdict, announced once; COMPLETED only if charged |
| Circuit breaker (`bank/circuit-breaker.ts`) | state, failures, openedAt | `allow`, `record` | one probe when half open |
| Bank adapter and timeout (`bank/`) | authorised keys, charges, calls in flight | `authorize`, `withTimeout` | one charge per payment |
| Payment reaper (`relay/reaper.service.ts`) | `updated_at` of rows in flight | send PROCESSING rows back, re-drive both statuses | a claimed payment always settles; counters stay true |
| Webhook endpoints, dispatcher, processor, reaper (`webhooks/`) | endpoints, delivery rows, attempts | fan out, POST, record, retry, re-drive | dead only after the whole budget failed; delivered only if received; every delivery rests |
| Bank configuration and its sync (`admin/`, `bank/bank-config-sync.service.ts`) | one row, a watermark per worker | update, poll | the worker ends with the latest mode |
| Outbox retention (`relay/outbox-cleanup.service.ts`) | daily partitions | create ahead, drop old | nothing undelivered is dropped; an insert has its partition; the table is bounded |
| Read endpoints (`payments/`, `webhooks/webhook-deliveries.controller.ts`) | - | get, keyset pages, trail | a walk shows every row once |
| Money (`packages/shared`) | - | text to cents and back, display | exact or refused |
| Dashboard pages (`apps/web/src/app`, `lib/usePolling.ts`) | what is shown, errors, forms | poll, hide and show, apply, register | the page comes to show the present state and keeps what was typed |
| Payment drawer (`apps/web/src/components/SubmitPaymentForm.tsx`) | fields, key, result | edit, new key, submit, close | what is reported happened; the button comes back |
| Backoff, configuration, health, metrics, error format, architecture page, e2e tests | - | - | - |

### How a payment travels

1. `insert_txn` commits the row (PENDING), its first trail entry, the idempotency key and a
   `payment.submitted` outbox row.
2. A relay adds the job under the outbox row's id and marks the row published.
3. A worker claims the row (PENDING or RETRYING to PROCESSING), asks the breaker, calls the bank under a
   timeout, and finalises (COMPLETED or FAILED, with a terminal outbox row), sends the payment back
   (RETRYING, with a job under `paymentId:retry:n` added after the commit), or gives up (FAILED).
4. A reaper finds rows in flight whose `updated_at` is too old, sends PROCESSING rows back and re-drives
   them under a fresh job id.
5. A dispatcher turns a terminal outbox row into one delivery per active endpoint; a webhook worker
   POSTs it, up to `MAX_WEBHOOK_ATTEMPTS` times; a second reaper re-drives overdue deliveries.

### What is hard

* Every commit is followed by a queue operation outside it, and a process can die in between.
* A worker's read and its compare-and-set are two statements, and its early returns leave the
  transaction callback only: a worker that claimed nothing still calls the bank.
* A timed-out bank call goes on, and answers after the payment has been retried or settled.
* A job can be run twice: its lock expires, it stalls, the relay aborts after the add, the reaper
  re-drives a payment whose worker is only slow.
* The webhook processor writes back what it computed from an old read, without a condition.
* Ids decide which jobs BullMQ drops, and they are made from counters that two components move.
* The retention loop reads the clock twice for one partition and midnight may come in between; it drops
  by date, without looking at what the consumers have had.
* Ids are taken before the transaction, so rows appear behind the cursor of a client that is paging.
* Polls of one page overlap and are answered in any order; a submission's answer may be lost, or be a
  500, after the payment was made, and the drawer be closed meanwhile.

`PROJECT.json` lists each of these hazards at its line, with the properties that would catch it.

## 2. Modules

| module | models | lines of interest |
|---|---|---|
| `PaymentStatus` | the shared state machine | `packages/shared/src/index.ts:1-26` |
| `CircuitBreaker` | the breaker class, as operators on a record | `bank/circuit-breaker.ts` |
| `PaymentPipeline` | submission (one step), relay, payments queue, workers, bank, reaper, faults | `worker/payment.processor.ts`, `relay/`, `bank/` |
| `PaymentLifecycle`, `SubmissionContract`, `DeliveryContract` | the contracts that the pipeline, the submission and the webhooks implement | (abstract) |
| `WebhookDelivery` | endpoints, dispatcher, webhooks queue, processor, reaper, faults | `webhooks/` |
| `Submission` | concurrent `POST /payments` down to the unique index | `payments/payments.controller.ts`, `payments.service.ts:24-131` |
| `BankControl` | the admin endpoint, the workers' poll of `bank_config`, the simulated bank with its modes, breaker and timeout | `admin/`, `bank/`, `worker/payment.processor.ts:94-144` |
| `OutboxRetention` | the partitions of the outbox, the cleanup loop, midnight | `relay/outbox-cleanup.service.ts`, `drizzle/0012_tired_alex_wilder.sql` |
| `PageWalk` | a client paging through payments or deliveries under concurrent writes | `payments/payments.service.ts:142-150`, `webhooks/webhooks.service.ts:52-68`, both controllers |
| `Money` | amounts as operators, with doubles of `SafeBits` bits, and a reference | `packages/shared/src/index.ts:28-57`, `apps/web/src/lib/api.ts:143-148` |
| `PaymentForm` | the payment drawer, lost requests and answers | `apps/web/src/components/SubmitPaymentForm.tsx` |
| `Dashboard` | the four polling pages and their forms | `apps/web/src/app/`, `apps/web/src/lib/usePolling.ts` |
| `MCPaymentPipeline`, `MCWebhookDelivery`, `MCSubmission`, `MCBankControl`, `MCPaymentForm` | the instances for TLC; the other modules need only a cfg | |
| `PaymentPipelineProofs`, `SubmissionProofs`, `BankControlProofs`, `WebhookDeliveryProofs`, `OutboxRetentionProofs`, `PageWalkProofs`, `PaymentFormProofs`, `DashboardProofs` | theorems | |

The three contracts meet: what `PaymentForm` assumes of the API is `SubmissionContract` for one customer;
a payment that it creates is accepted in `PaymentLifecycle`, whose `announced` events are those that
`DeliveryContract` emits. Each is proved of its own component, not yet of their composition (section 7).

### PaymentPipeline

| variables | code |
|---|---|
| `status`, `version`, `attemptCount`, `overdue` | table `payments`; `overdue` is `updated_at < now - REAPER_DEADLINE_MS` |
| `paymentEvents` | table `payment_events`, in insertion order |
| `terminalEvents`, `outbox` | the terminal and the `payment.submitted` rows of `outbox` |
| `held`, `added` | a relay's open transaction: rows locked, jobs already added |
| `toReap` | what a reaper's commit has still to enqueue |
| `job`, `recovered` | BullMQ: the state of every job id; jobs whose one forgiven stall is used |
| `pc`, `cur`, `owns`, `seen`, `scheduledAttempt`, `target` | each worker: where it is in `process()`, its job, whether the lock is still its own, `row.status`, `scheduledAttempt`, `dis.target` |
| `store`, `charges`, `late` | the bank: keys each process sees, money moved, calls that outlived their timeout |
| `breaker` | one breaker per worker process |

A database transaction is one action where a row lock makes it one. Transaction 1 of the worker is two
(`ReadStatus`, then `Claim` or `ClaimMissed`) because its `SELECT` takes no lock. The relay's is four
(`RelaySelect`, `RelayAdd` per row, `RelayPublish`, or `RelayAbort`) because its adds are visible at
once and do not roll back. What follows a commit is a separate action (`EnqueueRetry`, `ReapEnqueue`)
since a crash can come between.

`JobIds` keeps the three id schemes of the code. Retry ids are never reused and a finished id is still
known to BullMQ, so adding it again does nothing. The reaper's ids carry the time and are always fresh;
the model numbers the unfinished ones. The bound `MaxReapJobs` limits how many of one payment are
unfinished at a time.

Two constants choose assumptions the code leaves open:

* `DurableBank`: TRUE is the bank ADR-007 relies on (it remembers idempotency keys, and a call goes on
  when the caller dies); FALSE is `SimulatedBankAdapter`, whose keys live in one process.
* `Timely`: TRUE if the reaper's deadline outlasts a job (as the default configuration has it); FALSE lets
  a row go overdue under a busy worker.

Faults are a set of kinds and a budget: a worker process dies (`crash`), a live worker loses its lock
(`lock`), a query or add throws (`job`; jobs have a single attempt), Valkey forgets everything
(`broker`), a relay's transaction aborts (`relay`), a reaper dies before its adds (`reap`). Bank
timeouts, late answers, declines and errors are not faults: they may happen at any call.

### WebhookDelivery

Rows, jobs and workers as above, with `read` (the `attempts` a worker read), `reply`, `received` (what
the receiver really processed) and `failedPosts`. Finished jobs are evicted from this queue, so an id can
be used again. `Post` has three outcomes: taken, refused, and taken with the answer lost. The three
`Record...` actions are the three updates, which look at nothing but what the worker computed.

`DeliveryContract` keeps of it the outbox, the endpoints, the status of each row, `received` and
`failedPosts`, and none of the jobs, workers and reads. It allows POSTs to repeat and one record to replace
another, as the code does, but a row only for an event fanned out to an endpoint that was active then, a
POST only for a row, and a status only if it was earned.

### Submission

A request is a record of customer, key and body. `Blocked` is the unique index: the second inserter of a
key waits for the first transaction's end. `Commit` is Postgres carrying the COMMIT out, `RespondAccepted`
its acknowledgement and the answer. In between the connection may break (`LoseConnection`): the driver
throws, `insert_txn` rethrows and the client is told 500 for a payment that is durable. If it breaks, or
the process dies (`Die`), with the transaction open, the COMMIT may or may not have been sent: the
transaction is `indoubt`, keeps its key, and `Resolve` is Postgres committing it or rolling it back. A
statement that fails, the loser's lookup included, is `Abort`.

`SubmissionContract` keeps the payments and the answers: the first valid request of a key creates its
payment, and a 202 or 409 compares the request with it. A 400 or 409 says that the request created nothing
and never will. A 500 is no verdict, like silence: the request may have created its payment or still do
so, and a retry under the same key, which cannot create a second one, is how the client finds out.

### BankControl

The bank as one worker process has it. `PaymentPipeline` lets every call have every outcome; here the
outcome follows from the adapter's `mode`, `failCount` and `failN`, and those from the row the operator
patches.

| variables | code |
|---|---|
| `row`, `clock`, `patch` | the `bank_config` row, the timestamps handed out, the patch of a request between `new Date()` and its `UPDATE` |
| `fetched`, `lastAppliedAt` | `sync_once`: the row read and not yet applied, the watermark |
| `settings`, `failCount`, `store`, `charges` | `SimulatedBankAdapter` |
| `call`, `late` | the call `withTimeout` waits for, with the latency it started with; calls it gave up on |
| `breaker`, `cooled` | `CircuitBreaker`; whether `OPEN_MS` have passed since `openedAt` |

A latency is only `slow` (beyond `BANK_TIMEOUT_MS`) or not, and is fixed when the call starts, as in the
code. Everything after it in `authorize` is synchronous, hence one step. A `PUT` request takes its timestamp
(`BuildPatch`) before its `UPDATE` (`update`), so requests that overlap may write in the other order.
Timestamps of two requests are taken to differ; the watermark is compared as the code does.

### OutboxRetention

Days are distances from today, so the model has no last day and midnight is the step that ages
everything. `parts` are the day partitions as ranges, `pending` the rows no consumer has marked,
`default` the days the DEFAULT partition holds a row of. An iteration of `ensurePartitions` is two steps,
`TakeFrom` and `Create`, because it calls `utcDay()` twice; a CREATE that Postgres refuses (an overlap,
or rows in DEFAULT) ends the tick without `dropExpired`, as the `catch` does. `MaxLag` and `MaxOutage`
are the guards of `Midnight`: how far consumers and the loop may be behind. `strained` remembers that
the loop was away longer than it creates ahead, or that midnight fell between the two clock reads.

### PageWalk

Writers take an id, and commit or roll back later; rows change status. The client starts a walk with or
without a status and asks for pages of any size. `Limit` is `ORDER BY id DESC LIMIT n`; `NextPage` reads
one row more than asked for, cuts it off and hands out the id before it as the cursor.

### Money and PaymentForm

A text is its digits before and after the point. Numbers are JavaScript's, with `SafeBits` significant
bits (53 in the code), so `convAmountToUnits` rounds where the code would and refuses what it would. The
form's state is the component's hooks; a closed drawer's request goes on as an orphan, and so may one that
failed without a verdict (`Abandon`). The API behind it is `SubmissionContract` with one customer, as a
function of its payments. 400, 409, 500 and a lost answer are all `failed`: `submitPayment` throws.

### Dashboard

One visit to one page. `reqs` are the `refresh()` calls in flight, which do not wait for one another, with
what each GET was answered; `shown`, `error`, `loading`, `mode` and `initialized` are the page's hooks.
What the API returns is a version number.

## 3. Runs

Deadlock is checked in `outbox_retention` and `page_walk`. In the others the system may legitimately
rest: every payment or delivery has settled and the faults are used up, or the page's bounds are.

| run | instance | shows |
|---|---|---|
| `pipeline_safety` | 1 payment, 2 workers, `MAX_RETRIES = 1`, breaker trips at 1, reaper may cut in, any one fault (1.6 million states) | type, audit trail, counters, verdict, charge invariants; retry ids are fresh; terminal is final; refinement of `PaymentLifecycle` |
| `pipeline_recovery` | 1 payment, 1 worker, any two faults, per-process bank | a claimed payment settles |
| `pipeline_delivery` | 2 payments, 2 relays, 1 worker; crash, lost lock or relay abort | batches of the relay: no mark without a job, every accepted payment settles |
| `webhook_recovery` | 1 delivery, 2 workers, budget 2, any one fault, untimely reaper | budget is honest, delivered means received, deliveries rest; refinement of `DeliveryContract` |
| `submission_race` | 3 requests on one key (two bodies), another customer, a request without key, one the DTO refuses, one that does not parse | one payment per key, durable and consistent answers, no lost lookup, no endless wait; refinement of `SubmissionContract` |
| `bank_control` | 1 worker, 1 payment, 2 `PUT` requests that may overlap, `failN` 1 or 2, 1 restart | the fail count is bounded, one charge per key, no stuck breaker; if the row is left with the latest timestamp, the worker ends with its settings, and a bank left healing authorises a payment that keeps being asked for |
| `outbox_retention` | `AHEAD_DAYS = 1`, `RETENTION_DAYS = 2`, 3 days migrated, lag 1, outage 2 | no row is dropped before its consumer had it, no insert without its partition, the table is bounded |
| `page_walk` | 4 ids, 2 statuses, pages of 1 or 2 | no row twice, none left out, the walk ends |
| `payment_form` | 2 keys, 4 texts (one malformed, one past what a number holds), 10-bit numbers, 1 request without a drawer followed | a duplicate created nothing, what is reported is stored to the cent, the button comes back; before it starts TLC evaluates the assumptions of `MCPaymentForm` (`RoundTrip`, `ExactOrRefused`, `DisplayedExactly`) over every amount the bounded numbers hold, and texts beyond |
| `dashboard` | every page, 2 polls in flight, 2 changes, 1 failed request, hidden once | the page comes to show the present state and stays with it, edits are kept |
| `pipeline_silent_failure`, `pipeline_stranded_pending` | the smallest that show it | section 6 |

Why the bounds are enough:

* One payment is enough for everything about a payment's row, trail and charges, since workers of
  different payments share only a breaker, whose answers are covered by letting it trip at the first
  failure and reopen at any time. Batches of the relay need two: `pipeline_delivery`. A reaper's batch
  of several stranded rows takes as many faults as rows and is left to the theorems.
* Two workers give every race on a row: the second one can be redelivered, re-driven or retried. A
  third meets the same rows and the same compare-and-set; the theorems do not depend on the number.
* `MAX_RETRIES = 1` reaches retry and exhaustion; with the reaper moving the same counter two re-drives
  and a retry meet. `RetryIdFresh` is proved for every limit.
* `MaxAttempts` stops following the reaper once `attemptCount` is past it. It is larger than `MAX_RETRIES`
  wherever the reaper matters, so exhaustion by the reaper's own increments is reached.
* `bank_control` has two updates, so that one can be read and overtaken by the next before it is applied,
  and two requests, so that they overlap in either order. One payment meets every mode, timeout and state
  of the breaker; the safety theorems hold for any number. A second worker would share only the row with
  the first. `MaxLate = 1` has a timed-out call of a key overlap with its retry.
* One fault combined with a reaper that cuts in gives two processors of one payment; `pipeline_recovery`
  has two faults, so the recovery itself can be hit.
* `outbox_retention` has an outage longer than `AHEAD_DAYS`, so that rows do reach DEFAULT and the loop does
  fail, and a retention longer than the lag. `InsertsHaveHome` is exact: one more midnight than
  `AHEAD_DAYS` and a row lands in DEFAULT. The theorems hold for the code's 7, 7 and 16.
* Four ids and pages of one or two give a first, a middle and a last page with a row committed behind the
  cursor and one ahead of it.
* `payment_form` has two keys, so that a retry under the old key follows one under a new key. Ten bits put
  the limit of exact numbers within reach; nothing in the operators depends on the width.
* `dashboard` needs two polls in flight for an answer out of order and two changes for an answer that is
  older than what is shown.

Symmetry over workers, relays and payments is used only where no liveness property is checked.

### Fairness

Weak fairness of each worker's next step and of taking a job, of each relay and each reaper, of BullMQ's
stalled check and of time passing; of each submission handler and of Postgres ending the transactions of
clients that are gone. The code justifies these: every poller re-arms its timer in a
`finally`, a worker is restarted by the orchestrator, `withTimeout` bounds the one call that could hang.
In the pipeline nothing is assumed of customers, of late bank answers or of faults, and no strong
fairness: a worker may be missed by the reaper's compare for ever only if the row goes overdue again and
again under it, which `Timely` excludes for the liveness runs of the pipeline. That is an assumption on
configuration (`REAPER_DEADLINE_MS` above the longest job), which the default values meet.
`webhook_recovery` needs no such assumption.

`BankControl` assumes that a request once received writes its patch, that the poll re-arms (its
`finally`), that calls end, answered late or not (a latency is at most 30 s) and that time passes.
`LatestConfigApplied` and `BankHeals` are conditional on `LastIsLatest`: the row was left by the request
with the latest timestamp. `BankHeals` is about payments that keep being asked for, more often than
`MAX_RETRIES` alone would, so it has strong fairness of `Ask` for each key: while a worker is busy with
another payment the action is disabled, but the queue hands jobs out in order and every payment gets its
turn.

`PageWalk` assumes that a client with a cursor asks for the next page. `PaymentForm` assumes that the
browser ends every request, answered or lost, and runs the promise's continuation. `Dashboard` assumes
that the interval timer fires while the tab is visible and that requests end; `CatchesUp` is claimed only
of tabs that are looked at again and again (`[]<>visible`), since a hidden tab is not polled. Nothing is
assumed of operators, and `OutboxRetention` needs no fairness: how long the loop may be away is a bound.

## 4. Proofs

All theorems are about `Spec`, without fairness, and hold for every choice of the constants allowed by
`PipelineAssumption`, `ThresholdAssumption`, `SubmissionAssumption`, `BankControlAssumption`,
`WebhookAssumption`, `RetentionAssumption`, `WalkAssumption`, `TextsAssumption`, `NoneAssumption`,
`LengthAssumption` and `PowersOfTwo`: any payments, workers, relays, requests,
deliveries and rows, any retry limit, budget and page sizes, any faults and any bounds. None of these sets
has to be finite, except the ids of `PageWalk` (pages are counted). The retention theorems use two more
assumptions: the migration creates at least as far ahead as the loop (`MigrationAssumption`; 16 days
against 7 in the code) and consumers are never a whole retention behind (`LagAssumption`), which nothing
in the code enforces. `PowersOfTwo` is arithmetic the provers do not know (2^(j+k) = 2^j 2^k up to twice
the width of a number) and says that a number has at least 7 bits; TLC evaluates it at the run's width.
`TextsAssumption` says what the DTO's pattern lets through, digits with at most two decimals, and that a text
within the length limit is below the square of the largest number (4 x 10^22 and 2^106 in the code).

| theorem | module | statement |
|---|---|---|
| `TypeCorrect` | `PaymentPipelineProofs` | `Spec => []TypeOK` |
| `CompletedOnlyCharged` | | COMPLETED only after a charge, whatever bank |
| `ChargedOnce` | | at most one charge, not before the claim, if `DurableBank` |
| `RetryIdsFresh` | | a retry is never dropped as a duplicate |
| `TerminalStays` | | a settled payment is not touched again |
| `TrailUnbroken` | | the audit trail is a legal chain to the present status |
| `VerdictsAnnounced` | | one true announcement, silent only after exhaustion |
| `CountersMatch` | | `version` and `attemptCount` agree with the trail |
| `PublishedHaveJobs` | | no published row without its job, unless the broker lost it |
| `Implementation` | | `Spec => ImplementsLifecycle`, if `DurableBank` |
| `SubmissionTypes`, `SubmittedOnce`, `AcceptedDurable`, `LoserFinds`, `AnswersAgree` | `SubmissionProofs` | idempotent submission |
| `SubmissionRefines` | | `Spec => ImplementsContract` |
| `WebhookTypes`, `DeadAfterBudget`, `DeliveredReceived` | `WebhookDeliveryProofs` | dead only after the whole budget failed, delivered only if received |
| `DeliveryRefines` | | `Spec => ImplementsDelivery` |
| `RetentionTypes`, `NoRowLost`, `AlwaysHome`, `TableStaysBounded` | `OutboxRetentionProofs` | no undelivered row dropped, every insert has its partition, the table is bounded |
| `WalkTypes`, `PagesDisjoint`, `PagesComplete` | `PageWalkProofs` | a walk shows no row twice and leaves none out |
| `BankTypes`, `ChargedPerKey`, `NeverStuckHalfOpen` | `BankControlProofs` | the fail count is bounded, one charge per key, no stuck breaker |
| `ConversionExact` | `PaymentFormProofs` | text to cents is exact, and refused exactly if too long or too large |
| `DisplayExact` | | cents are displayed exactly below `DisplaySafe` |
| `ReplayIsDuplicateHolds`, `ResultIsStoredHolds` | | what the drawer reports is true |
| `EditsKeptHolds` | `DashboardProofs` | the chaos form keeps the operator's edits |

**The pipeline's invariant.** None of the safety properties is inductive. The reason is the code's most
surprising habit: a worker calls the bank whether or not it made the claim, and a call can outlive its
worker's interest in it. So `AtMostOneCharge` cannot be derived from the row the worker read. What
carries the proof is a fact that no step undoes: `Claimed(p)`, the payment is past PENDING.
`Inv` says, beside `TypeOK`:

* `NamesAccepted`: whatever names a payment (outbox row, batch, job, worker) names an accepted one;
* `WorkersClaimed`: a worker past its claim, and a late call, belong to a claimed payment - if its own
  compare-and-set missed, somebody else's had succeeded;
* `ChargesKnown`: a charge implies a claim, a stored key or a COMPLETED verdict implies a charge;
* `KeysHonoured`: with a durable bank, every process sees the key of every charge, and there is one;
* `RetryIdsUsed`: retry ids up to `attemptCount` only, and a scheduled one is unused and nobody else's;
* `OneOwner`: a locked job is active and has one owner, without which a finished job could come back.

The step proof goes through shape lemmas (`RowSteps`, `WorkerSteps`, `JobSteps`, `ChargeSteps`,
`BatchSteps`): each says in how few ways any step can touch one part of the state, with one case per
action; the conjuncts of `Inv` then follow from the shapes and not from the 28 actions. `TrailUnbroken`,
`VerdictsAnnounced`, `CountersMatch` and `PublishedHaveJobs` are inductive on top of `Inv`. The
refinement proof maps every way a row can move to a step of the contract; the reaper's batch is the
contract's `Retry(S)`.

**The submission's invariant** adds to the properties that the three tables are written together
(`TablesAgree`), that a transaction that is not over, in doubt or not, has its key to itself (`KeyHeld`)
and what a handler knows after a commit or a conflict (`CommitKnown`, `RefusedDiffers`). The refinement
needs `Placed` besides: a handler answers once, reaches the tables only with a valid request, and was told
nothing but a 500 while its transaction is in doubt. `Commit`, and a `Resolve` that commits, are the
contract's `Create`; every answer is one of its four.

**The bank's invariant** adds that stores are finite: `ChargeSteps` shows that charges and keys only move
together, and a key that was not there makes the store one larger. `HalfOpenProbed` is inductive by itself:
only `Ask` opens a probe, and all that ends a call records it or replaces the breaker.

**The webhooks' invariant.** A processor overwrites the row with what it computed from an old read, so
nothing can be concluded from the row that is there. What carries the proof is that `failedPosts` and
`received` only grow: what a worker read (`ReadCounted`) and was answered (`AnswerTrue`) stays true of
them however late it writes. `Counted` and `DeadSpent` follow for the rows. `RowsDispatched` and
`NamesRows` are needed for the dispatcher: it makes rows only of events nobody has worked on. The same
invariant gives the refinement: what a worker POSTs or records is a row by `NamesRows`, and its record is
earned by `WorkersTrue`.

**The retention's invariant** is `Safe`, which holds always (partition ranges are at most two days long, a
row lives in a partition that is not older than the row's lag allows, only expired partitions are on the
list to drop), and `Steady`, which holds until the loop is strained: partitions exist for the days
`AHEAD_DAYS - outage` ahead (`Ahead`, and while a tick runs for those it has `Made`) and none is older
than the retention and the outage (`Behind`). `AlwaysHome` and `TableStaysBounded` come from `Steady`,
`NoRowLost` from `Safe` alone.

**The walk's invariant** says where the cursor stands: nothing below it was shown (`Descends`), and
everything steady from it upwards was (`Covered`). The page itself is two lemmas on finite sets: a last
page is all that was selected (`LastPage`), and on a full one the cursor is the lowest row shown
(`FullPage`).

**Money.** `convAmountToUnits` rounds to a double three times. `DoubleBounds` is what makes it exact: a
number up to the largest safe one is its own double, and a larger one has a larger double, so whatever was
rounded on the way ends up refused. `DisplayExact` is a count: the quotient by 100 keeps at least seven
bits after the point there, so its error is below half a cent.

**The forms' invariants.** `ReplayIsDuplicate` is about the drawer's memory, and needs that the drawer was
told only of payments that exist (`DrawerOK`): then a request that creates one cannot be about one of
those. `PaymentsExact` and `StoredAs` give `ResultIsStored`; payments only grow, so that nothing in the
fields or from closed drawers disturbs them. For the chaos form: before it is seeded nothing counts as an
edit, and afterwards only the operator changes it.

The inductive invariants were checked by TLC on the runs' instances before they were proved.

**Only model-checked:** the liveness properties (`InFlightSettles`, `AcceptedSettles`, `DeliverySettles`,
`EveryRequestEnds`, `LatestConfigApplied`, `BankHeals`, `WalkEnds`, `SubmitEnds`, `CatchesUp`), which need
fairness and so are out of the prover's reach; and `RoundTrip`, which needs induction over digit strings
(`Value` is left uninterpreted in the proofs: what they use of it is that it is a natural number). Every
invariant and every refinement that a run checks is proved as well. The types of `OutboxRetention` and
`PageWalk` are only proved.

## 5. What is not modelled

* The dashboard's architecture page, tables and styles, metrics, health checks, logging, configuration
  parsing, error formatting and wiring: they change no state the properties are about.
* Currencies, payloads, signatures and correlation ids: carried along and never decided upon after
  validation. Amounts are in `Money` and `PaymentForm` only.
* The order in which the trail is read back: the model keeps it as it was inserted (section 6).
* The delays of `backoff`: only their order matters to the models, and every order is allowed.
* Real time: backoff delays, the breaker's open time, the reaper's deadline and timeouts are choices, so the
  runs cover every order the clocks could produce and say nothing about how long anything takes.
* In the pipeline, the failure modes of the simulated bank: every call may have every outcome there
  (`BankControl` has the modes).
* A bank adapter whose `authorize` throws something else than a timeout (line 139 of the worker): the only
  adapter never does. A non-retryable `error` outcome neither.

## 6. Where the documents and the code disagree

Two runs expect a violation, each of a sentence in the repository (quoted in `PROJECT.json`):

* `pipeline_silent_failure`: a payment that exhausts its retries is FAILED without a `payment.failed` event.
* `pipeline_stranded_pending`: a job lost before the claim leaves the payment PENDING; no one looks at it.

Met while modelling, without a run:

* With idempotency keys per process (`bank/simulated-bank.adapter.ts:13`, `DurableBank = FALSE`) a timeout
  followed by a retry elsewhere charges twice; `docs/adr/007` relies on a bank that remembers.
* A redelivered job of a settled payment still calls the bank: the early return at
  `worker/payment.processor.ts:58` leaves the transaction callback only. A bank that honours its keys
  makes it harmless.
* A payment can be FAILED and charged, when a call answers after the retries were exhausted
  (`PaymentLifecycle` says so openly: `Charge` is allowed in any claimed status).
* A webhook reaper acting on an old read makes a second live job, and the event is sent twice
  (`webhooks/webhook-reaper.service.ts:93`). The processor that loses such a race can overwrite
  `delivered` with `failed`, since its update looks at no status (`webhooks/webhook.processor.ts:107`).
* Of two overlapping `PUT` requests the one written last may carry the older timestamp and is then never
  applied by a worker that saw the other (`bank/bank-config-sync.service.ts:51`);
  `docs/adr/012-bank-chaos-control.md:19` says without condition that changes are "eventually applied".
  `LatestConfigApplied` carries the condition; without it, TLC finds it violated in the instance of
  `bank_control`.
* A 500 may be the answer to a submission whose payment is committed: the acknowledgement of the COMMIT
  was lost (`payments/payments.service.ts:37-83`, rethrown at 129). The contract says so; a retry under the
  same key is safe, one under a new key pays twice.
* Once the cleanup loop was away for more than `AHEAD_DAYS`, rows land in DEFAULT. Postgres then refuses
  the partitions of those days, the tick stops before `dropExpired`, and so does every later tick as long
  as it wants one of these days. Midnight between the two `utcDay()` calls makes a partition of two days,
  which is dropped a day early for its second day and whose overlap refuses the next day's partition.
  `strained` marks both; `docs/adr/015` describes DEFAULT as a safety net only.
* The trail is read back by `occurredAt` (`payments/payments.service.ts:158`), which is the start of the
  writing transaction: a claim that waited is listed before what it waited for, and ties are in any order
  (`apps/e2e/src/07-auditability.e2e.test.ts:46` compares the order).
* `formatMoney` is off by a cent for amounts above `DisplaySafe` (2^46 dollars), where the sum of cents is
  still exact.
* What is typed into the chaos form before its first poll is answered is overwritten by the seed
  (`apps/web/src/app/chaos/page.tsx:56`), and an error of Apply is erased by the next poll.
* If the answer of a submission is lost, the retry is told of the existing payment and the drawer calls it
  "Accepted for processing", since it decides by its own memory.
* The submission does not write `currency` (`payments/payments.service.ts:38`, against `NOTES.md:14`); the
  reaper's trail entries have no correlation id (`relay/reaper.service.ts:94`, against
  `apps/e2e/src/07-auditability.e2e.test.ts:55`).

## 7. Plan

Done: the pipeline, submission and webhooks, each with its contract, its invariants and its refinement;
the bank's control path, outbox retention and pagination with their safety proofs; money and the forms of
the dashboard with theirs.

Left:

1. A composition of the contracts through the outbox: a verdict reaches exactly the subscribers of its
   moment, end to end.
2. The order of the trail as it is read back, with a clock per transaction.
