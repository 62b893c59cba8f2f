# Verification of gaotk

gaotk is an API gateway written in Go (`src/backend`): it forwards AI requests
to upstream accounts, bills its users, and runs jobs for them. This directory
holds TLA+ models of four parts of it.

**Batch image jobs** are where money, several processes and an external
service meet. A user submits a job, the gateway freezes a
hold on the balance, uploads the job to a provider, polls it from workers,
indexes the output, charges what was produced and gives the rest back. A
submission, an owner who cancels, a recovery loop, several workers and the
provider act on one job at the same time, over PostgreSQL, Redis and HTTP,
without a transaction that spans any two of them.

**Idempotency records** are what keeps a repeated request from doing its work
twice, and, under one fixed key, what keeps an update, a rollback and a restart
of the server apart. A row with a lock time and an expiry time is claimed,
renewed, taken over from the dead, finished and cleaned up by requests that
each read the clock at a moment of their own.

**Payment orders** are paid at a provider that reports the payment as often as
it likes, while the user cancels, the order expires, a job verifies it and an
administrator retries or refunds it. Every one of these works on the order with
conditional updates and without a lock that spans two of them.

**OAuth tokens** of upstream accounts are refreshed by background cycles and by
requests of several processes. A refresh token may be presented once; a second
presentation costs the account.

All source paths below are relative to `src/backend/internal/`
(`service/`, `repository/`), unless they start with `src/`.

## 1. Inventory of the system

| Component | State | Operations | Who it talks to | Modelled |
|---|---|---|---|---|
| Batch image job table (`service/batch_image.go`, `repository/batch_image_repo.go`) | row per job: status, provider job name, counts, retry counter, error, `updated_at`, deletion marks | create, transition under the row lock, touch, conditional fail, record submit, record failure, replace items, mark settled, settlement failed, mark deleted | handlers, workers, recovery | `BatchImageJob`, `BatchImageRepo` |
| Balance holds (`repository/usage_billing_repo.go`, `service/batch_image_billing_hold.go`) | `users.balance`, `users.frozen_balance`, claims in `usage_billing_dedup` | reserve, capture, release, charge of other usage | submission, cancel, recovery, workers | `BatchImageLedger`, `BatchImageHold` |
| Queue (`repository/batch_image_queue.go`) and worker loop (`service/batch_image_worker.go`, `batch_image_worker_runtime.go`) | Redis list `ready`, zsets `delayed` and `active`, `inflight` keys, job locks | enqueue, reserve, requeue, ack, refresh, move due, recover stale, lock, unlock | producers, workers, maintenance loops | `BatchImageQueue` |
| Submission, cancel, delete, cleanup, recovery (`service/batch_image_public.go`, `batch_image_billing_recovery.go`, `batch_image_cleanup_service.go`) | none of their own: what they read earlier | Submit, repeated Submit, Cancel, DeleteRecord, output cleanup, release of stale submissions | all of the above and the provider | `BatchImageHandlers` |
| Processing and settlement (`service/batch_image_processor.go`, `batch_image_settlement.go`) | none of their own | poll, index, settle, retry limit, release | all of the above and the provider | `BatchImagePipeline` |
| Providers (`service/batch_image_provider*.go`) | the upstream job | submit, get, cancel, download | submission, cancel, workers | external: the variable `upstream` |
| Usage billing of the synchronous gateway (`Apply` of `usage_billing_repo.go`) | balance, subscription usage, key quota and rate limits, account quota | claim and apply | gateway handlers | only its effect on the shared balance |
| Idempotency store (`repository/idempotency_repo.go`, `service/idempotency_cleanup_service.go`) | one row per scope and key: status, fingerprint, lock and expiry times, stored response | create, read, reclaim, extend, succeed, fail, delete expired | the two below, a cleanup loop | `IdempotencyStore` |
| Idempotency coordinator (`service/idempotency.go`) | what a request remembers between two store calls; a renewal goroutine | `Execute` | admin and user handlers, credit redemption, quota reset | `Idempotency` |
| System operation lock (`service/system_operation_lock_service.go`) | the row id it holds; a renew loop | acquire, release, renew | admin update, rollback, restart | `SystemOperationLock` |
| Payment orders: notification, cancel, expiry, verification, fulfilment (`service/payment_fulfillment.go`, `payment_order_lifecycle.go`, `payment_order_expiry_service.go`) | `payment_orders` row with `status` and `updated_at`, redeem code, assignment and rebate rows in `payment_audit_logs` | notify, query, cancel, expire, verify, claim as paid, lease, redeem, assign, accrue, complete, fail, retry | webhooks, users, expiry job, administrators, payment provider | `PaymentOrder`, `PaymentFulfilment` |
| Refunds of payment orders (`service/payment_refund.go`) | the same row, `users.balance`, audit rows with the held deduction | request, prepare, claim, deduct, refund at the provider, mark, roll back, query and finalise | users, administrators, payment provider | `PaymentRefund` |
| Concurrency slots (`service/concurrency_service.go`, `repository/concurrency_cache.go`) | Redis zsets of slot leases, wait counters | acquire, release, wait, clean up | every gateway request | planned |
| Reservations in flight, billing cache | Redis sums of estimated costs, cached balances | reserve, settle, expire | gateway requests | planned |
| OAuth token refresh (`service/oauth_refresh_api.go`, `token_refresh_service.go`) | credentials and status of the account row, Redis lease, process mutex | lock, read again, exchange, recover, persist, set error, authorise anew | requests, background cycles, administrators, OAuth provider | `OAuthRefresh` |
| Scheduler snapshot, auth cache outbox | outbox rows, watermark, cached snapshots | append, poll, rebuild, invalidate | admin writes, schedulers | planned |
| WebSocket pool, usage record pool, quota flusher, message queue, leader locks, breakers, prompt audit, token bank, subscriptions, sessions, redeem/promo, backups, token center, monitors, HTTP layer, generated ORM, frontend | see `PROJECT.json` | | | not modelled; the reason is in `PROJECT.json` |

What makes the modelled part hard:

* **Interleaving.** A handler reads a row and acts on it later; a cancel, the
  recovery or a worker may have written it in between. The database checks a
  status only in some statements (`RecordBatchImageJobSubmitFailure` does not).
* **No transaction across components.** Row, hold, queue entry and provider job
  change one after the other. A process may die, or a reply may be lost,
  between any two.
* **One pool of frozen money per user.** Nothing in `users.frozen_balance` says
  which job an amount belongs to. Only the claims and the order of calls keep
  one job from spending what another job froze.
* **At-least-once delivery.** Jobs come back from dead workers, from late
  heartbeats and from lost replies, so that every step of a worker must be
  safe to repeat, and two workers must not work on one job.
* **Things that must happen in the end.** A hold has to be charged or given
  back whatever dies.
* **Stale clocks.** A request dates its claim, its lock and its expiry with the
  time of its arrival. Whoever is slow compares a row of the present with a time
  of the past, and writes deadlines that have partly gone by.
* **Outside parties that act once.** A provider that has refunded, or exchanged a
  token, has done so whatever becomes of its answer.
* **Compare-and-set with little to compare.** A row is taken over by id, status
  and lock, finished by id alone, and renewed by the fingerprint of whoever
  created it.

What each component owes, in one line: the *ledger* neither creates nor destroys
money, and a request id takes effect once; the *queue* never loses a job and
never lets two workers hold it; the *job table* never leaves a final status; the
*pipeline* closes every hold exactly once, out of its own money, charges exactly
what the item table counts, does not charge failed jobs, and does not refund
what still runs upstream. *Idempotency*: one request of a key executes at a time,
an answer that is replayed belongs to the same request, and nobody repeats a
success that he could have read. The *system lock*: one operation at a time.
*Fulfilment*: what was paid is given, once, and success is reported only then.
*Refund*: one call works on an order at a time, what it takes of the balance is
settled or known to be owed, and the status says what the provider did. *Token
refresh*: a token is presented once, newer credentials are never lost to older
ones, and no account is condemned that works.

## 2. Modules

| Module | Models | Extends |
|---|---|---|
| `BatchImageJob` | statuses and legal transitions | |
| `BatchImageLedger` | the claim and the money of reserve, capture, release and other charges; its properties | `BatchImageJob` |
| `BatchImageHold` | abstract specification: a hold is taken once, then charged or refunded once out of its own money; once its settlement was given up, what was charged may be refunded too | |
| `BatchImageQueue` | Redis structures, maintenance, `RunOnce` of the workers; its properties | `BatchImageJob` |
| `BatchImageRepo` | each statement on the job row, with its outcomes | `BatchImageJob` |
| `BatchImageHandlers` | Submit, Cancel, repeated Submit, deletion, recovery, one action per call | the three above |
| `BatchImagePipeline` | the provider, `Process` and `Settle`, the whole next-state relation, and the properties of the whole | `BatchImageHandlers` |
| `IdempotencyStore` | the row and every statement over it | |
| `Idempotency` | `Execute`, one action per store call, renewal, cleanup, clock; its properties | `IdempotencyStore` |
| `SystemOperationLock` | `Acquire`, `Release`, the renew loop; its properties | `IdempotencyStore` |
| `PaymentOrder` | the order row, the conditions of its updates, the moves a refund may make | |
| `PaymentFulfilment` | every path to fulfilment, one action per statement, transaction or provider call; its properties | `PaymentOrder` |
| `PaymentRefund` | `ExecuteRefund`, its rollback, `QueryAndFinalizeRefund`, the provider's refunds, the user's balance; its properties | `PaymentOrder` |
| `OAuthRefresh` | `RefreshIfNeeded` and what the cycle does with its error, the provider, re-authorisation; its properties | |
| `BatchImageStoreProofs` (ledger and queue), `BatchImagePipelineProofs`, `IdempotencyStoreProofs`, `IdempotencyProofs`, `SystemOperationLockProofs`, `PaymentFulfilmentProofs`, `PaymentRefundProofs`, `OAuthRefreshProofs` | theorems and their lemmas | their module, `TLAPS` |
| `MC...` | instances for TLC | their module |

### Correspondence with the code

*Atomicity.* An action is one database transaction, one Lua script or MULTI
pipeline, or one call of the provider. Between two actions of a handler anybody
else may step. The position inside a handler is `sub[j]`, `client[j]`, `rec[j]`
and `wstep[w]`; a branch that the code takes on a row it read *earlier* is
recorded in the name of the next step and not looked up again: after
`CancelRead` the step `cancel_transition` means that the row had no provider
name *when it was read*. This is what lets the model show stale reads.

*Outcomes.* Each operator of `BatchImageRepo` reports `ok`, a refusal of its own
(`invalid`, `not_applied`, `state_conflict`) or `error`. Two kinds of errors are
told apart: those that roll back (`FaultOps`) and those whose write committed
although the caller sees an error (`LostAcks`). The ledger's calls go through
`LedgerCall`, which adds the same two kinds of errors to the outcomes of the
transaction.

*Job row.* `status` and `provider` (whether `provider_job_name` is set) are the
columns that decide. `success` is `success_count`; `retry` is `retry_count`,
saturated at the limit, since the code only compares it with the limit;
`lastError` keeps only whether the last error code came from a settlement;
`hidden` is `user_deleted_at`. `stale` stands for "`updated_at` is older than
the recovery's cutoff": `RowAges` sets it, every write resets it, just as every
UPDATE sets `updated_at`. `RowAges` does not act between the listing and the
conditional UPDATE of the recovery, because both use the same cutoff.

*Ledger.* A claim is `[op, job, payload, actual]`: the request id is `op:job`,
and the fingerprint covers the payload hash and the amounts. `moved`, `revenue`
and `spent` are history variables that no action reads. `Hold[j]` is fixed by
the row that was inserted. The code computes with decimals of the database; the
model uses integers, and the comparisons are the same.

*Queue.* `ready` is the Redis list (LPUSH at the head, RPOP from the tail);
`delayed` and `active` are the zsets without their scores: a due time may come
at any moment, and an entry of `active` may look stale when nobody refreshes it.
`lock[j]` is the worker whose token the lock holds, `Orphan` when its owner died
or never learnt that it acquired it, or when its release failed (the worker
discards that error), or `NoLock`; an orphan stays until its TTL ends. A live worker's heartbeat makes
two separate calls, so it may be late for one and not for the other:
`LateBeats` and `MayLapse`.

*Workers.* `wpc[w]` is the position in `RunOnce`, `wstep[w]` the position inside
`Process`. `Finish` ends `Process`: `ack` when the job is done, `requeue` for
every error and for every job that is not finished.

*Provider.* `upstream[j]` is the provider's own job: queued, running, and then
succeeded, failed or cancelled. It changes on its own, and the code learns it by
polling. `Submit` may report an error although the provider accepted the job
(`"provider"` in `LostAcks`), and so may `Enqueue` (`EnqueueReported`).

*Idempotency record.* `record` is the row of one scope and key; rows of other
keys share nothing with it. `Unlocked` is a NULL `locked_until`. `body` says
whose outcome the stored response is, in place of its text. Each statement is
one SQL command, so it is one step; `Exists(id)` is the `WHERE id`. The id
sequence never repeats, which is what lets a statement miss a row that was
deleted and created again.

*Requests.* `pc` names the next store call of `Execute`, `mem` what it keeps
between calls: `at` is `now`, `expiresAt` the expiry it will write, `own` is
`record.ID`, `seen` is `existing`. `at` is read again when the execution returns,
and `expiresAt` is computed anew only for a request with an `ExecutionTimeout`
(`Detached`), exactly as in the code. `promise` is a history variable. A store
call may fail without effect (`StoreFails`) or take effect and lose its reply
(`Acks`). In `SystemOperationLock` the fingerprint is the operation's id, and
`renewing` are the goroutines that outlive `Release` until they see the channel.
An operation may take any time; `outlived` remembers whose lock ran out under it.

*Payment order.* Every UPDATE sets `updated_at`, and the fulfilment uses that time
as the version of its lease. The code compares it only for equality and with
"five minutes ago", so `order` keeps in its place `leases`, the calls that
remember the present value, and `old`. `Write` resets both. `grant` is the redeem
code of a balance order, or the unique assignment row of a subscription order,
whose transaction gives the days. `webhook` is what the provider knows of the
delivery of its notification. A reply that is lost is the second disjunct of
`Wrote`.

*Refund.* `plan[c]` is the `RefundPlan` a call carries, with the status it found
(`from`), the deduction and the number of its request at the provider. `audits`
is a set because the table has a unique index on order and action; `held` is the
detail of the audit `REFUND_PENDING`. `Keyed` says whether the provider knows a
repeated refund by its request id: WeChat Pay, Stripe and Airwallex get an id made
of order and amount, and answer a repetition with the earlier refund, or that it is
pending (`RepeatedRequest`); Alipay gets a fresh number each time, and EasyPay has
no id (`NewRequest`). `taken` is a history variable: how much the
refund holds of the balance, whatever the row says. `doubts` names the faults
after which the program believes what is not so: a lost reply of the deduction, of
the provider, or a mark of a failed return that was not written or not read. A
fulfilment sees a refund only through `RefundSteps`, and `PaymentRefund` shows
(`MovesAsRefund`) that its every step is one of them.

*Token refresh.* Tokens are numbered as the provider issues them, so that "newer"
can be said. `lock` is the worker that set the Redis key; the code deletes the key
without asking, which is why a lapse is told apart (`doubts`). A worker may start
at any time, because what it knows of the account may be stale; it reads the row
again under the locks. `kind` is whether the writes compare the credentials, as
those for Grok accounts do. The cycle sets an account to error for a rejected token
and for other final answers, too (`isNonRetryableRefreshError`: access denied, no
project, no entitlement); `RefreshDenied` is such an answer, and `denied` holds the
tokens that still work but were refused so. `LateAnswer` is a provider call that
ignored its cancellation and returned after the lease.

*Time* is an integer in the idempotency part. All processes and the database read the same clock: the
code compares times of different processes without any allowance for skew.

Definitions marked as *a wrong variant* are not part of any specification. Each
is a plausible mistake in the definition that follows it; replacing the
definition by it must violate the property that `PROJECT.json` pairs it with,
which shows that the property can fail.

## 3. Runs

| Run | Question | Instance |
|---|---|---|
| `ledger` | Can any order of holds, captures, releases, repeats, conflicting requests and other charges break the ledger? | 2 jobs with holds 1 and 2, deposit 3, overdraft 1, 2 payloads |
| `queue` | Can a job fall out of the queue, be held by two workers, be duplicated although its beats are in time, or lose its lock to another's release? | 2 jobs, 2 workers, 2 deaths, lost and failing Redis calls, also of the lock's release; one job with late beats, the other with a lapsing lock |
| `pipeline_faults` | One job against everything at once: is a completed job paid for, does a job leave the queue only when it ended, is a job whose row names the provider's job refunded only when that job has ended, and what makes a hold leak? | 1 job, 1 worker, 2 deaths of the worker, deaths at every step of the handlers, errors of every call, lost replies of those that write the row, the ledger or the queue, a provider that accepts without an answer, slow submissions, cancel, resubmit, delete (385,803 states) |
| `pipeline_shared` | Does one job's money pay for another's when both lie in one pool, captures fail or hide that they happened, and settlements are given up? | 2 jobs, 1 worker, a death, errors of every step of the settlement, lost replies of those that move money, mark or enqueue (1.05 million states) |
| `pipeline_live` | Is every hold closed, and does every submitted job end? | 1 job, 2 workers, deaths of a worker and of the submission, a bill above the hold |
| `idempotency` | Can two requests of one key execute at once, can an answer belong to somebody else's request, can a success be repeated by a later request? | 4 requests: one with another fingerprint, one with renewals, one whose stored response is cut off; every store error, deaths, cleanup; times 0 to 5, TTL 3, lock 2 |
| `system_lock` | Can two system operations run at once, or the lock of a running one be taken by late renewals, releases or the cleanup, before that lock has run out? Whose can run out first? | 3 operations of any length; times 0 to 5 |
| `payment_fulfilment` | Can an order be fulfilled twice, unpaid or not at all, be reported as done although it is not, or be overwritten after its fulfilment? | 2 calls at a time, 3 order types, 2 faults among failing steps, lost replies, deaths and a lapsing lease |
| `payment_refund` | Can two calls refund one order, a deduction be forgotten or taken twice, or the status contradict the provider? | 2 calls, 2 refund requests, an order of 2, a balance up to 2 that is spent and topped up, 1 fault; a provider that knows repetitions by their id |
| `oauth_refresh` | Can a token be presented twice, a working account be condemned, or newer credentials be overwritten? Is an expiring token refreshed, or its account flagged, in the end? | a cycle and a request in one process, a request in another, 3 tokens, 2 faults, a provider that may refuse the account or answer late |
| `settled_then_released`, `second_refund_stuck` | The two findings below; TLC finds a counterexample | as small as shows it |

### Properties

* Ledger: `MoneyConserved`, `NoPhantomRelease`, `ReplayMovesNothing`.
* Queue: `ExactlyOnePlace` for jobs whose heartbeats are in time, `NeverLost` always,
  `LockIsNeverStolen`, `OneWorkerPerJob` for jobs whose lock does not lapse.
* Pipeline: `ImplementsHold`, the refinement of `BatchImageHold` by the mapping
  `Phase` (from the two columns and the history of moves), for jobs that share a
  pool; `CompletedIsPaid`; `FailedKeepsNoCharge` and `ChargeStands`, which say that
  only a settlement that was given up takes a charge back; `LeaksHaveACause`;
  `QueuedUntilEnded`; `RecordedEndsBeforeRefund`; `EveryHoldCloses`,
  `EverySubmittedEnds`. `NoDoubleClose` says what comments and documents promise
  and is violated. Stronger forms that hold only under conditions are left to the
  theorems, which state these: `FailedNotCharged`, `ChargedIsFinal`,
  `SubmittedIsQueued`.
* Idempotency: `OneExecutor`; `AnswersMatch`, also when the row is deleted and
  created by another between the two reads of a request; `LaterRequestsReplay`,
  which looks at who *arrives* while a success is stored: neither requests that
  arrived earlier nor the cleanup make it execute before that success expires.
* System lock: `OneUnlessOutlived`, `RunningIsLocked`, which speak of the time until
  a lock runs out under its operation, and `OnlyTakeoversRunOut`, which says whose
  can be the first. `OneSystemOperation` is the claim without that premise; it does
  not hold (see the gaps below).
* Payment fulfilment: `CreditedOnce`, `CompletedIsDelivered`, `AckedIsDelivered`,
  `SettledIsFinal`, `PaymentIsDelivered`.
* Refund: `OneRefunder`; `DeductionIsAccounted` and `StatusTellsGateway`, which
  name in their premises the lost answers that break them; `MovesAsRefund`.
* Token refresh: `TokenSpentOnce`, `ErrorIsDeserved`, `NewestCredentialsStay`,
  `RefreshedOrFlagged`.

### Bounds, and why they are enough

* Jobs of different users share nothing but the queue. Jobs of one user share the
  pool: `ledger`, `pipeline_shared` and `settled_then_released` have two of them,
  since what a third one holds in the pool a second one may hold as well; the
  theorems have any number. The other pipeline runs have one job with more
  faults, which shows what can happen inside a job.
* `MaxRetries` is 1 or 2 (the code has a larger constant): at 2, a first failure
  that is retried and a last one that takes the exit both occur.
* `Items` is 1 or 2 and `Price` 1, so that an output may be empty, partial or
  full, and, in `pipeline_faults` and `pipeline_live` (hold 1), more than the
  hold. Submission computes the hold from the item count, so such a row exists
  only if it was created before the clamp at `service/batch_image_public.go:1058`
  or its price was changed; the code handles it, and so do the runs.
* `MaxCrashes` limits the deaths of workers, `ReadyBound` the duplicates that
  late heartbeats pile up, `Overdraft` how far other usage takes the balance
  below zero. Each submission runs once per job; cancels, repeated submissions
  and recoveries are unlimited.
* Four requests on one key are one that succeeds or dies, one that takes over, one
  that arrives in between and one that creates the row anew for something else;
  five requests were also tried and show nothing new. Times 0 to 5 leave room for
  an expiry, a takeover and a second expiry. `TTL` 3, `ProcessingTimeout` 2 and
  `MaxDelay` 1 are the smallest values in the order of the code's defaults (a
  day, half a minute, seconds).
* Two calls on one order are one that works and one that comes in between; calls
  return and start anew, so that any number of webhooks, retries and cancels
  follow one another. Two faults let one break off a call and another its
  repetition (361,853 states). Three calls, and three faults, were also tried
  and show nothing new, and the theorems hold for any number.
* A refund of 2 may be partial or full; a balance from -1 to 2 covers a deduction
  that is none, a part and the whole. Two requests to the provider are one that
  fails and its repetition (2.69 million states); three, and two faults, were
  also tried. `Keyed` is TRUE in `payment_refund` and FALSE in
  `second_refund_stuck`. `payment_refund` was also tried with FALSE (1.66 million
  states) and passes; the theorems hold for both.
* Three workers on two processes show both locks; three tokens, an exchange and
  a re-authorisation, or two exchanges. Four tokens were also tried with one fault. The provider stops issuing at `MaxTokens`, which
  `RefreshedOrFlagged` says.
* The clock stops at `MaxTime`, and a request runs once, so these runs disable the
  deadlock check.
* Pipeline runs disable the deadlock check: when every job has ended and nobody
  cancels, nothing is left to do. The ledger and queue runs check it.

### Fairness

`pipeline_live` assumes only weak fairness: a submission, an
owner's call or a recovery that has begun goes on unless its process dies; the
ticker of the recovery keeps listing; rows age; the provider runs and finishes
its jobs; the maintenance loops of `service/batch_image_worker_runtime.go` keep
moving due and stale entries; Redis expires the locks of dead workers; and a live
worker keeps looping. Nothing obliges an owner to call, a process to die or an
error to happen. Strong fairness is not needed there, because what waits stays
enabled until it is served.

`payment_fulfilment` assumes that a call that has begun goes on unless it dies or
fails, that five minutes pass, and, strongly, that a notification which is not
answered with success is taken up again: the provider repeats it, and each is
served by a goroutine of its own, while the two calls of the instance may always
be busy with something else. Nobody is obliged to pay, retry, verify or refund.

`oauth_refresh` assumes that a worker that has begun goes on unless its process
dies, that Redis ends the lease of a key that nobody deletes, and, strongly, that
a cycle which returns every few minutes does not find the key taken by requests
every single time (`service/token_refresh_service.go` runs on a ticker).

The other runs assume none: they check safety only.

### Assumptions on durations

Safety of the idempotency part depends on time, and the models say how, in the
guard of `Tick`:

* a request, or an operation, issues its claim within `MaxDelay` of its arrival,
  and `MaxDelay` is below `ProcessingTimeout` (for requests also below half of the
  TTL). A claim is at most four single-row statements, and the lock lasts 30
  seconds by default;
* an execution ends, or its renewal arrives, before the *record* it has claimed
  expires. It may outlast the lock: `Execute` looks at the lock of a processing
  row only once it has expired. The TTL is a day;
* of the renewals of a system operation that match its row, one arrives before the
  lock runs out: there are three to a lease. How long an operation takes is left
  open, and so is whether its renewals match.

In the other two parts nothing is assumed of durations. A call that outlasts its
five minutes (`LeaseLapses`) is one of the counted faults of a fulfilment, and its
properties hold with it. A worker that outlasts the lease of the refresh lock is
a fault that the properties of the token refresh name. The attempts of a background
cycle are cut off before, but a provider call may ignore the cancellation
(`service/oauth_refresh_api.go:259`): its lock lapses like a request's, and its
answer is dropped (`LateAnswer`).

### Findings

1. `settled_then_released`: a capture commits, marking the job settled fails, and
   later capture errors reach the retry limit. The exit releases the captured
   hold once more, out of the frozen money of the user's other jobs
   (`service/batch_image_settlement.go:222`).
2. `second_refund_stuck`: audits are unique per order and action, and the audit
   of a pending refund is written in the transaction that makes the order
   pending. An order whose pending refund failed, and whose second refund the
   provider answers with "pending" too, can therefore not become pending: the
   transaction rolls back, the order stays `REFUNDING` with its deduction taken,
   and nothing finalises or repeats it (`service/payment_refund.go:838`).

`PROJECT.json` quotes the comment or document each of them contradicts.

Further gaps met while modelling. They are hazards in `PROJECT.json`, and the
properties or runs say where they leave them out.

*Batch images.* A cancel between creating the row and reserving the hold uses up the
release's request id, because a release without a hold succeeds: the hold reserved
afterwards can never be released (`repository/usage_billing_repo.go:354`). Other
ways to leave a hold frozen: a process that dies between failing a job and releasing
its hold, a lost reply of the reservation, of the cancel's transition or of the
recovery's update, a Redis that fails at the last retry of a release.
`LeaksHaveACause` lists exactly these, next to the burned releases, and shows that
there are no others. A process that dies between writing `submitted` and `Enqueue`,
an `Enqueue` that fails there, and a lost reply of
`UpdateBatchImageJobProviderSubmit` leave a submitted job outside the queue, which
only a repeated submission repairs; `QueuedUntilEnded` speaks of jobs that have been
queued, and the theorem `SubmittedStaysQueued` excludes the three
(`SubmissionsEnqueue`). A cancel that read the row before the provider's name was
written refunds the job and leaves it running (`service/batch_image_public.go:754`),
so that `RecordedEndsBeforeRefund` exempts the owner's cancel. A provider that
accepted a job while `Submit` reported an error, or whose answer nobody lived to
store, works on a job that was refunded and whose name the program does not know
(`service/batch_image_public.go:355`): `RecordedEndsBeforeRefund` speaks of jobs
whose name was recorded. With a lapsed lock, a worker whose indexing failed can fail
a job that the other worker has charged, and a job can be acknowledged while it
settles; the properties except jobs whose lock may lapse (`MayLapse`), or, where
they do not, hold with it (`CompletedPays`). A cancel that commits during
`provider.Submit` is overwritten with `failed` when the submission then fails
(`service/batch_image_public.go:362`); the money is right either way.

*Idempotency and system lock.* Taking a row over leaves its fingerprint at the operation
that created it, while the renew loop asks for its own: an operation that took a row
over is not renewed, and when it outlasts its lease another one starts beside it
(`repository/idempotency_repo.go:112`,
`service/system_operation_lock_service.go:178`). Two requests that read the same expired success may both
execute, one after the other. The first takes the row over, succeeds and
unlocks it; the takeover of the second compares only the status, which is
`succeeded` again, and the lock (`repository/idempotency_repo.go:118`). The test
at `service/idempotency_test.go:394` expects one execution of concurrent
requests, but starts from an empty table. And a request that dies leaves its key
answered with "still processing" until the record expires, a day later, since
`ProcessingTimeout` matters only after the expiry. When a success could not be
stored, a repetition after the expiry executes again.

*Fulfilment.* When the order cannot be read, the webhook is answered with success
and the provider stops (`service/payment_fulfillment.go:107`, `:218`; `webhook =
"unread"`), although the test `payment_fulfillment_order_not_found_test.go` says
that this "would silently mask real DB failures". A payment that arrives after
the grace of an expired order is dropped in the same way, although
`src/docs/PAYMENT.md` describes a reconciliation. `checkPaid` stores the trade
number whatever the status is, which sets `updated_at` and thereby invalidates a
lease that is held; and the version of a lease is read in a second statement, so
that a call may adopt the version that another wrote. Both cost a fulfilment its
last write and are repaired by the next attempt, which the run includes.

*Refund.* A lost reply of the deduction restores the status, and the next refund
deducts again; a lost answer of the provider is taken for a refusal, so that the
deduction is returned and the order can be refunded again: `DeductionIsAccounted`
and `StatusTellsGateway` name both; the latter keeps, whatever was lost, that an
order marked as refunded was refunded by its amount. A process that dies leaves the order
`REFUNDING` for ever. The failed refund writes the unique audit `REFUND_FAILED`,
after which a later pending refund that fails can never be finalised. The mark of
a failed return suppresses later deductions whatever their amounts. A user's
request that arrives between the preparation and the claim of another refund is
forgotten when that one restores the status it found. Returning a deduction goes
through `UpdateBalance`, which counts it as a recharge.

*Token refresh.* An exchange whose answer is lost, late or cannot be stored costs
the token, since the provider has spent it (`doubts` has "lost"). Accounts other
than Grok are written blindly: a late refresh overwrites a re-authorisation, and
`SetError` condemns an account that was authorised anew or whose refusal was for an
earlier token; the two action properties say so. The release deletes the key of whoever holds it after a
lapse. A re-authorisation whose `ClearError` fails leaves the account in error.
The answer `refresh_token_reused` is not recovered as a race. Beside the
model: the access token cache checks the version and writes in two steps
(`service/token_cache_invalidator.go:76`), so that a revoked token may be cached.

## 4. Proofs

TLAPS checks eight systems, for every value of the constants that satisfies the
assumptions named below.

**Ledger** (from `LedgerAssumption`: holds, amounts and deposit are naturals).
`LedgerCases` says what one transaction can have done: nothing, commit a claim
that moves nothing, or commit a claim with exactly one of three moves. All
theorems rest on it:

* `LedgerTypeCorrect`: in particular the frozen balance never goes below zero,
  because the two moves that take from it check it first.
* `MoneyIsConserved`: each of the moves is neutral.
* `OneFingerprint`: a claim commits only under a request id that has none.
* `NoPhantom`: `NoPhantomRelease` is not inductive, since a release looks at the
  *claim* of the hold and not at the money. The invariant
  `HoldClaimMovesMoney` says that a claimed hold with an amount did move money,
  that whatever moved holds a claim, and that only jobs with a hold release.
  `OnlyHoldsMove` adds that nothing moves for a job without a hold.
* `ReplaysMoveNothing`: the action property, from the cases.

**Queue** (from `QueueAssumption`: the null values are distinct from jobs and
workers), for any number of jobs, workers, deaths, late beats and lapsed locks:

* `QueueTypeCorrect`, with the lemmas `PushesOne` and `PopsLast` on LPUSH and
  RPOP, which also say which jobs the list holds afterwards.
* `NeverLoses`: `NeverLost` is inductive, since every step that takes a job out
  of one structure puts it into another or drops its inflight key.
* `LocksAreNotStolen`: from the types, since a lock is set only when there is none
  and deleted only by its own token; a release that fails leaves an orphan.
* `MutualExclusion`: `OneWorkerPerJob` follows from `CriticalOwnsLock`, which is
  inductive with the types: a worker past the lock owns it, and a lock names one
  worker.
* `OneCopy`: `ExactlyOnePlace` counts copies in a list, and is not inductive: a
  recovery of `active`, a due job or a push may add a copy. `OnceInReady`,
  `OnePlace` and `HandedOut` say of a job without late beats that the three
  structures exclude each other, that `ready` has no two copies of it, and that a
  worker holds it only while it is `active`. `PushKeepsOnce` and `PopKeepsOnce`
  are the two lemmas on lists it needs.

**Pipeline** (from `PipelineAssumption` and the assumptions of the repository, the
ledger and the queue), for any number of jobs and workers.

* `StoreStep`: every action of a handler, recovery or worker is a step of the
  ledger and a step of the queue, or leaves them alone. From it follow
  `PipelineImplementsLedger` and `PipelineImplementsQueue`, which carry every
  theorem of the two stores over to the whole system (`PipelineConservesMoney`,
  `PipelineKeepsQueue`).
* `PipelineTypeCorrect`, by one lemma per action.
* The inductive invariant is `EveryJobKnown`: `Knows(j)` of every job. Its parts
  say what each process may assume at the step it has reached, however the others
  interleave: of the submission (`SubKnows`), the row (`RowKnows`), the other
  handlers, the workers, refunds (`RefundedKnows`), the provider's job
  (`UpstreamKnows`, `StopKnows`), the payment (`PaidKnows`) and the place in the
  queue (`QueuedKnows`). The proof goes by footprint: a step touches one job, with
  `RowStays` for what a row never does, and the other jobs keep what is known of
  them. `HeldKnown` adds that a worker holds a job only while it is in the queue or
  finished. TLC checked every part, with all faults, before it was proved.
* A second layer, `EveryBillKnown`, says what becomes of a charge. The properties are
  far from inductive: that a failed job keeps no charge rests on what a worker read
  before its capture, on the retry counter, and on the mutual exclusion of the
  queue. A release that moved nothing belongs to a job that never reached the
  provider (`BurnedKnows`), a job is settled only after its provider succeeded, so
  that from settling it fails by exhaustion only (`SettlingKnows`), the exit is taken
  with the retries used up (`SpentKnows`), so that a refund of a submitted job means
  that it failed or was given up (`RefundKnows`), and a charged job is on its way to
  completed or was refunded before it failed (`ChargeKnows`). `RowsMove`,
  `HandlersStayPut`, `RecordsMoveOn` and `StepsMoveOn` say what any step does to the
  row, the handlers, the records and the workers of a job; the step of this layer
  follows from these four and the ledger alone.
* `PipelineImplementsHold`: only three moves of the ledger touch a hold, and each is
  one job's (`MoneyMoves`); whoever refunds a charged job or charges a refunded one
  has given it up (`SecondCloseIsGivenUp`), which is the abstract hold's premise
  for it.

| Theorem | Holds under | Because otherwise |
|---|---|---|
| `CompletedPays`, `RecordedJobsEndFirst` | nothing | |
| `QueuedUntilTheEnd` | nothing; jobs whose lock may lapse are excepted in the statement | a worker that reads `settling` acknowledges the job that another one settles |
| `FailedJobsKeepNoCharge`, `ChargesStand`, `PipelineImplementsHold` | nothing; jobs whose lock may lapse, and given up settlements, are excepted in the statement itself | two workers on one job may settle it in opposite ways; the exit of a given up settlement releases what was captured (finding 1) |
| `LoneHoldClosesOnce` | one job; any faults, deaths and lapses | with two jobs the pool pays the release of a charged hold (finding 1) |
| `LoneFailedIsNotCharged`, `LoneChargeIsFinal` | one job, and no lapse or `ReliableIndexing`; any faults of captures | the same; and a worker that lost its lock and whose index then fails ends a job that another worker has charged |
| `SubmittedStaysQueued` | `SubmissionsEnqueue`, no lapse | a submission that dies at or fails in `Enqueue`, or takes the update before it for failed, leaves a submitted row nobody looks at |

For a user's only job the invariant is `LoneInv`. The pool holds that job's money
and nothing else (`LonePool`), so a charge leaves nothing to release and no release
is recorded after one (`LoneRecords`). TLC checked it with the faults of
`pipeline_faults`, and with two workers and a lapsing lock. Lapsed locks are not in
the runs of the pipeline: the `queue` run has them, and the theorems cover them.

**Idempotency** (from `StoreAssumption`, `NoRecordAssumption` and
`IdempotencyAssumption`: the null values are none of the real ones, durations are
positive, `MaxDelay` is below `ProcessingTimeout` and half of the TTL), for any
number of requests, fingerprints and times. `IdempotencyStoreProofs` says of each
statement that it keeps the types.

* `IdempotencyTypeCorrect`: among others, a stored success names whose outcome it
  holds, so that no statement turns an unfinished row into a success.
* `OneExecutorAtATime`: `OneExecutor` is not inductive, since nothing in it keeps
  a second request from taking the row over. The invariant adds
  `ExecutorHoldsRow` (the executor's row is its own, processing, of its
  fingerprint and not expired, so that the cleanup leaves it),
  `ClaimsInTime` (claims are at most `MaxDelay` old), and
  `LockOutlivesReclaimers` (who is about to take a row over arrived before the
  lock of the executor ends, so that the `WHERE` turns it away). A claim
  therefore happens only while nobody executes.
* `ReplaysMatch`: `AnswersMatch` by invariants that say that a stored body belongs
  to the fingerprint of its row, and `SeenIsOwn`: a row with the id that a
  request has read has the request's fingerprint, because a row keeps its
  fingerprint as long as its id, and ids are not used twice (`RowEvolves`).
* `LaterReplays`: `LaterRequestsReplay` by `PromiseKept`, which says why a request
  that arrived while a success was stored gets no further than its first read: the
  row outlives the time in which the request can claim, whoever of the earlier
  arrivals takes it over, and a failure leaves a backoff that is dated after the
  request's arrival (`RowMoves` has the kinds of change of the row). Here
  `2 * MaxDelay < TTL` is needed: a claim may be dated `MaxDelay` before that
  arrival.

**System lock** (from `StoreAssumption`, `NoRecordAssumption` and
`LockAssumption`), for any number of operations, whatever their ids.

* `LockTypeCorrect`, `OneOperationAtATime` and `RunningOperationIsLocked`, for
  operations of any length: the same argument as for requests, with an invariant
  that holds until a lock has run out under its operation (`InvUntilOutlived`). Until
  then the lock of the running operation is ahead of the clock and its expiry not
  before the lock (`HolderInv`), and who is about to take the row over arrived
  before that lock ends. Renewals that come after `Release` may move the lock, but
  only forward (`RenewKeeps`).
* `TheFirstToRunOutTookOver`: a renew loop ends early only when it does not match the
  row (`RenewsOwnRow`), so that an operation that created its row keeps it.

**Payment fulfilment** (from `FulfilmentAssumption`: the order types are the three
of the code), for any number of calls, faults and lapsed leases. `StatusMoves` and
`DeliveryMoves` say what one step can do to the status and to what is delivered;
the invariants rest on these two and not on the actions.

* `GrantCounts`: the grant is used exactly as often as something was given, which
  makes `GivenOnce` inductive: whoever gives changes the grant in the same
  transaction.
* `PaidFirst`: who acts on a payment follows one. `Stages`: a call that
  completes has found the grant used and the rebate accrued *at some time*, and
  neither is ever undone. From these follow `DeliveredBeforeCompleted` and
  `AnsweredWhenDelivered`; a call that finds an order "already processed" can be
  sure that it is not pending, because no order becomes pending again.
* `LateCallsAreHarmless`: the action property, from `StatusMoves`.

**Refund** (from `RefundAssumption`: somebody may refund, the amount is positive),
for any number of calls, provider requests and faults.

* `ClaimIsExclusive`: `OneRefunder` is inductive with the types.
* `RefundTypeCorrect` is not by itself: that `taken` stays a natural number means
  that nothing is returned which was not taken. `Covered` says that whoever may
  return a deduction, a call or the pending order, has it taken; `PendingOnce`
  that whoever finalises holds what the audit holds, because the audit is
  written once.
* `OrderTellsGateway`, with `GatewayKnown`: what a call at each step knows of the
  provider's requests, whether the provider knows repetitions or not (`Keyed`).
* `NothingTakenIsForgotten`, with `DeductionKnown`: as long as no return failed
  and nothing was wrongly told, the deduction is exactly what the order or the
  call at work says.
* `RefundMoves`: `MovesAsRefund`, on which `PaymentFulfilment` stands.

**Token refresh** (from `RefreshAssumption`), for any number of workers, processes
and tokens.

* `SpentOnce`: `SpentIsReplaced` (a spent token is in the row only while its
  successor is about to be stored) and `FreshInHand` make it inductive, with
  `ExclusiveOwnsKey`, since only the lock keeps a second worker from reading the
  row in between.
* `ErrorsAreDeserved`, with `BlamesRejected`: a token that was rejected stays
  rejected, and a refusal of the account is remembered with the token that met it. `NewestStay`, with `IssuedOnly` and `PresentsTheRow`: without a
  re-authorisation, what a worker presents under the lock is what the row holds.
* `RefreshTypeCorrect`.

Only model-checked: liveness under fairness (`EveryHoldCloses`,
`EverySubmittedEnds`, `PaymentIsDelivered`, `RefreshedOrFlagged`), which is out of
this prover's reach, and `LeaksHaveACause`. Every other safety property, action
property and refinement of a passing run is a theorem.

## 5. Not modelled

Left out of the payment part: the creation of orders, the computation of amounts
and fees, the choice of the provider and the checks of a notification's signature
and amount (before any state changes), manual confirmation, and refunds of
subscription orders, which deduct days instead of balance. The order is assumed
to have a trade number: `gwRefund` succeeds without asking the provider if it has
none.

Left out of the token refresh: the access token cache, the cooldown of retries and
the temporary unscheduling of accounts, the error states that requests to Grok
set, and providers that do not rotate their refresh tokens, for
which a second presentation is harmless.

Left out of the idempotency part: requests without a key and input checks (they
touch no row), metrics and audit lines, the text of the answers, clock skew
between processes, and keys other than the one at hand.

Left out of the batch image components: validation, provider selection and price
resolution (they change no state), the parsing of result lines (abstracted to the
number of successes), event log, usage log rows, list queries, download marks and
input cleanup (no property reads them), the note of a failed output cleanup
(`RecordBatchImageCleanupFailure`, whose counter nothing reads after the
settlement), and the contents of requests. Redis
keeps its data: no restart of Redis or of the database is modelled, since the
code has no recovery of its own for it. The 7 day expiry of inflight keys and the
retention of claims are left out: they are far longer than a job.

The other components of the table are not modelled yet.

## 6. Plan

Done: the batch image job, ledger, queue, repository, handlers, pipeline and the
abstract hold; the idempotency store, coordinator and system lock; payment
orders, their fulfilment and refund; the token refresh; and the proofs of section
4. Next, in this order:

1. `UsageBilling`: `Apply` with its claim, and the reservations in flight that
   bound what concurrent requests overspend.
2. `ConcurrencySlots`: leases in Redis; never more holders than the limit, no
   slot lost for ever, wait counters return to zero.
3. `SchedulerOutbox`: the watermark never skips an event that commits late.
4. In `PaymentRefund`, the refund of subscription days; in `OAuthRefresh`, the
   access token cache.

Proofs to come: with the components above, their invariants.
