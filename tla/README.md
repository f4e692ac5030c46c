# Payment gateway: specification, model checking and proofs

TLA+ models of the payment gateway in `src/` (FastAPI, PostgreSQL through
SQLAlchemy, Redis, Celery), the TLC runs that check them on small instances, and
TLAPS proofs of what matters most. `PROJECT.json` lists every run, mutant, finding,
hazard and theorem, and maps every definition to the lines it models.

## The system

| Component | State it keeps | Operations | Where |
| --- | --- | --- | --- |
| Payment state machine | none (two permission matrices) | `assert_intent_transition`, `assert_transaction_transition` | `app/services/state_machine.py` |
| Database | `payment_intents`, `transactions`, `ledger_accounts`, `ledger_entries`, `webhook_deliveries`, `merchants`; row locks | READ COMMITTED transactions, `SELECT ... FOR UPDATE`, `INSERT ... ON CONFLICT` | `app/models`, `app/db` |
| UPI initiation | one session per request | `POST /v1/payments/upi/initiate` | `app/services/payment.py`, `app/api/v1/payments.py`, `app/api/deps.py` |
| Bank callback | one session per request | `POST /v1/webhooks/bank-callback` | `app/services/webhook.py`, `app/api/v1/webhooks.py` |
| Idempotency middleware | a Redis key per path and `Idempotency-Key`, 24 h TTL | `dispatch` | `app/middleware/idempotency.py` |
| Order creation | `payment_intents` | `create_order`, `get_order` | `app/services/order.py`, `app/api/v1/orders.py` |
| Merchant webhook delivery | Celery tasks in Redis | `deliver_merchant_webhook` with retries | `app/workers/tasks.py` |
| Reconciliation | none | `reconcile_stuck_intents` (logs only) | `app/workers/tasks.py` |
| Rate limiting | a counter per identity and minute in Redis | `dispatch` | `app/middleware/rate_limit.py` |
| Merchants, credentials | `merchants` | create, token | `app/api/v1/merchants.py`, `app/core/security.py` |

How they interact. A request passes RequestId, Idempotency, RateLimit and CORS
(`app/main.py`), then its endpoint, which has a database session of its own.
Initiations and callbacks meet in the database only: they read and write the same
intents and transactions, and callbacks the same ledger accounts, under row locks.
After its commit a callback writes an outbox row in a second transaction and hands a
task to Celery. Everything runs as asyncio tasks of several processes, so any
`await` is a place where other requests come in and where a request may die.

What is hard, and what makes each part correct:

- *Initiation*: duplicates that race, a status read before the lock that guards it, a
  callback that finalises the order meanwhile. Correct when an order and an address
  get one transaction and the order's status never goes back.
- *Callback*: repeated, concurrent, contradictory and late events; failures between
  any two statements; overflow; two orders over the same accounts. Correct when an
  outcome is applied once, with the ledger lines, entirely or not at all, and never
  taken back; when balances are the sums of their lines; when no lock order deadlocks.
- *Notices*: crashes between the two commits and between the commit and the
  dispatch. Correct when what the merchant is told is true and told once, and every
  outcome is told.
- *Idempotency*: retries that race with the first attempt at each Redis command,
  handlers that fail after they committed. Correct when a request takes effect once
  in its key's lifetime, every retry is answered with that result or a conflict, and
  every key is given up some day.
- *Order creation*: two creations with one key that race past the look-up, a failure
  after the commit, keys that are unique over all merchants but looked up per merchant, a
  cache in front that does not tell clients apart. Correct when a merchant and a key name
  one order in every answer, and that order is committed and readable by the merchant
  whose creation was answered with it.
- *Delivery*: attempts that fail or whose answer is lost, workers that die with a message
  in hand or between a retry and its acknowledgement. Correct when no notice drops out,
  none is given up early, attempts are bounded, and whatever the merchant hears is the
  committed outcome.
- *Reconciliation*: overlapping initiations rewrite statuses. Correct when an order it
  reports has a transaction that the bank has still to decide.
- *Rate limits*: requests that read the time in one window and count themselves in the
  next, counters that expire. Correct when no client exceeds its limit in a window and
  none is refused whose own quota is not spent.
- *The stack*: the order of the layers decides what a retry gets. Correct when a cached
  response never denies what was done.

## The modules

| Module | What it is |
| --- | --- |
| `PaymentStates` | statuses, permission matrices, the outcome an event asks for |
| `PaymentDb` | constants and assumptions, committed tables, row locks |
| `UpiInitiate` | one action per await of `initiate_upi`, from authentication to the answer |
| `BankCallback` | one action per await of `process_bank_callback` and its endpoint |
| `PaymentFlow` | the two composed over one database; the core's properties |
| `Settlement` | abstract: a transaction opens, is declined or settles; money moves with it |
| `MC_PaymentFlow` | function-valued constants and symmetry sets for TLC |
| `Idempotency` | one idempotency key and the attempts that carry it |
| `NoticePromise` | abstract: a notice is attempted until it is told or given up |
| `WebhookDelivery` | broker, Celery workers, retries; implements `NoticePromise` |
| `Notification` | `PaymentFlow` and `WebhookDelivery` composed: what a callback hands over is delivered |
| `MC_Notification` | the one-order instance of it |
| `RateLimit` | the clock, the counters and the requests of `RateLimitMiddleware` |
| `OrderCreation` | `create_order`, `get_order` and their endpoint |
| `Gateway` | `Idempotency` around `RateLimit` around `OrderCreation`, as `main.py` stacks them |
| `OrderRegistry` | abstract: a merchant's key is given to one order, orders stay, and a request is told once, of an order that it or a peer asked for; implemented by `Gateway` |
| `MC_Gateway` | who sends which request with which key |
| `FiniteSums` | lemmas about sums over finite sets |
| `PaymentFlowProofs`, `SettlementProofs`, `UpiInitiateProofs`, `NoticeProofs`, `IdempotencyProofs`, `DeliveryProofs`, `GatewayProofs` | theorems |

### How the payment core corresponds to the code

*Workers* are requests in flight: `Initiators` and `Callbacks` bound how many run at
a time, and each serves any number of requests one after another. `ipc` and `cpc`
name the await a worker stands at: what follows it, up to the next await, is one
action. Requests and events are chosen freely: any order, address, merchant,
transaction, event or amount of the constants, repeated and reordered at will.

*The database.* The tables are what is committed. A session's uncommitted changes are
visible to nobody, so they are not state: the commit action writes them all, and a
rollback only frees locks. `lock` says who holds each row; `SelectForUpdate` waits
until nobody does; a transaction ends with `EndTransaction`. `_ensure_account_locked`
is one step: its `INSERT ... ON CONFLICT DO NOTHING` waits for a concurrent insert of
the same account as the `FOR UPDATE` waits for a lock, and an account that does not
exist is one with balance 0. The outbox insert takes its transaction's row for its
foreign key, so it waits for a callback that has that row locked.

*The identity map.* `get_current_merchant` loads the merchant in the session that the
service then uses, and `Merchant.payment_intents` is `lazy="selectin"`, so the
merchant's intents are mapped before `initiate_upi` locks one. A `SELECT ... FOR
UPDATE` without `populate_existing` returns the mapped object unrefreshed: the service
decides on `statusSeen`, the status of authentication time. (An order created after
authentication is not mapped; orders here exist from the start.) A callback's session
is new: it maps each row as its lock is granted.

*Callbacks* are those the endpoint has verified; the others answer before they touch
a table. `OrderNotFound`, `AlreadyFinalised`, `AmountMismatch`, `TransactionNotFound`
and the two uncaught failures (`InvalidStateTransition`, database errors) are actions
of their own. `FailInitiate` and `FailCallback` let a worker in `MayFail` die at any
await: a crash of a process is the failure of all its workers.

*Histories*: `acked` (events answered 2xx) is no program state. `outbox` and `queue`
count rows and tasks per transaction and event.

*Bounds*: `Txns` bounds the transactions ever opened, `MaxBalance` stands for the
largest Numeric(18, 4), `WideVpas` are the addresses longer than the 128 characters of
`ledger_accounts.identifier`. Every instance has enough `Txns` for what its initiators
can open, so that no commit waits for an id. Random identifiers are taken as unique.

### How the idempotency model corresponds

`entry` is the value of one Redis key, one action per Redis command. The first SET
stores no status, which is the value `Reserved`; only the second one stores
`InProgress`. `HandlerResponds`, `HandlerAnswers5xx` and `HandlerRaises` are what
`call_next` may do; the endpoints of this repository raise and never return 5xx, the
middleware handles both. `HandlerResponds` is any answer below 500. An effect is a committed change: `TakeEffect`, a step of its own
between `call_next` and its result, so that a request may die or raise after its commit.
The one case it leaves out is a 5xx response after a commit, which would free the key:
no endpoint here returns one. `expiry` is whether the key has a time to live: each SET of
the code gives it one (`ex=`), a SET without it would take it away, and `Expire` removes
only a key that has one. A key does not expire while an attempt is at work (no request takes
24 hours); `effects` counts within one lifetime of the key.

### How the delivery corresponds

`broker` is a bag of messages (Redis keeps no order that retries with countdowns would
respect); a message carries its notice and its number of retries. A worker (`dpc`) takes
one, posts it, and acknowledges it only when the task is over (`task_acks_late`), so `held`
is what `Die` puts back (`task_reject_on_worker_lost`). `self.retry` publishes the next
message before the current one is acknowledged: `Retry` and `Ack` are two steps, and a
death between them leaves the message next to its own retry. `Post` has the three results
the task tells apart: a 2xx, an `httpx.HTTPError` (the merchant may have got the request
all the same), and an exception that is not caught; `Abort` is also the case of a broker
that does not take the retry. `Exhaust` is `Task.retry` beyond `max_retries`: with
`max_retries` 5 that is after 6 attempts, where `ARCHITECTURE.md:73-74` speaks of at most 5
(run `too_many_attempts`). The bound `AttemptsStayBounded` is the code's; the promise
(`NoticePromise`) says only that no notice is given up before `max_retries` attempts, on
which the code and the document agree.
The columns `webhook_deliveries.state` and `attempts` have no variable because no code
updates them after the insert.

*Bounds*: a countdown is any delay, and since the longest is 16 minutes a message is never
held beyond the broker's visibility timeout of an hour: only a death gives it back.
`MaxDeaths` bounds the deaths. `attempts`, `received`, `told`, `exhausted` and `aborted`
are histories: nothing in the program records them.

`Notification` attaches this to the core: a step of the core that raises `queue` (the
`.delay` of the endpoint) is in the same step the `Hand` of that notice.

Reconciliation reads and logs. `StuckIntents` is what it reports but for the hour an order
must have been untouched, which any order may reach.

### How orders, limits and the gateway correspond

*Orders*. An order is named by the request that inserted its row, so its public id needs
no generator. `Existing` is the SELECT, by key and merchant; `KeyTaken` the unique index,
by key only. `Insert` is INSERT and COMMIT, its `IntegrityError` is `Conflict`, `Refresh`
the SELECT that follows, and `Fail` an exception before the commit or after it. `Reject`
is the 401 of `get_current_merchant` or the 422 of a body that is not valid, which any
request may get.

*Limits*. `ReadTime` is TIME, `Count` the INCR and EXPIRE that Redis runs as one
transaction; an expired key counts 0. Assumptions: Redis answers, and a request counts
itself before the window after its own is over, that is within a minute (`Tick` waits
for it). `MaxTime` bounds the clock.

*Gateway*. `Attempts` carry the header and meet all layers, `Unkeyed` requests meet the
limiter and the endpoint (`Inside`). `Committing` is the `TakeEffect` of the idempotency
layer; `Responding` and `Raising` are its `call_next`, the 429 of the limiter and the
401, 422, 409 and 201 of what is inside it included.

*Who shares a header*. The Redis key is `idem:{path}:{header}` (`idempotency.py:64`): no
merchant and no body is part of it. The docstring (`:8-9`) speaks of a request fingerprint
and the message of the 409 (`:81-82`) of the same payload, as `OrderIdempotencyReuse` does
(`order.py:22`), but the code stores and compares neither. So the model does not assume
that attempts under one header are one client's: they may differ in merchant and key, and a
client may be answered with the response to another one's request (`ComputedFor` is that
request). `OneOrderIsTold` and `ToldOrderIsReadable` speak of the merchant of the request
whose handler computed the answer; of another merchant that uses the header,
`ToldOrderIsReadable` with its own merchant would be false. `OwnOrdersAreReadable` proves
that form where a header has one merchant, as an explicit hypothesis.

## What the runs check

| Run | Instance | Shows |
| --- | --- | --- |
| `races` | 1 order, 2 addresses, 2 initiators, 2 callbacks, all may die | `LedgerExactlyOnce`, `TransactionsOnlyAdvance`, `AckedIsDurable`, `NoticesAreTrue`, `OneTransactionPerVpa`, `NoWaitCycle`, `StuckAwaitsBank`, `BooksBalance` |
| `accounts` | 2 orders over the same payer and merchant, amounts 1 and 2, largest balance 3, a second address too long for its account, 1 initiator, 2 callbacks that may die | `BalancesMatchEntries`, `ReadsAreCurrent`, `SettlesAtomically`, `OneTransactionPerOrder`, `StatusMirrorsTransactions`, `IntentsOnlyAdvance` |
| `progress` | 2 orders with one payer and two merchants, one without a webhook, largest balance 1, 1 initiator, 2 callbacks, nothing dies, fair | `EveryRequestEnds`, `FinalisedIsDispatched`, `TypeOK` |
| `double_payment` | 2 initiators, 1 callback | `OrderPaidOnce` is violated |
| `lost_notice` | 1 initiator, 2 callbacks, one may die | `FinalisedIsEnqueued` is violated |
| `retries` | 4 attempts with one key, each may fail or die | `OneWorks`, `AtMostOneEffect`, `ResponseIsStable`, `KeysAreReleased`, `TypeOK` |
| `empty_replay`, `stuck_key` | 2 attempts | `RetryMeetsResultOrConflict` and `FailureFreesKey` are violated |
| `delivery` | 1 order, 1 initiator, 1 callback that may die, 2 Celery workers, 2 retries, 1 death, fair | `NoticeIsNeverLost`, `AttemptsStayBounded`, `MerchantHearsTheOutcome`, `KeepsThePromise`, `HandedIsConcluded` |
| `too_many_attempts` | 1 order, 1 callback, 1 Celery worker that lives, 5 retries as configured | `AtMostMaxAttempts` is violated |
| `gateway` | 2 attempts of one merchant and 1 of another under one header, 1 request without it, all with one body key; an API key and an address with a quota of 1, windows of 1 tick | `OneOrderIsTold`, `ToldOrderIsReadable`, `CacheTellsTheEffect`, `QuotaHolds`, `RefusedOnlyWhenSpent`, `KeepsTheRegistry` |
| `cached_refusal` | 1 attempt and 1 request without the header, a quota of 1 | `OnlySuccessIsCached` is violated |

Two workers of a kind are enough for every pairwise race; a third holder of the same
row would only wait. Two transactions are the fewest that share accounts or an order.
In `accounts` the largest balance holds both amounts, so both orders settle over the same
two accounts, in either order and overlapping: the second settlement adds to a balance that
is not 0 and to an account with a line. Amounts that differ make wrong amounts possible. In
`progress` the largest balance is one amount, so the second success of the payer overflows.
`races` has one amount, since wrong ones are refused before anything is written. Symmetry (workers of a kind,
transactions, addresses where none is special, attempts under one header) is used in
safety runs only, whose properties name no member of these sets.

In `delivery` one death is enough to double a chain of retries and two workers to have
both of its messages at work at once; two retries make a first, a middle and a last one.
Callbacks repeat and contradict each other while the workers post. In `gateway` the clock
reaches the first moment of the second window, so that requests which read the time in the
first one count themselves after it, against a counter that must have outlived it; a
longer lag, up to the assumption, is covered by the proof only. The two attempts of the
first merchant share the counter of its API key; its request without the header and the
other merchant carry bearer tokens and share that of their address. Each pair can exceed
its quota of 1, or be admitted in both windows, so that every pair of creations can race.
The other merchant's attempt uses the same header and the same body key.

Each property of a passing run has a mutant in `PROJECT.json`: the mutated form of a
definition, kept next to it and commented as such, under which TLC refutes the property.

### Fairness

`FairSpec` of `PaymentFlow` is strong fairness of each worker's progress: PostgreSQL
queues the waiters of a row, so a waiter is not passed over for ever although the row is
taken again and again, and the event loop resumes every request whose statement has
returned. Arrivals and failures are not obliged to happen. In `Idempotency` it is weak
fairness of each attempt's progress and of the key's expiry, which Redis does by itself;
arrivals, and the first SET of a retry, are not obliged. `NotificationFairSpec` adds weak
fairness of the work of each Celery worker, which `Die` may interrupt and which prefetches
messages for as long as there are any; deaths are not obliged. `Gateway` is checked for
safety only. `Retries`, `EmptyReplay`, `StuckKey`, `Gateway` and `CachedRefusal` do not
check for deadlock, since a finite number of requests ends.

### Findings

1. `double_payment`: overlapping initiations of one order each open a transaction, and
   both can succeed; the stale status also puts a paid order back to PROCESSING. The
   source promises that row locks prevent this.
2. `lost_notice`: the outcome is committed, then the outbox row, then the task is handed
   to Celery; a replay does neither of the last two and nothing sweeps the outbox, so a
   crash in between loses the notice for good.
3. `empty_replay`: a retry that comes between the two SETs gets 200 with no content.
4. `stuck_key`: a request that fails with an exception blocks its key until it expires.
5. `cached_refusal`: the comment says that only successful responses are cached; the code
   caches everything below 500: a 401, a 422, the 409 of a creation that lost a race, or a
   429 of the limiter, which sits inside, answers every retry with that key for 24 hours.
6. `too_many_attempts`: the architecture document promises at most 5 attempts; the 5 is
   passed to Celery as the number of retries, which makes 6 attempts.

Seen while modelling, of no run: the response to another client's request under the same
header (see above); a second merchant's use of an `idempotency_key` is a 409
for ever (`KeyTaken`), although `order.py:30` calls the key scoped per merchant; a creation
that loses a race is told that the key was "consumed with a different payload", and one
with another payload that comes later is replayed; `X-RateLimit-Reset` is the start of the
window (`rate_limit.py:64`), not its end.

## What is proved

All theorems are about the specifications TLC checks, for every value of the constants.
They use the assumptions `DbAssumption` (typing; addresses and settlement accounts are
named apart; a worker is of one kind), `SentinelAssumption`, `AttemptAssumption`,
`DeliveryAssumption` and `GatewayAssumption` (typing).

- `TypeCorrect`. `TypeOK` is inductive as it stands: it says that a callback past its
  first lock works on a transaction that exists, which no step can undo.
- `ReadsStayCurrent`, `Refinement`, `LedgerIsExact`, `TransactionsAdvance` rest on one
  inductive invariant, `SettlementInv`. A commit writes values that were read awaits
  earlier, so none of the four is inductive: the invariant adds which rows a callback
  holds at each await (`Holds`), that what it read is what they contain (`Current`) and
  what it has decided (`Decided`: the transaction was open, the amount is the order's).
  `Bystander` shows that a step of another worker keeps this part, since it neither frees
  nor writes a row the callback holds; `OwnStepKeepsInv` that the callback's own step
  does. It follows that every step of `PaymentFlow` is a step or a stutter of
  `Settlement` (`StepIsSettlementStep`), and the ledger and transaction theorems are then
  about the three abstract actions only.
- `BalancesAreExact` and `BooksAlwaysBalance` are about sums over the ledger, and rest on
  `Refinement` and `LedgerIsExact`: an abstract `Settle` adds one line to each of the two
  accounts (`LineIsPosted`) and their amount to both balances, so a balance goes on being
  the sum of its lines (`AccountsAreSummed`), and the payers' total, the merchants' total
  and the price of the successful transactions grow by the same (`BooksInv`). No constant
  needs to be finite for that: both invariants say that the lines of an account, the
  accounts in use and the settled transactions are finitely many.
- `FiniteSums` is what these and `AttemptsEnd` need of sums. `SumFunctionOnSet` is a
  recursive function over subsets; that its definition has a solution, and that the order
  of the summands does not matter, is proved by taking a least bad subset
  (`SubsetInduction`), with "bad" a set and not a predicate: the strict subsets of a finite
  set are well founded. The module's results for use are `SumWithOneMore` (a summand is
  added) and `SumChangesAt` (a summand changes).
- `DuplicatesAreRefused` rests on `DuplicateInv`: an initiation past its locking SELECT
  holds the intent's row, and one about to commit still has no duplicate. The stale status
  plays no part in it, which is why an order and an address keep one transaction although
  an order may get several.
- `LocksAreOrdered` (in `PaymentFlowProofs`): rows are ranked (transaction, intent, payer account, merchant account)
  and a worker holds only rows below its `Ceiling`, which its await determines and which is
  the rank of the row it waits for. So whoever waits stands lower than whom it waits for,
  and the highest member of a group waits for no member of the group.
- `AcksAreDurable` and `MerchantHearsTheTruth` rest on `NoticeInv`, which adds to
  `SettlementInv` that a callback past its commit has decided its transaction, that it is
  the only one to have done so, and which part of the notice it has not given yet.
- `EnqueuedUnlessDeath`: the property that `lost_notice` refutes does hold under the
  hypothesis `NoCallbackDies`, so a death is the only way to lose a notice. The invariant
  `OwedIsHandled` says that an owed notice was handed to Celery or is the next business of
  a callback past its commit.
- `StuckIntentsAreOpen`: every commit on an order sets its status, to PROCESSING if it opens
  a transaction and to the outcome if it decides one. So the last commit on a reported
  order opened a transaction, and that one is still open.
- `OneTransactionWhenSerial`, `StatusMirrorsWhenSerial`, `IntentsAdvanceWhenSerial` are the
  properties of `accounts`, and `PaidOnceWhenSerial` is the one `double_payment` refutes, under the hypothesis `OneInitiator` that no two initiations
  overlap. Their invariant is `SerialInv`: the stale status does no harm as long as nobody
  else advances an order (`SeenStands`).
- `ReservationExcludes`, `EffectIsUnique`, `CachedResponseIsStable` rest on `KeyInv`: one
  attempt at work, the key held while it is, and no effect wherever the key is free or
  may be freed. `KeyTypeCorrect` is the type invariant. `KeysAreTemporary`, that a taken key
  always has a time to live, is what `KeysAreReleased` needs besides fairness.
- Every step of `Notification` is by its form a step or a stutter of the core (the lemma
  `CoreIsUndisturbed`), so the theorems about the core hold of it. `NothingIsEverLost`, `EndpointHearsTheTruth` and
  `DeliveryRefines` rest on `DeliveryInv`: whatever is queued or held was handed over; a
  message with r retries has r attempts behind it, one more once its worker has posted; and
  only notices that were handed over were attempted. Truth then follows from
  `NoticesAreTrue` of the core, and `NoticePromise` step by step from the attempts made.
- `AttemptsEnd` needs a potential: the attempts made for a notice, plus those that its
  queued messages still allow (`InQueue`), plus those its workers still allow (`InWork`),
  never exceed `MaxRetries + 1` for each task handed over and each death (`AttemptsInv`).
  The bound alone is not inductive, since a message in the queue is what makes the next
  attempt. A retry or a post moves allowance from one term to another; a death puts a
  message back although its attempt was made, and perhaps its retry published, and pays
  for that.
- `OutcomesAreCarried` joins the two halves under `NoCallbackDies`: a finalised transaction
  that no callback is at work on has a notice of its outcome that waits, is being delivered
  or was concluded after attempts, whatever Celery workers die.
- `GatewayIsIdempotent`: limiter and endpoint are an application as `Idempotency` leaves it
  open, so the theorems about the key hold of the gateway. `OrdersAreUnique` and
  `ToldOrdersExist` rest on `OrderInv` (keys of committed orders differ; a reply names a
  committed order of the same merchant and key), whoever shares a header;
  `OwnOrdersAreReadable` has the hypothesis `OneMerchantPerHeader`. `QuotasHold` and `RefusalsAreEarned` rest
  on `QuotaInv`, which says of each counter that it has not expired while a request may
  still count itself in it, and that it counts the admitted ones (`CounterInv`); this is
  where the lag assumption and the factor 2 of EXPIRE meet. `CacheIsTruthful` adds
  `CacheInv`, how far the endpoint is when the key's attempt is past it.
- `GatewayKeepsTheRegistry`: every step of `Gateway` is a step or a stutter of
  `OrderRegistry`, where what a request is told is the reply of whichever attempt computed
  its response, and the peers of a request are those with its header. That nothing is revised needs `AnswersStand` (only answered attempts have
  an answer, and a response is one of an attempt that was answered itself) and
  `RepliesStand` (only a creation that is through names an order).

Model-checked only: the liveness properties (`EveryRequestEnds`, `FinalisedIsDispatched`,
`KeysAreReleased`, `HandedIsConcluded`) and the absence of deadlocks, which need fairness
and ENABLED. Every other property of a passing run is a theorem. The properties that
`empty_replay`, `stuck_key`, `cached_refusal` and `too_many_attempts` refute are stated by no
theorem.

## Not modelled

Signatures, timestamps, tokens and hashing (no state); merchants and credentials (one
insert and one look-up that meet nothing else); `services/ledger.py` and
`verify_bank_signature` (no caller); logging, request ids, CORS, response headers and
configuration; the schema beyond column widths and uniqueness. Currencies: the ledger
writes its default for every order. Failures of Redis: a command that fails raises out of
the middleware before anything is done or after everything is, as a death does. The
initiation endpoint behind the stack: it meets the same layers as order creation, and
`GatewayIsIdempotent` uses of the endpoint only that it commits once.

## Plan

Everything the plan named is done: the core (`PaymentStates` to `Settlement`),
`Idempotency`, `OrderCreation`, `WebhookDelivery` and its composition with the core,
`RateLimit`, `Gateway` and the registry it implements, and the theorems about all of them,
the sums over the ledger and over the queue included. What could still come: an abstract
specification of the idempotency layer by itself; liveness of the gateway, whose clock
would need fairness of its own; and initiation behind the stack, which would join `Gateway`
and `PaymentFlow`.
