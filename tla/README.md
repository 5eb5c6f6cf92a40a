# Formal model of the microservices demo

TLA+ modules, TLC configurations and TLAPS proofs about this repository: an API
gateway in front of four gRPC services, of which `order-service` runs a saga
over `payment-service`, stores the order, and publishes to Kafka
(`analytics-service`) and RabbitMQ (`notification-service`).

## The system

| Part | State it keeps | Operations | Talks to |
|---|---|---|---|
| api-gateway | none | REST routes, body validation, gRPC error → HTTP status, deadlines | gRPC to all services |
| user-service (Go), product-service (Nest) | one Postgres table each | create, get | – |
| order-service | table `orders`; in memory, one array `compensations` per saga | CreateOrder (the saga), GetOrder | gRPC to user, product, payment; Kafka and RabbitMQ producers |
| payment-service | tables `payments`, `refund_intents`; advisory locks; a pool of connections | ProcessPayment, GetPayment, RefundPayment, RefundByOrderId | a simulated gateway |
| notification-service | none of its own; three RabbitMQ queues hold everything | handle, retry through the TTL queue, dead-letter | RabbitMQ |
| analytics-service | table `order_metrics`; the committed offsets of its group | handle, retry in place, publish to the DLQ topic | Kafka, Postgres |

What is hard in it, and what correctness means there (every hazard is listed
at its line in `PROJECT.json`):

* **api-gateway.** A client that is told something acts on it, while the handler
  behind the answer may still be running. A 4xx must mean that nothing happened
  or will, a 404 that nothing was there, a 201 that it stays; the deadline of
  the gateway must outlast every path through the saga.
* **payment-service.** A charge and the refund that compensates it race: the
  refund may come before, during or after the charge is recorded. Money must
  never be kept once a refund was requested. A retry loop around the gateway
  *and* the database must not charge twice without cause. Locks are taken
  while holding pool connections.
* **The saga.** A call that times out may still be running at the server. The
  rollback must undo what happened, what did not, and what is still to happen;
  it must not undo an order that is placed because a publish failed. Nothing
  of a saga survives a crash.
* **The process of order-service.** Its publishers lose their connections, or
  are disconnected by a shutdown, under sagas in progress: gRPC waits for the
  calls it has open, which are not the sagas still running. A lost announcement
  must be reported, and every shutdown must end.
* **notification-service.** The retry count lives in the message. A retry is a
  publish followed by an ack on a connection that may break between them.
* **The order as data.** Its quantity and amount are converted at every border
  (JSON, int32, double, NUMERIC), its correlation id is carried by four
  different means through seven services in three languages, through retries
  and compensations. All must agree in the end.
* **analytics-service.** Offsets are committed after the fact; retries happen
  in place so that a partition keeps its order; a poison event must not block
  it, and giving up must leave a trace.

## The modules

| Module | Models |
|---|---|
| `PaymentLedger` | Abstract specification: charges are taken, cancelled orders keep none, for good. Three variables, no processes. |
| `PaymentService` | `payment-service`, one step per await of its handlers. |
| `PaymentServiceProofs` | Type correctness, the inductive invariant, and the refinement of `PaymentLedger`, proved. |
| `PaymentAnswerProofs` | What the answers of payment-service promise, and who may refund twice, proved. |
| `OrderContract` | Abstract specification: what the caller of CreateOrder may conclude from its answer. |
| `CreateOrderSaga` | `order-service`'s CreateOrder, over an instance of `PaymentLedger`; implements `OrderContract`. |
| `CreateOrderSagaProofs` | Its inductive invariant, its safety properties and the refinement of `OrderContract`, proved. |
| `OrderService` | The process `CreateOrderSaga` runs in: broker connections, shutdown, crash, restart. Extends it. |
| `OrderServiceProofs` | The same for the process, with its own invariant. |
| `OrderJourney` | One order as data, through all seven services: quantity, amount and correlation id. |
| `OrderJourneyProofs` | Its invariant, and that amounts, quantity and id are kept for any values, proved. |
| `Gateway` | `api-gateway` with the handlers behind its routes (user-, product-, order- and payment-service), and the time they take. |
| `GatewayProofs` | Its inductive invariant; the time budget and the meaning of the statuses, proved. |
| `NotificationConsumer` | `notification-service` and the three queues of `infra/rabbitmq/init-topology.sh`. |
| `NotificationProofs` | No message is lost, given up or repeated without cause, proved. |
| `AnalyticsConsumer` | `analytics-service`, its consumer group and its table. |
| `AnalyticsProofs` | Nothing is skipped or reordered, extra rows are bounded by their causes, proved. |
| `MC*` | Constants for TLC: model values, lock collisions, the partition of each event. |

`PaymentService` and `CreateOrderSaga` compose through `PaymentLedger`: the
first is proved to implement it, the second uses it as its payment server and is
proved to implement `OrderContract`.
`Gateway` has the stages of the saga once more, with their durations and without
the states of the other side: what a call does to the money is the ledger's
matter, how long the client waits for it is the gateway's. `OrderService` adds
the process to the saga: each of its steps is a step of `CreateOrderSaga`, cut
down to what the publishers can reach, or leaves the saga alone. The events and
notifications the saga publishes are the inputs of the two consumer modules.
`OrderJourney` follows one order across all of them and leaves to each of the
other modules how a call may fail.

### PaymentService

One member of `Calls` is one gRPC request; its `pc` names the await it stands
at. `rows`, `refundedAt` and `intents` are the *committed* tables; what a
transaction has written and not yet committed is in the request's locals
(`seen`, `matched`). READ COMMITTED is modelled by reading the committed tables
at the statement and applying the writes at the COMMIT.

| Source | Actions |
|---|---|
| `processPayment` (retry loop) | `StartCharge`, `GatewayCaptures`, `GatewayDeclines`, `NextAttempt` (loop head), `RecordFailed`, `RecordFails` |
| `withOrderLock` | `BeginTxn`, `AcquireOrderLock`, `ReleaseLock` (COMMIT, ROLLBACK, end of session) |
| `createChargedPayment` | `CheckIntent`, `InsertPayment`, `CommitCharge`, `ChargeTxnFails`, `ChargeCommitUnknown` |
| `refundByOrderId`, `requestRefundByOrderId` | `StartRefund`, `WriteIntent`, `UpdateRows`, `CommitRefund`, `RefundTxnFails`, `RefundCommitUnknown`, `FindByOrder` |
| `refundPayment` | `StartRefundById`, `FindById`, `Settle`, `MarkRefunded` |
| failures | `QueryFails`, `DbFails`, `Crash` |

Abstractions. Sleeps only delay, so they are not steps of their own except the
500 ms in `refundPayment`, during which its check goes stale. A COMMIT whose
answer is lost is `…CommitUnknown`; a COMMIT that reaches Postgres as the
process dies is that step followed by `Crash`. A COMMIT that Postgres applies
long after its client gave up still holds the advisory lock until then, so it
is indistinguishable from one applied when the error is raised. A statement
waiting for a row lock keeps its connection (`mark`). Amounts are abstracted to
"fits NUMERIC(12, 2)" or not. The gateway is the simulated one of the source: a
capture cannot be undone there, so "refunded" is a status in the table only.

### CreateOrderSaga

One member of `Sagas` is one CreateOrder request and its order. A remote call
is split into the server's work (`ProcessPayment`, `RefundByOrderId`, … on the
ledger) and what the saga sees (`PaymentAnswered`, `PaymentTimesOut`, …), so
that a server may finish after the deadline, twice (`ChargeUnnoticed`) or
never. `compensations` is the source's array. Statements of order-service may
fail before or after being applied; `LateInsert` applies one whose connection
broke even later (`abandoned` tells which), which the code has no answer to (see
the findings). After a crash the saga is `dead`, as nothing resumes it.

A message is on the `wire` from the moment a publisher writes it, `delivered`
when the broker has it. `settled` and `rejected` are the promises of
`Promise.allSettled`: a promise may be rejected although its message arrives,
and `publishOrderEvent` resolves without sending when its producer is not
connected.

`OrderContract` is the caller's view: nothing is promised before the answer but
that a CONFIRMED order is paid; an order told `placed` stays placed and paid; an
order told `failed` is not CONFIRMED and costs nothing, then or later, unless
an operator is called for (`alarm`). The refinement raises the alarm exactly
where a compensation threw (the log line INCONSISTENT STATE), where an INSERT
was left behind, and where the process died (`NeedsOperator`).

### OrderService

| Source | Actions |
|---|---|
| `start`, `connectBrokersWithRetry` | `ConnectKafka`, `ConnectRabbit` |
| `publishOrderEvent`, `publishNotification`: `connected`, `channel` | `Reachable`, `Publishers`, `ConnectionClosed` |
| the gRPC server | `Accept`, `Run`, `CallerLeaves` |
| `setupGracefulShutdown` | `Signal`, `Drained`, `DisconnectKafka`, `DisconnectRabbit`, `ExitGracefully`, `ForceExit` |
| crash, `process.exit(1)` of index.js, `restart: on-failure` | `Die`, `Restart` |

Only `connect` sets `channel`, and only the start calls it: a connection that
closed stays closed until the process is restarted. `closePool` is the end of
the shutdown; the statements of a saga that still runs then may succeed or fail,
as everywhere in `CreateOrderSaga`.

### OrderJourney

Amounts are in tenths of a cent and quantities of a body in halves, so that both
can be finer than what they are converted to; `Round`, `Numeric` and `ToInt32`
do what a NUMERIC(12, 2) column and the `value | 0` of protobufjs do, with the
bounds 10^10 and 2^31 scaled down to 10 cents and 4. A product with a price of
0.40 cents is stored at 0.00, one of 0.5 cents at 0.01. Doubles are taken as exact:
below 10^10 their error is far less than half a cent, and each column rounds
it away.

| Source | Definitions |
|---|---|
| `middlewares/correlation-id.js`, `runWithCorrelationId` (five copies), Go's and Nest's interceptors | `Post`, `Given`, `CreateOrder`, `GetUser`, `GetProduct` |
| `correlationMetadata`, the Kafka header, the AMQP property, `scheduleRetry` | `ctx`, `Metadata`, `Publish`, `PublishFailed`, `Retried` |
| pino's `mixin`, slog's `contextHandler`, the interceptor's `log` | `Log`, `lines` |
| the schemas and `Product.price` | `ProductPrice`, `PaymentAmount`, `OrderTotal`, `MetricsTotal` |
| `order.routes.js`, `order.handler.js` | `ToInt32`, `Acceptable` |

A generated id is named after the service that generated it, so an id that was
lost on the way shows as one of a later service. That concurrent requests do not
see each other's context is the semantics of AsyncLocalStorage and of Go's
contexts, and taken as given. One log line has no id: RabbitMQ's confirm runs its
callback from amqplib's socket, outside every context
(rabbitmq.publisher.js:67-73, against context/grpc.js:20-22); `TraceIsWhole`
names it.

### Gateway

One member of `Requests` is one HTTP request. `stage` is where the handler
behind it stands, `code` what it answered, `status` what the client got; the two
sides only meet in `Answer`, so a handler goes on after `TimeOut` and
`LoseConnection`. Bodies are abstracted to three classes: refused by
`validateBody`, refused by the service, good.

| Source | Definitions |
|---|---|
| `routes/*.routes.js`, `validateBody` | `Send`, `Kinds`, `Bodies`, `Success` |
| `createCaller`, `grpcTimeouts` | `Timeout`, `Answer`, `TimeOut`, `Unavailable`, `Hang` |
| `grpcToHttpStatus`, `errorHandler` | `grpcToHttpStatus`, `Respond`, `LoseConnection` |
| `CreateUser`, `CreateProduct`, their validation | `Reject`, `Rejection`, `CreateRow`, `Failure` |
| `GetUser`, `GetProduct`, `GetOrder`, `GetPayment` | `GetRow`, `ReadFailure`, `Exists` |
| `createOrder`, `execute` and its compensations | `StartSaga`, `SagaStage` (`OnSuccess`, `OnFailure`, `Limit`, `Effect`), `EndSaga`, `Outcome` |

Time is an integer per request, `elapsed`, which each stage advances by any
amount up to its limit. A gRPC call of the saga is limited by its deadline; a
statement and a publish have none in the code, so theirs (`DbTime`,
`BrokerTime`) are parameters. A handler that hangs lets the rest of the
deadline pass in one step. Both publishes of an order are one stage, of their
joint time, as they run concurrently.

### NotificationConsumer

`main`, `retry` and `dlq` are the queues, `delivered` the deliveries without an
answer (at most `Prefetch`), `wire` the ordered stream of what the consumer
sent. `LoseConnection` drops the wire and requeues the deliveries, in any order;
a process that was busy fails and is restarted, one that was idle exits with
status 0 and is not (`restart: on-failure`). A copy carries `deaths`, the
`x-death` count. `dlq` is a set: equal copies in it are one. The durability of
the broker itself is assumed. `Stop` is a shutdown by signal, which has no timer
and waits for no message in progress; `Connect` is a start that found its
connection and its three queues, a failed one changes nothing.

### AnalyticsConsumer

`position` is how far kafkajs has resolved each partition, `committed` what the
group has stored; `job` is the one message `eachMessage` runs for. `rows`
counts the rows of each event. `maxRetries` is chosen initially from
`RetryLimits`, including 0, which the configuration accepts. A rejoin of the
group has the effect of `Crash`.

## What is checked

Runs expected to pass:

| Run | Bounds | Shows |
|---|---|---|
| `payment_safety` | 1 charge, 2 refunds of one order, 2 attempts, 2 database errors and a crash | `RefundIntentHonoured`, `RefundAnswerIsFinal`, `AnswerMatchesTables`, `ExtraChargesHaveACause`, `RefundedOnce` |
| `payment_all_kinds` | 2 charges, both kinds of refund, 1 attempt, 1 database error, 1 crash, pool of 2, all orders on one lock, one amount that does not fit | the inductive invariant `IInv`, `Implements`, and `EveryRequestEnds`: no deadlock between pool and locks |
| `order_service` | 1 saga, 2 charges per request, 1 restart; crashes, signals, lost connections and leaving callers at any point | the inductive invariant `ServiceInv`, `KeepsContract` (it implements `OrderContract`), `NoOrphanCharge`, `ConfirmedIsPaid`, `AnnouncedIsFinal`, `EveryLossReported`, `GracefulExitDropsNobody`, `EverySagaEnds` with a payment-service that may never answer, `EveryShutdownEnds` with a broker that never confirms |
| `journey` | 9 prices, 11 quantities, a request with and without an id, 2 retries, every call may fail | the inductive invariant `IInv`, `TraceIsWhole`, `AmountsAgree`, `QuantityKept` |
| `gateway` | 2 requests of any kind; deadlines 1, 2 and 10, statements and publishes up to 1 | `ClientErrorHasNoEffect`, `NotFoundMeansAbsent`, `CreatedStands`, `NoEarlyTimeout`, the inductive invariant `IInv`, `EveryRequestAnswered` |
| `notification` | 2 messages, one that always fails, 2 retries, prefetch 2, 2 stops, crashes or lost connections | the inductive invariant `IInv`, `NoMessageLost`, `DlqMeansExhausted`, `RetriesAreCounted`, `NoLossNoDuplicate`, `EveryMessageSettled` |
| `analytics` | 4 events, one of each kind, 2 partitions, 0 or 2 attempts, 3 faults, 1 redelivery | the inductive invariant `IInv`, `NothingSkipped`, `OrderKept`, `ExtraRowsHaveACause`, `GivenUpWhenExhausted`, `EveryEventCommitted` |

Runs in which the code breaks what a comment or document of the repository
says (details under `findings` in `PROJECT.json`):

| Run | Statement | What happens |
|---|---|---|
| `payment_oversized` | a payment record is always stored | an amount over NUMERIC(12, 2) is captured on every attempt, and neither the SUCCESS nor the FAILED row can be inserted |
| `payment_refund_twice` | only a SUCCESS payment is refunded | check, 500 ms, unconditional UPDATE: two calls both refund |
| `saga_late_insert` | the cancellation is safe even if the insert has not run yet | the INSERT of a broken connection lands after the cancellation: a failed, refunded order reads CONFIRMED |
| `order_silent_loss` | a failed publish is logged at error level | an ORDER_CREATED is skipped with a warning and counts as sent: its caller left, and a shutdown disconnected the producer under the saga |
| `gateway_budget` | 45 s cover the worst case of CreateOrder | the sum leaves out the statements and the publishing, which is awaited and may retry for some 25 s: 504 for a placed order |

Smaller disagreements and observations that no run is spent on, all visible in
the modules:

* `ADVANCED_ARCHITECTURE.md:230` says that the payment is refunded if any of the
  steps 1 to 6 fails. A publish that fails (steps 5 and 6) is logged and the order
  stands: that is rule (b) of the code, and `AnnouncedIsFinal`.
* `PAYMENT_MAX_RETRIES=0` and `KAFKA_MAX_RETRIES=0` pass their `validate()`. The
  loops do not run and `lastError.message` throws: payment-service stores no row,
  analytics-service repeats the first message of a partition forever. Both limits
  are values of the models; `EveryEventCommitted` is stated for a positive one.
* `product.service.ts:20` takes every error of the query for a malformed id: a
  404 for a product that exists. `NotFoundMeansAbsent` leaves GetProduct out.
* After a crash of order-service between the charge and the INSERT the money
  stays taken: nothing resumes the saga. `OrderContract` raises its alarm there.
* An email is sent again when the connection is lost before its ack, and a charge
  is captured again when its COMMIT failed or its outcome is unknown. The code
  says so or cannot know; `NoLossNoDuplicate` and `ExtraChargesHaveACause` say
  that nothing else repeats them.
* `docker-compose.yml` says of every service that its shutdown handler ends by
  itself after 10 s. notification-service and analytics-service set no timer;
  Docker's SIGKILL after 15 s ends them.
* A positive price below half a cent passes `IsPositive` and is stored as 0.00;
  its orders are placed for nothing.
* A quantity of 4294967297 or 2.5 is placed as 1 or 2 (`QuantityKept` is about
  whole numbers an int32 holds).
* `rabbitmq.publisher.js:25-31` forgets the channel when its queue is missing, and
  not the connection, so each retry of the start leaves one open.
* `toResponse` drops the status: GetOrder of a cancelled order reads like that of
  a placed one.
* Messages of the Kafka DLQ carry no correlation id (dlq.producer.js:43-46).

**Why the bounds are enough.** The races of payment-service are between
requests of one order: a charge and its refund, a repeated refund, a refund by
id. Two attempts make a retry follow a capture; one key shared by all orders is
the worst case of `hashtext`. With two connections two transactions overlap:
one waits for the advisory lock, or RefundPayment for a row, while it holds a
connection, and the one it waits for needs no second one. Two database errors let
a request fail twice, three faults let one event be given up and lost. Sagas share
nothing but the process and each has its own order, so one of them has every
behaviour; what two requests of one order may do is in `payment_*`. One restart
is one more life of the process, with a saga it can start there; it takes
nothing over from the last one. Two HTTP
requests let one read what the other creates. With deadlines 1 and 2 and unit
delays the saga's budget is 2·1 + 2·2 + 2·1 + 1 = 9, and 10 is the smallest
deadline above it; the run of `gateway_budget` has the configured seconds. A retry cycle in RabbitMQ is covered
once it is taken twice and interrupted twice, the second time after a restart.
The prices and quantities have a member on each side of every boundary a
conversion has. In Kafka, an ordinary event ahead of
and behind a poison one, and a second partition, give every order of effects.
The proofs below need no bounds.

**Fairness.** Weak fairness on a started request, saga or handler: the event
loop runs what is ready and Postgres answers or breaks the connection. No
client is obliged to send, no fault to happen. In `CreateOrderSaga` nothing is
assumed of payment-service (its deadline, an action of the saga, is what ends
the wait), nor of RabbitMQ's confirm, for which the code sets no timeout:
`EverySagaEnds` names that wait (`AwaitsConfirm`). In `OrderService` the steps of
a saga are fair as long as the process runs them (`Run`), and so is the timer of
the shutdown; nobody has to connect, to signal or to restart. In the consumers, the
brokers deliver, TTLs expire and Docker restarts a failed process.
In `Gateway` a handler goes on
unless it hangs, and the gateway takes an answer that is there or fires a timer
that is due. `AnalyticsConsumer` has strong fairness on `Fetch` because kafkajs takes its
partitions in turn and a partition's turn is interrupted by those of others.

## What is proved

Every invariant of the passing runs, both refinements and both action properties
(`RefundedOnce` under a condition) are theorems; TLC checks them on the instances above, the proofs
hold for all constants that satisfy the named assumptions of the modules. Those
assumptions are the shape of the constants (sets of requests that are disjoint,
functions with the right domain, bounds that are naturals, a pool and a prefetch
that are not empty) and that `None` is a value of its own. None of them bounds
the number of requests, sagas, messages, events or faults.

Each component has an inductive invariant (`IInv`, for `OrderService`
`ServiceInv`), stated in the component's module and checked by TLC before it was
proved. Most of its proof is one lemma per action, under it one step per conjunct.

### PaymentService

`PaymentServiceProofs`: `TypeCorrect`, `Invariant`, and

* `IntentHonoured`: no payment is SUCCESS when the refund of its order is on
  record (`RefundIntentHonoured`).
* `Refinement`: payment-service implements `PaymentLedger` with `kept` =
  SUCCESS rows, `returned` = REFUNDED rows, `cancelled` = `intents`.

`RefundIntentHonoured` is not inductive: a charge could commit SUCCESS with a
stale `seen`. The strengthening follows the argument of the comment on
`withOrderLock`. `LockHeld`: a request inside its transaction holds the lock of
its order's key, and a lock is only held by such a request. Hence between
`CheckIntent` and `CommitCharge` no refund of the order commits, so
`SeenIsCurrent`; between `UpdateRows` and `CommitRefund` no charge of it does,
so `MatchedIsCurrent`. RefundPayment takes no lock, but it only moves SUCCESS
or REFUNDED rows to REFUNDED (`TargetIsCharged`), and it cannot touch a matched
row before its transaction ends. `AttemptIsNew` gives the ledger step its
"not recorded yet". Each of the two commits is then one step of the ledger, and
every other step a stutter.

`PaymentAnswerProofs` is about the answers:

* `RefundIsFinal` (`RefundAnswerIsFinal`), `AnswersMatch`
  (`AnswerMatchesTables`), `ExtraChargesCaused`
  (`ExtraChargesHaveACause`). On top of
  `IInv` they need `AnswersSound`: what a request knows of its rows at each place
  it may stand at. A request at rest is only disturbed by what others do to
  rows, which is one lemma (`RowFate`: a row that is there never changes but from
  SUCCESS to REFUNDED). `ExtraChargesCaused` counts: a request
  that goes back to the head of its loop after a capture has had a database error,
  so the captures before the current attempt never outnumber `dbErrors`, and neither
  do those without a row once it is answered (`CapturesCounted`, `ChargeSound`).
* `RefundedAgainById`: `refunded_at` of a refunded payment is written again by
  RefundPayment alone.
* `RefundsOnce`: hence `RefundedOnce` where no RefundPayment runs, the condition
  under which the run checks it too. With RefundPayment it is false, which is the
  finding of `payment_refund_twice`.

### CreateOrderSaga and OrderService

`CreateOrderSagaProofs`: `Invariant`, `TypeCorrect`, and

* `NoOrphan`, `Paid`, `Final`: `NoOrphanCharge`, `ConfirmedIsPaid` and
  `AnnouncedIsFinal`, for any number of sagas and of charges per request.
* `ContractKept`: the saga implements `OrderContract`.

`IInv` says of each saga (`Sound`) that the array holds the refund from the moment
the charge is asked for and the cancellation from the moment of the INSERT
(`RegisteredAsFarAsDone`), that calls were made only for what is registered
(`CalledAsRegistered`), what the ledger holds given the calls and their answers
(`MoneyMatchesCalls`), what the row may be at each stage (`RowMatchesStage`),
and which messages may be out (`SentAtItsStage`). A step of one saga leaves the
others `Same`, and `Same` preserves `Sound`, so each action is looked at for its
own saga. `NoOrphanCharge` follows because a charge after the deadline finds the
order cancelled in the ledger, which by the refinement above is what
payment-service really does.

For the refinement, every step that is not one of the two answers is shown to go
`Forward`: it takes back neither an alarm, a failed compensation, a row that was
cancelled, nor an answer. The INSERT is the step that places, the end of
`publishEventsBestEffort` and of the rollback are the answers, a crash is `Die`.

`OrderServiceProofs`: `ServiceInvariant`, `LossesReported`
(`EveryLossReported`), `NobodyDropped` (`GracefulExitDropsNobody`), `SagasHold`
(the three properties of the saga, in its process) and `ServiceKeepsContract`.
The process only restricts the saga's steps, so `IInv` carries over step by step;
what `ServiceInv` adds is that no call is open once the shutdown has drained and
that every announcement a saga counts as settled arrived or was reported
(`SettledIsReported`).

### Gateway

`GatewayProofs`, for any requests, positive deadlines and natural delays:

* `Budget`: if 2·default + 2·payment + 2·`DbTime` + `BrokerTime` is below the
  gateway's deadline, a CreateOrder is answered 504 only when its service hangs
  (`NoEarlyTimeout`).
* `RefusedHasNoEffect`, `SuccessStands`: `ClientErrorHasNoEffect` and
  `CreatedStands`.
* `AbsentIsAbsent`: `NotFoundMeansAbsent`.
* `Invariant`, `TypeCorrect`.

None of these is inductive: a 4xx may be undone by a handler that is still
running, unless the code it answered says that it ended. `IInv` therefore
relates each pair of neighbours: `StageMatchesTables` (what the tables hold
when a handler stands at a stage), `CodeMatchesTables`, `StatusMatchesCode`, and
`WithinBudget` (`elapsed` is at most `Spent(stage)`, the longest way there).
Every action touches one request (`OneAtATime`), so each is proved for its own.
`AbsentIsAbsent` adds that rows stay, and that NOT_FOUND was only answered by a
read that found none (`AbsenceIsTrue`).

### NotificationConsumer

`NotificationProofs`: `Invariant`, `TypeCorrect`, and

* `NeverLost` (`NoMessageLost`). The wire is what makes it hard: a message may be
  nowhere but in a publish the broker has not read. `AnswersMatch` says that an
  answer on the wire is the only one to its delivery and that a publish is
  followed at once by the ack of the delivery it copies. So when the channel
  closes, every publish that is lost still has its original among the deliveries
  that go back to the queue. `NobodyForgotten` then lists the six places of a
  notification that has no email.
* `DlqIsLastResort`, `RetriesHaveACause` (`DlqMeansExhausted`,
  `RetriesAreCounted`), from `TriesAreCounted`: what waits for another try has
  failed once more than its deaths say, and has a try left.
* `NeverTwice` (`NoLossNoDuplicate`), from the further invariant `SoleCopy`: while
  no channel closed, a notification is in exactly one of seven places, once, and
  its failures are the deaths of its copy, or one more when the last try is over.
  An action moves at most one notification from one place to another (`Moved`).

### AnalyticsConsumer

`AnalyticsProofs`: `Invariant`, `TypeCorrect`, `NoEventSkipped`
(`NothingSkipped`), `EffectsInOrder` (`OrderKept`), `RowsHaveACause`
(`ExtraRowsHaveACause`), `GivingUpHasItsPrice` (`GivenUpWhenExhausted`), for any
events and partitions. The strengthening: the message in hand is the one after the
position of its partition (`JobIsNext`), so whatever takes effect has everything
ahead of it accounted for; the attempts of the message in hand were paid for by
faults that no event given up before has used (`FailuresCounted`, by the cardinality
of what was given up); and a second row by a fault or a redelivery
(`RowsCounted`). `LogIsSound`: an event is in the log once.

### OrderJourney

`OrderJourneyProofs`: `Invariant`, `TypeCorrect`, `OneTrace` (`TraceIsWhole`),
`OneAmount` (`AmountsAgree`), `OneQuantity` (`QuantityKept`), for any prices,
quantities and bounds of the columns. `AmountsAgree` rests on arithmetic: a stored
price is a whole number of cents, so is its product with a whole quantity, and
`NUMERIC(12, 2)` leaves such a number as it is or refuses it (`WholeCents`,
`MultipleOfTen`, `TotalType`). `QuantityKept` rests on `Int32`: an int32 that is
accepted is positive, and the client's if it fitted. The id is that of `header` in
every context and message (`IdsAreHandedOn`).

### Only model-checked

* Liveness and everything that needs ENABLED: `EveryRequestEnds`,
  `EverySagaEnds`, `EveryShutdownEnds`, `EveryRequestAnswered`,
  `EveryMessageSettled`, `EveryEventCommitted`. The prover does not handle them.
* `RefundedOnce` in general: it is false, see above.
* That the code's comments are violated (the five runs with a finding): TLC's
  counterexample is the result.

## Not modelled, and the plan

Done: PaymentLedger, PaymentService, OrderContract, CreateOrderSaga,
OrderService, OrderJourney, Gateway (with user-service and product-service),
NotificationConsumer and AnalyticsConsumer, each with its proofs.

What would say more, in this order: as theorems, the composition of the saga with
payment-service itself in place of the ledger; the action properties behind
`CreatedStands` and `ClientErrorHasNoEffect` (a status is never taken back); that
the ledger's promise, and the contract's, are kept for good.

Left out for good, with the reason:

* A graceful stop of payment-service and of analytics-service: each is a crash
  at a moment when nothing, or less, is in progress, and the crash is modelled.
  The other services keep no state of their own.
* The wording of logs and messages, names and emails, proto loading, config
  parsing beyond the values named above, Dockerfiles: no property is about them.
* The isolation of AsyncLocalStorage, the internals of kafkajs, amqplib, pg and
  grpc-js: external, modelled by the outcomes the code can see.
* The numbers of the analytics dashboard: sums over the rows that are modelled.
* The network between services beyond lost, late and failed calls.
