------------------------------ MODULE OrderJourney ------------------------------
(***************************************************************************)
(* One order on its way through all seven services: what becomes of its    *)
(* quantity, its amount and its correlation id.  Quantity and amount are   *)
(* converted wherever they cross JSON, protobuf (int32, double) or a       *)
(* NUMERIC(12, 2) column; the id is handed on in gRPC metadata, a Kafka    *)
(* header and an AMQP property, and a service given none makes up its own. *)
(*                                                                         *)
(* Each call succeeds or fails here; how it may fail is for the modules of *)
(* the services.  Amounts are in tenths of a cent, so that they can be     *)
(* finer than a column, and quantities of a request body in halves.        *)
(***************************************************************************)
EXTENDS Integers

CONSTANTS
  Prices,        \* of POST /api/products
  Quantities,    \* of POST /api/orders; None for a body without one
  IntBound,      \* 2^31, scaled down
  NumericBound,  \* 10^10, from where NUMERIC(12, 2) overflows, scaled down
  MaxRetries,    \* of notification-service
  ClientId,      \* the x-correlation-id of a request that has one
  NaN, None

ASSUME JourneyAssumption ==
  /\ Prices \subseteq Int \cup {NaN}
  /\ Quantities \subseteq Int \cup {NaN, None}
  /\ {IntBound, NumericBound} \subseteq Nat \ {0}
  /\ MaxRetries \in Nat

VARIABLES
  stage,     \* where the request is
  product,   \* products.price
  asked,     \* the quantity in the body
  quantity,  \* ... as order-service receives it
  captured,  \* the amount the payment gateway charged
  payment,   \* the rows of payments, orders and order_metrics
  order,
  metrics,
  event,     \* the message in order-events
  notice,    \* the message in the notification queues
  mail,      \* the email that went out
  answer,    \* of CreateOrder
  header,    \* x-correlation-id of the HTTP response
  ctx,       \* the id in the context of order-service's handler
  lines      \* log lines: who wrote it, with which id

numbers == <<product, asked, quantity, captured>>
tables == <<payment, order, metrics>>
outputs == <<event, notice, mail>>
vars == <<stage, numbers, tables, outputs, answer, header, ctx, lines>>
-----------------------------------------------------------------------------
(* The conversions.                                                        *)
Round(x) == 10 * ((x + 5) \div 10)
Numeric(x) == IF Round(x) < NumericBound THEN Round(x) ELSE None

(* Mutant: @Column('numeric') without precision and scale. *)
Unscaled(x) == IF x < NumericBound THEN x ELSE None
ProductPrice(x) == Numeric(x)
PaymentAmount(x) == Numeric(x)
OrderTotal(x) == Numeric(x)
MetricsTotal(x) == Numeric(x)

(* A double holds a total below 10^10 exactly to far less than half a cent. *)
Total == product * quantity

(* protobufjs stores an int32 as `value | 0`.                              *)
Truncate(q) == IF q >= 0 THEN q \div 2 ELSE -((-q) \div 2)
ToInt32(q) ==
  IF q = NaN THEN 0 ELSE ((Truncate(q) + IntBound) % (2 * IntBound)) - IntBound

(* Mutant: only !quantity. *)
NotZero(n) == n # 0
Acceptable(n) == n > 0

(* The id a service works under: the one it was given, or its own.         *)
Given(id, service) == IF id # None THEN id ELSE service
Ids == {ClientId, "api-gateway", "order-service", "user-service", "product-service",
        "payment-service", "analytics-service", "notification-service"}

ASSUME NoneAssumption == None \notin Int \cup Ids \cup [amount : Nat, quantity : Nat]

Log(service, id) == lines' = lines \cup {<<service, Given(id, service)>>}

Amounts == 0 .. NumericBound - 1
Counts == 1 .. IntBound - 1
Maybe(S) == S \cup {None}

TypeOK ==
  /\ stage \in {"price", "post", "createOrder", "getUser", "getProduct", "processPayment",
                "insert", "publish", "compensate", "failed", "respond", "done"}
  /\ product \in Maybe(Amounts)
  /\ asked \in Maybe(Quantities)
  /\ quantity \in Maybe(-IntBound .. IntBound - 1)
  /\ captured \in Maybe(Nat)
  /\ payment \in Maybe([amount : Amounts, status : {"SUCCESS", "FAILED", "REFUNDED"}])
  /\ order \in Maybe([amount : Amounts, quantity : Counts])
  /\ metrics \in Maybe([amount : Amounts, status : {"CREATED", "FAILED"}])
  /\ event \in Maybe([amount : Maybe(Amounts), id : Maybe(Ids)])
  /\ notice \in Maybe([amount : Amounts, quantity : Counts, id : Maybe(Ids), retries : 0 .. MaxRetries])
  /\ mail \in Maybe([amount : Amounts, quantity : Counts])
  /\ answer \in Maybe([code : {201, 400, 500}, amount : Maybe(Amounts), quantity : Maybe(Counts)])
  /\ header \in Maybe(Ids)
  /\ ctx \in Maybe(Ids)
  /\ lines \subseteq (Ids \cup {"rabbitmq.publisher"}) \X Maybe(Ids)

Init ==
  /\ stage = "price"
  /\ product = None /\ asked = None /\ quantity = None /\ captured = None
  /\ payment = None /\ order = None /\ metrics = None
  /\ event = None /\ notice = None /\ mail = None /\ answer = None
  /\ header = None /\ ctx = None
  /\ lines = {}

Refused(code) == [code |-> code, amount |-> None, quantity |-> None]
-----------------------------------------------------------------------------
(* CreateProductDto takes positive numbers only; save fails on an overflow. *)
CreateProduct(price) ==
  /\ stage = "price"
  /\ price # NaN
  /\ price > 0
  /\ ProductPrice(price) # None
  /\ product' = ProductPrice(price)
  /\ stage' = "post"
  /\ UNCHANGED <<asked, quantity, captured, tables, outputs, answer, header, ctx, lines>>

(* api-gateway: the correlation-id middleware, then validateBody.          *)
Post(q, id) ==
  /\ stage = "post"
  /\ asked' = q
  /\ header' = Given(id, "api-gateway")
  /\ IF q = None
     THEN stage' = "respond" /\ answer' = Refused(400)
     ELSE stage' = "createOrder" /\ UNCHANGED answer
  /\ UNCHANGED <<product, quantity, captured, tables, outputs, ctx, lines>>

(* order-service: withCorrelation, then the check of the handler.          *)
CreateOrder ==
  /\ stage = "createOrder"
  /\ quantity' = ToInt32(asked)
  /\ ctx' = Given(header, "order-service")
  /\ Log("order-service", header)
  /\ IF Acceptable(quantity')
     THEN stage' = "getUser" /\ UNCHANGED answer
     ELSE stage' = "respond" /\ answer' = Refused(400)
  /\ UNCHANGED <<product, asked, captured, tables, outputs, header>>

GetUser ==
  /\ stage = "getUser"
  /\ Log("user-service", ctx)
  /\ stage' \in {"getProduct", "failed"}
  /\ UNCHANGED <<numbers, tables, outputs, answer, header, ctx>>

GetProduct ==
  /\ stage = "getProduct"
  /\ Log("product-service", ctx)
  /\ stage' \in {"processPayment", "failed"}
  /\ UNCHANGED <<numbers, tables, outputs, answer, header, ctx>>

(* The charge is captured first, then recorded.  An amount the column      *)
(* cannot hold has no row, SUCCESS or FAILED.                              *)
Row(amount, status) ==
  IF amount = None THEN None ELSE [amount |-> amount, status |-> status]

ProcessPayment ==
  /\ stage = "processPayment"
  /\ Log("payment-service", ctx)
  /\ \/ /\ captured' = Total
        /\ payment' = Row(PaymentAmount(Total), "SUCCESS")
        /\ payment' # None
        /\ stage' \in {"insert", "compensate"}  \* in time, or after the deadline
     \/ /\ captured' \in {None, Total}
        /\ payment' \in {None, Row(PaymentAmount(Total), "FAILED")}
        /\ stage' = "compensate"
  /\ UNCHANGED <<product, asked, quantity, order, metrics, outputs, answer, header, ctx>>

InsertOrder ==
  /\ stage = "insert"
  /\ \/ /\ OrderTotal(Total) # None
        /\ order' = [amount |-> OrderTotal(Total), quantity |-> quantity]
        /\ stage' = "publish"
     \/ stage' = "compensate" /\ UNCHANGED order
  /\ UNCHANGED <<numbers, payment, metrics, outputs, answer, header, ctx, lines>>

Metadata == ctx

(* refundByOrderId; updateStatus finds no row here.                        *)
RunCompensations ==
  /\ stage = "compensate"
  /\ stage' = "failed"
  /\ Log("payment-service", Metadata)
  /\ payment' = IF payment # None /\ payment.status = "SUCCESS"
                THEN [payment EXCEPT !.status = "REFUNDED"] ELSE payment
  /\ UNCHANGED <<numbers, order, metrics, outputs, answer, header, ctx>>

PublishFailed ==
  /\ stage = "failed"
  /\ stage' = "respond"
  /\ event' \in Maybe({[amount |-> None, id |-> ctx]})
  /\ answer' = Refused(500)
  /\ UNCHANGED <<numbers, tables, notice, mail, header, ctx, lines>>

(* Both messages are made of the row INSERT returned.  The log line of the *)
(* broker's confirm is written from amqplib's socket, outside any context. *)
Publish ==
  /\ stage = "publish"
  /\ stage' = "respond"
  /\ event' \in Maybe({[amount |-> order.amount, id |-> ctx]})
  /\ notice' \in Maybe({[amount |-> order.amount, quantity |-> order.quantity,
                         id |-> ctx, retries |-> 0]})
  /\ lines' = IF notice' = None THEN lines ELSE lines \cup {<<"rabbitmq.publisher", None>>}
  /\ answer' = [code |-> 201, amount |-> order.amount, quantity |-> order.quantity]
  /\ UNCHANGED <<numbers, tables, mail, header, ctx>>

Respond ==
  /\ stage = "respond"
  /\ stage' = "done"
  /\ Log("api-gateway", header)
  /\ UNCHANGED <<numbers, tables, outputs, answer, header, ctx>>
-----------------------------------------------------------------------------
(* analytics-service: the row, or the DLQ.                                 *)
HandleEvent ==
  /\ event # None
  /\ event' = None
  /\ Log("analytics-service", event.id)
  /\ \/ /\ event.amount = None
        /\ metrics' = [amount |-> 0, status |-> "FAILED"]
     \/ /\ event.amount # None
        /\ metrics' = Row(MetricsTotal(event.amount), "CREATED")
     \/ UNCHANGED metrics
  /\ UNCHANGED <<stage, numbers, payment, order, notice, mail, answer, header, ctx>>

(* Mutant: scheduleRetry publishes the content without the properties. *)
PropertiesDropped(msg) == [msg EXCEPT !.retries = @ + 1, !.id = None]
Retried(msg) == [msg EXCEPT !.retries = @ + 1]

(* notification-service: the email, another round, or the DLQ.             *)
HandleMessage ==
  /\ notice # None
  /\ Log("notification-service", notice.id)
  /\ \/ /\ mail' = [amount |-> notice.amount, quantity |-> notice.quantity]
        /\ notice' = None
     \/ /\ notice.retries < MaxRetries
        /\ notice' = Retried(notice)
        /\ UNCHANGED mail
     \/ /\ notice.retries = MaxRetries
        /\ notice' = None
        /\ UNCHANGED mail
  /\ UNCHANGED <<stage, numbers, tables, event, answer, header, ctx>>

Finished ==
  /\ stage = "done" /\ event = None /\ notice = None
  /\ UNCHANGED vars

Next ==
  \/ \E price \in Prices : CreateProduct(price)
  \/ \E q \in Quantities, id \in {ClientId, None} : Post(q, id)
  \/ CreateOrder \/ GetUser \/ GetProduct \/ ProcessPayment \/ InsertOrder
  \/ RunCompensations \/ PublishFailed \/ Publish \/ Respond
  \/ HandleEvent \/ HandleMessage
  \/ Finished

Spec == Init /\ [][Next]_vars
-----------------------------------------------------------------------------
(* The id in the response header finds every log line of the order, in all *)
(* seven services, over failures, compensations and retries                *)
(* (context/index.js:7-9).  Except for the line of the broker's confirm,   *)
(* which has none.                                                         *)
TraceIsWhole ==
  \A l \in lines : l[1] # "rabbitmq.publisher" => l[2] = header

(* What the customer is charged, what payment-service books, what the      *)
(* order, its event, its email and its metrics say, and what the caller is *)
(* answered is one amount, although each is rounded on its own: products   *)
(* keep no fraction of a cent that a quantity could multiply.              *)
AmountsAgree ==
  LET told == {r.amount : r \in {payment, order, event, notice, mail, answer} \ {None}}
      booked == {r.amount : r \in {metrics} \ {None, [amount |-> 0, status |-> "FAILED"]}}
  IN  \A a, b \in ({captured} \cup told \cup booked) \ {None} : a = b

(* A stored order has a positive quantity, the client's whenever it sent a *)
(* whole number an int32 can hold, and answer and email repeat it.  (Other *)
(* numbers are truncated or wrapped, and may be ordered all the same.)     *)
Representable(q) == q # NaN /\ q % 2 = 0 /\ q \div 2 \in -IntBound .. IntBound - 1

QuantityKept ==
  order # None =>
    /\ order.quantity > 0
    /\ Representable(asked) => 2 * order.quantity = asked
    /\ \A r \in {notice, mail, answer} \ {None} : r.quantity = order.quantity
-----------------------------------------------------------------------------
(* The inductive invariant of OrderJourneyProofs.  Nothing was charged,    *)
(* stored or told before order-service accepted the order, and from then   *)
(* on price and quantity are numbers and the context has the header's id.  *)
Ordering == {"getUser", "getProduct", "processPayment", "insert", "publish",
             "compensate", "failed"}

NothingYet ==
  /\ stage \in {"price", "post", "createOrder"} =>
       /\ captured = None /\ payment = None /\ order = None /\ metrics = None
       /\ event = None /\ notice = None /\ mail = None /\ answer = None
  /\ stage \in {"price", "post"} => lines = {}
  /\ stage \in Ordering \cup {"createOrder"} \/ order # None => asked # None

Underway == stage \in Ordering \/ event # None \/ notice # None

Accepted ==
  /\ stage # "price" => product \in Amounts /\ product % 10 = 0
  /\ stage \notin {"price", "post"} => header \in Ids
  /\ Underway => quantity \in Counts /\ ctx = header

(* The total is the amount of everything that has one.                     *)
AmountIsTotal ==
  /\ captured = None \/ captured = Total
  /\ \A r \in {payment, order, notice, mail} \ {None} : r.amount = Total
  /\ \A r \in {event, answer} \ {None} : r.amount = None \/ r.amount = Total
  /\ metrics \in {None, [amount |-> 0, status |-> "FAILED"]} \/ metrics.amount = Total

(* Nothing is told of a quantity before the row is stored, and the row has *)
(* the quantity received.                                                  *)
QuantityIsStored ==
  /\ order # None =>
       /\ stage \in {"publish", "respond", "done"}
       /\ order.quantity = quantity /\ quantity > 0
       /\ quantity = ToInt32(asked)
       /\ \A r \in {notice, mail, answer} \ {None} : r.quantity = quantity
  /\ stage = "publish" =>
       order = [amount |-> Total, quantity |-> quantity] /\ Total \in Amounts
  /\ stage \in Ordering => quantity = ToInt32(asked) /\ answer = None
  /\ stage \in Ordering \/ order = None => notice = None /\ mail = None

(* Messages carry the id they were sent under.                             *)
IdsAreHandedOn ==
  /\ \A r \in {event, notice} \ {None} : r.id = header
  /\ TraceIsWhole

IInv ==
  /\ TypeOK
  /\ NothingYet
  /\ Accepted
  /\ AmountIsTotal
  /\ QuantityIsStored
  /\ IdsAreHandedOn
=============================================================================
