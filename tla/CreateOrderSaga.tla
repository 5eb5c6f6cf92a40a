---------------------------- MODULE CreateOrderSaga ----------------------------
(***************************************************************************)
(* order-service (src/order-service): the CreateOrder handler and the saga *)
(* it orchestrates, over payment-service as PaymentLedger promises it      *)
(* (PaymentService is shown to keep that promise).                         *)
(*                                                                         *)
(* A saga is one CreateOrder request and creates one order, so its name    *)
(* stands for both.  Every remote call is split into what the server does, *)
(* when it gets to it, and what the saga sees of it: an answer, an error,  *)
(* or its deadline, after which the server may still be working.           *)
(***************************************************************************)
EXTENDS Integers, Sequences

CONSTANTS
  Sagas,
  MaxCharges,  \* bound: charges payment-service records for one request
  None         \* no value

ASSUME SagaAssumption ==
  /\ MaxCharges \in Nat \ {0}
  /\ None \notin {"SUCCESS", "REFUNDED", "FAILED", "INTERNAL", "OK"}

Charges == Sagas \X (1 .. MaxCharges)

VARIABLES
  pc,            \* where each saga is
  compensations, \* the array `compensations` of each saga
  failed,        \* runCompensations: the compensations that threw
  payCall,       \* ProcessPayment at payment-service
  payAnswer,     \* ... and its answer, when it gave one
  refundCall,    \* RefundByOrderId at payment-service
  refundAnswer,
  orders,        \* committed table orders: status of the row of each saga
  lateInserts,   \* INSERTs Postgres still works on, their client is gone
  abandoned,     \* sagas that went on while their INSERT was still to end
  wire,          \* messages handed to Kafka or RabbitMQ, still on their way
  delivered,     \* messages in topic order-events or queue order_notifications
  settled,       \* publishEventsBestEffort: the promises that settled
  rejected,      \* ... and those of them that were rejected, hence logged
  kept, returned, cancelled  \* payment-service, see PaymentLedger

Ledger == INSTANCE PaymentLedger WITH
  Orders <- Sagas, ChargeOrder <- [r \in Charges |-> r[1]]

saga == <<pc, compensations, failed>>
payment == <<payCall, payAnswer, refundCall, refundAnswer, kept, returned, cancelled>>
store == <<orders, lateInserts, abandoned>>
brokers == <<wire, delivered, settled, rejected>>
vars == <<saga, payment, store, brokers>>

Pcs == {"idle", "user", "product", "payment", "insert", "publish", "compensate",
        "refunding", "announce", "placed", "refused", "failed", "dead"}
Ended(s) == pc[s] \in {"placed", "refused", "failed", "dead"}
Active(s) == pc[s] # "idle" /\ ~Ended(s)
Announcements == {"ORDER_CREATED", "NOTIFICATION"}  \* of a placed order
Messages == Announcements \cup {"ORDER_FAILED"}

TypeOK ==
  /\ pc \in [Sagas -> Pcs]
  /\ compensations \in [Sagas -> {<<>>, <<"refund">>, <<"refund", "cancel">>}]
  /\ failed \in [Sagas -> SUBSET {"refund", "cancel"}]
  /\ payCall \in [Sagas -> {"none", "running", "ended"}]
  /\ payAnswer \in [Sagas -> {None, "SUCCESS", "REFUNDED", "FAILED", "INTERNAL"}]
  /\ refundCall \in [Sagas -> {"none", "running", "ended"}]
  /\ refundAnswer \in [Sagas -> {None, "OK", "INTERNAL"}]
  /\ orders \in [Sagas -> {"none", "CONFIRMED", "CANCELLED"}]
  /\ lateInserts \subseteq Sagas
  /\ abandoned \subseteq Sagas
  /\ wire \in [Sagas -> SUBSET Messages]
  /\ delivered \in [Sagas -> SUBSET Messages]
  /\ settled \in [Sagas -> SUBSET Announcements]
  /\ rejected \in [Sagas -> SUBSET Announcements]
  /\ Ledger!TypeOK

Init ==
  /\ pc = [s \in Sagas |-> "idle"]
  /\ compensations = [s \in Sagas |-> <<>>]
  /\ failed = [s \in Sagas |-> {}]
  /\ payCall = [s \in Sagas |-> "none"]
  /\ payAnswer = [s \in Sagas |-> None]
  /\ refundCall = [s \in Sagas |-> "none"]
  /\ refundAnswer = [s \in Sagas |-> None]
  /\ orders = [s \in Sagas |-> "none"]
  /\ lateInserts = {}
  /\ abandoned = {}
  /\ wire = [s \in Sagas |-> {}]
  /\ delivered = [s \in Sagas |-> {}]
  /\ settled = [s \in Sagas |-> {}]
  /\ rejected = [s \in Sagas |-> {}]
  /\ Ledger!Init

Goto(s, label) == pc' = [pc EXCEPT ![s] = label]
ChargesOf(s) == {r \in Charges : r[1] = s}
-----------------------------------------------------------------------------
(* payment-service: the handlers, at the granularity of the ledger.  They  *)
(* do not know whether the saga still waits.                               *)
Record(s, status) ==
  \E r \in ChargesOf(s) :
    \/ Ledger!Take(r) /\ status = "SUCCESS"
    \/ Ledger!TakeCancelled(r) /\ status = "REFUNDED"

ProcessPayment(s) ==
  /\ payCall[s] = "running"
  /\ payCall' = [payCall EXCEPT ![s] = "ended"]
  /\ \E status \in {"SUCCESS", "REFUNDED"} :
       /\ Record(s, status)
       /\ payAnswer' = [payAnswer EXCEPT ![s] = status]
  /\ UNCHANGED <<saga, refundCall, refundAnswer, store, brokers>>

(* A commit whose outcome the handler does not learn: it charges again.    *)
ChargeUnnoticed(s) ==
  /\ payCall[s] = "running"
  /\ \E status \in {"SUCCESS", "REFUNDED"} : Record(s, status)
  /\ UNCHANGED <<saga, payCall, payAnswer, refundCall, refundAnswer, store, brokers>>

(* No attempt succeeded, the database is down, or payment-service died.    *)
PaymentFails(s) ==
  /\ payCall[s] = "running"
  /\ payCall' = [payCall EXCEPT ![s] = "ended"]
  /\ \E answer \in {"FAILED", "INTERNAL", None} :
       payAnswer' = [payAnswer EXCEPT ![s] = answer]
  /\ UNCHANGED <<saga, refundCall, refundAnswer, kept, returned, cancelled,
                 store, brokers>>

RefundByOrderId(s) ==
  /\ refundCall[s] = "running"
  /\ refundCall' = [refundCall EXCEPT ![s] = "ended"]
  /\ Ledger!Cancel(s)
  /\ \E answer \in {"OK", "INTERNAL", None} :
       refundAnswer' = [refundAnswer EXCEPT ![s] = answer]
  /\ UNCHANGED <<saga, payCall, payAnswer, store, brokers>>

RefundFails(s) ==
  /\ refundCall[s] = "running"
  /\ refundCall' = [refundCall EXCEPT ![s] = "ended"]
  /\ \E answer \in {"INTERNAL", None} :
       refundAnswer' = [refundAnswer EXCEPT ![s] = answer]
  /\ UNCHANGED <<saga, payCall, payAnswer, kept, returned, cancelled, store, brokers>>
-----------------------------------------------------------------------------
(* createOrder: the handler checks the request, then execute starts. *)
CreateOrder(s) ==
  /\ pc[s] = "idle"
  /\ \/ Goto(s, "user")
     \/ Goto(s, "refused")
  /\ UNCHANGED <<compensations, failed, payment, store, brokers>>

(* Steps 1 and 2; a lookup that fails or times out is caught, with nothing *)
(* to compensate.                                                          *)
GetUser(s) ==
  /\ pc[s] = "user"
  /\ Goto(s, "product") \/ Goto(s, "compensate")
  /\ UNCHANGED <<compensations, failed, payment, store, brokers>>

(* Mutant: the compensation is registered after the call, not before it. *)
RegisterLater(s, name) == UNCHANGED compensations
Register(s, name) == compensations' = [compensations EXCEPT ![s] = Append(@, name)]

(* Step 3: the refund is registered, then ProcessPayment is called. *)
GetProduct(s) ==
  /\ pc[s] = "product"
  /\ \/ /\ Register(s, "refund")
        /\ payCall' = [payCall EXCEPT ![s] = "running"]
        /\ Goto(s, "payment")
     \/ /\ Goto(s, "compensate")
        /\ UNCHANGED <<compensations, payCall>>
  /\ UNCHANGED <<failed, payAnswer, refundCall, refundAnswer, kept, returned,
                 cancelled, store, brokers>>

(* The answer arrives.  Step 4 registers the cancellation, then inserts.   *)
PaymentAnswered(s) ==
  /\ pc[s] = "payment"
  /\ payAnswer[s] # None
  /\ IF payAnswer[s] = "SUCCESS"
     THEN /\ Register(s, "cancel")
          /\ Goto(s, "insert")
     ELSE /\ UNCHANGED compensations
          /\ Goto(s, "compensate")
  /\ UNCHANGED <<failed, payment, store, brokers>>

(* Mutant: the call has no deadline, it fails only when the server is gone. *)
NoDeadline(s) == payCall[s] = "ended"
(* DEADLINE_EXCEEDED or a broken connection: at any time while waiting.    *)
DeadlineExceeded(s) == TRUE

PaymentTimesOut(s) ==
  /\ pc[s] = "payment"
  /\ DeadlineExceeded(s)
  /\ Goto(s, "compensate")
  /\ UNCHANGED <<compensations, failed, payment, store, brokers>>
-----------------------------------------------------------------------------
(* A publisher that is connected writes the message to its connection.     *)
Send(s, messages) == wire' = [wire EXCEPT ![s] = @ \cup messages]

(* orderRepository.create: INSERT ... status CONFIRMED.  When it returns,  *)
(* publishEventsBestEffort calls both publishers before it awaits either.  *)
InsertOrder(s) ==
  /\ pc[s] = "insert"
  /\ orders' = [orders EXCEPT ![s] = "CONFIRMED"]
  /\ \/ Goto(s, "publish") /\ \E sent \in SUBSET Announcements : Send(s, sent)
     \/ Goto(s, "compensate") /\ UNCHANGED wire  \* applied, but it reports an error
  /\ UNCHANGED <<compensations, failed, payment, lateInserts, abandoned,
                 delivered, settled, rejected>>

InsertFails(s) ==
  /\ pc[s] = "insert"
  /\ Goto(s, "compensate")
  /\ \/ UNCHANGED <<lateInserts, abandoned>>
     \/ /\ lateInserts' = lateInserts \cup {s}
        /\ abandoned' = abandoned \cup {s}
  /\ UNCHANGED <<compensations, failed, payment, orders, brokers>>

(* The statement a broken connection or a dead client left behind ends.    *)
LateInsert(s) ==
  /\ s \in lateInserts
  /\ lateInserts' = lateInserts \ {s}
  /\ \/ orders' = [orders EXCEPT ![s] = "CONFIRMED"]
     \/ UNCHANGED orders
  /\ UNCHANGED <<saga, payment, abandoned, brokers>>
-----------------------------------------------------------------------------
(* runCompensations: from the last registered to the first; one that throws *)
(* is noted and does not stop the others.                                  *)
(* Mutant: in the order of registration. *)
OldestFirst(q) == [next |-> Head(q), rest |-> Tail(q)]
LatestFirst(q) == [next |-> q[Len(q)], rest |-> SubSeq(q, 1, Len(q) - 1)]

(* Mutant: the first compensation that throws ends the loop. *)
StopAtFailure(q, threw) == IF threw THEN <<>> ELSE LatestFirst(q).rest
Remaining(q, threw) == LatestFirst(q).rest

MustRun(s, name) ==
  /\ pc[s] = "compensate"
  /\ compensations[s] # <<>>
  /\ LatestFirst(compensations[s]).next = name

Done(s, name, threw) ==
  /\ compensations' = [compensations EXCEPT ![s] = Remaining(@, threw)]
  /\ failed' = [failed EXCEPT ![s] = IF threw THEN @ \cup {name} ELSE @]

(* updateStatus(CANCELLED): without a row it changes nothing and succeeds. *)
CancelOrder(s) ==
  /\ MustRun(s, "cancel")
  /\ orders' = [orders EXCEPT ![s] = IF @ = "none" THEN @ ELSE "CANCELLED"]
  /\ \E threw \in BOOLEAN : Done(s, "cancel", threw)
  /\ UNCHANGED <<pc, payment, lateInserts, abandoned, brokers>>

CancelFails(s) ==
  /\ MustRun(s, "cancel")
  /\ Done(s, "cancel", TRUE)
  /\ UNCHANGED <<pc, payment, store, brokers>>

CallRefund(s) ==
  /\ MustRun(s, "refund")
  /\ refundCall' = [refundCall EXCEPT ![s] = "running"]
  /\ Goto(s, "refunding")
  /\ UNCHANGED <<compensations, failed, payCall, payAnswer, refundAnswer, kept,
                 returned, cancelled, store, brokers>>

RefundAnswered(s) ==
  /\ pc[s] = "refunding"
  /\ refundAnswer[s] # None
  /\ Goto(s, "compensate")
  /\ Done(s, "refund", refundAnswer[s] = "INTERNAL")
  /\ UNCHANGED <<payment, store, brokers>>

RefundTimesOut(s) ==
  /\ pc[s] = "refunding"
  /\ Goto(s, "compensate")
  /\ Done(s, "refund", TRUE)
  /\ UNCHANGED <<payment, store, brokers>>

(* safePublishFailed, then the answer INTERNAL: it never throws. *)
PublishFailed(s) ==
  /\ pc[s] = "compensate"
  /\ compensations[s] = <<>>
  /\ \E sent \in SUBSET {"ORDER_FAILED"} : Send(s, sent)
  /\ Goto(s, "announce")
  /\ UNCHANGED <<compensations, failed, payment, store, delivered, settled, rejected>>

Fail(s) ==
  /\ pc[s] = "announce"
  /\ Goto(s, "failed")
  /\ UNCHANGED <<compensations, failed, payment, store, brokers>>
-----------------------------------------------------------------------------
(* publishEventsBestEffort: two promises that settle on their own, either  *)
(* way; when both have, the caller is answered.                            *)
Sent(s, m) == m \in wire[s] \cup delivered[s]

Settle(s, m) ==
  /\ pc[s] = "publish"
  /\ m \in Announcements \ settled[s]
  /\ settled' = [settled EXCEPT ![s] = @ \cup {m}]
  /\ UNCHANGED <<saga, payment, store, wire, delivered>>

(* The broker has the message; or Kafka's producer is not connected, and   *)
(* publishOrderEvent skips the event and returns as if it were sent.       *)
Published(s, m) ==
  /\ m \in delivered[s] \/ (m = "ORDER_CREATED" /\ ~Sent(s, m))
  /\ Settle(s, m)
  /\ UNCHANGED rejected

(* The broker refuses it, the connection breaks (the message may arrive    *)
(* all the same), or there is no channel to RabbitMQ.                      *)
NotPublished(s, m) ==
  /\ m = "NOTIFICATION" \/ Sent(s, m)
  /\ Settle(s, m)
  /\ rejected' = [rejected EXCEPT ![s] = @ \cup {m}]

Deliver(s) ==
  /\ \E m \in wire[s] :
       /\ wire' = [wire EXCEPT ![s] = @ \ {m}]
       /\ delivered' = [delivered EXCEPT ![s] = @ \cup {m}]
  /\ UNCHANGED <<saga, payment, store, settled, rejected>>

(* Mutant: step 5 inside the try block, an error rolls the order back. *)
RollbackOnPublishError(s) == Goto(s, IF rejected[s] = {} THEN "placed" ELSE "compensate")
Conclude(s) == Goto(s, "placed")

Respond(s) ==
  /\ pc[s] = "publish"
  /\ settled[s] = Announcements
  /\ Conclude(s)
  /\ UNCHANGED <<compensations, failed, payment, store, brokers>>
-----------------------------------------------------------------------------
(* The process ends.  Nothing resumes a saga; what it has asked others for *)
(* goes on.                                                                *)
AllDie ==
  /\ pc' = [s \in Sagas |-> IF Active(s) THEN "dead" ELSE pc[s]]
  /\ lateInserts' = lateInserts \cup {s \in Sagas : pc[s] = "insert"}
  /\ UNCHANGED <<compensations, failed, payment, orders, abandoned, brokers>>

Crash == (\E s \in Sagas : Active(s)) /\ AllDie

(* What the event loop sees to.  A publish to Kafka ends, kafkajs gives up *)
(* after its retries; the confirm of a notification may never come, since  *)
(* publishNotification sets no timeout.                                    *)
SagaStep(s) ==
  \/ GetUser(s) \/ GetProduct(s)
  \/ PaymentAnswered(s) \/ PaymentTimesOut(s)
  \/ InsertOrder(s) \/ InsertFails(s)
  \/ CancelOrder(s) \/ CancelFails(s)
  \/ CallRefund(s) \/ RefundAnswered(s) \/ RefundTimesOut(s)
  \/ PublishFailed(s) \/ Fail(s)
  \/ Published(s, "ORDER_CREATED") \/ NotPublished(s, "ORDER_CREATED")
  \/ (~Sent(s, "NOTIFICATION") /\ NotPublished(s, "NOTIFICATION"))
  \/ Respond(s)

Confirm(s) == Published(s, "NOTIFICATION") \/ NotPublished(s, "NOTIFICATION")

PaymentStep(s) ==
  \/ ProcessPayment(s) \/ ChargeUnnoticed(s) \/ PaymentFails(s)
  \/ RefundByOrderId(s) \/ RefundFails(s)

OtherStep(s) == PaymentStep(s) \/ LateInsert(s) \/ Deliver(s)

Quiet ==
  /\ \A s \in Sagas : Ended(s) /\ payCall[s] # "running" /\ refundCall[s] # "running"
  /\ lateInserts = {}
  /\ UNCHANGED vars

Next ==
  \/ \E s \in Sagas : CreateOrder(s) \/ SagaStep(s) \/ Confirm(s) \/ OtherStep(s)
  \/ Crash
  \/ Quiet

(* The event loop runs what is ready and fires the deadlines.  Nothing is  *)
(* assumed of payment-service, which may never answer, nor of RabbitMQ.    *)
Spec == Init /\ [][Next]_vars /\ \A s \in Sagas : WF_vars(SagaStep(s))
-----------------------------------------------------------------------------
(* A saga that gave up, and whose refund did not throw, keeps no money:    *)
(* not then and not later, even if payment-service was still charging when *)
(* the deadline passed (rule (a) of create-order.saga.js).                 *)
NoOrphanCharge ==
  \A s \in Sagas :
    pc[s] = "failed" /\ "refund" \notin failed[s] => kept \cap ChargesOf(s) = {}

(* A saga that gave up, and whose cancellation did not throw, has no       *)
(* CONFIRMED order: create-order.saga.js:77-78 says the cancellation is    *)
(* safe even when the insert has not run yet.                              *)
CancellationIsSafe ==
  \A s \in Sagas :
    pc[s] = "failed" /\ "cancel" \notin failed[s] => orders[s] # "CONFIRMED"

(* An order that reads CONFIRMED is paid for, at every moment of the       *)
(* rollback and after any crash, unless its cancellation threw or came     *)
(* before its INSERT: the order is cancelled before its money goes back.   *)
ConfirmedIsPaid ==
  \A s \in Sagas \ abandoned :
    orders[s] = "CONFIRMED" /\ "cancel" \notin failed[s] => kept \cap ChargesOf(s) # {}

(* Once an ORDER_CREATED, a notification or the answer is out, the order   *)
(* stands: it stays CONFIRMED and paid, and no ORDER_FAILED contradicts it *)
(* (rule (b): publishing is outside the rollback).                         *)
AnnouncedIsFinal ==
  \A s \in Sagas :
    (pc[s] = "placed" \/ \E m \in Announcements : Sent(s, m)) =>
      /\ orders[s] = "CONFIRMED"
      /\ kept \cap ChargesOf(s) # {}
      /\ ~Sent(s, "ORDER_FAILED")

(* Every saga that started ends, even when payment-service never answers:  *)
(* the deadlines see to it (config/index.js:21).  The one wait without a   *)
(* deadline is for the broker's confirm, with the order placed by then.    *)
AwaitsConfirm(s) ==
  pc[s] = "publish" /\ settled[s] = {"ORDER_CREATED"} /\ Sent(s, "NOTIFICATION")
EverySagaEnds == \A s \in Sagas : pc[s] # "idle" ~> (Ended(s) \/ AwaitsConfirm(s))

(* The saga keeps OrderContract, what a caller may conclude from an answer *)
(* and when an operator is called for: a compensation that threw (the log  *)
(* line INCONSISTENT STATE), an INSERT left behind, a process that died.   *)
NeedsOperator(s) == failed[s] # {} \/ s \in abandoned \/ pc[s] = "dead"

told == [s \in Sagas |-> IF pc[s] \in {"placed", "failed"} THEN pc[s] ELSE "nothing"]
paid == [s \in Sagas |-> kept \cap ChargesOf(s) # {}]
alarm == [s \in Sagas |-> NeedsOperator(s)]

Contract == INSTANCE OrderContract WITH Orders <- Sagas, status <- orders

KeepsContract == Contract!Spec
-----------------------------------------------------------------------------
(* The inductive invariant of CreateOrderSagaProofs.  What is registered   *)
(* tells how far a saga has come: the array grows with its steps and       *)
(* shrinks with its rollback.                                              *)
Full == <<"refund", "cancel">>
RegisteredAsFarAsDone(s) ==
  /\ pc[s] \in {"idle", "user", "product", "refused", "announce", "failed"} =>
       compensations[s] = <<>>
  /\ pc[s] \in {"payment", "refunding"} => compensations[s] = <<"refund">>
  /\ pc[s] \in {"insert", "publish", "placed"} => compensations[s] = Full
  /\ compensations[s] = Full => payAnswer[s] = "SUCCESS" /\ failed[s] = {}
  /\ compensations[s] # <<>> => "refund" \notin failed[s]
  /\ pc[s] \notin {"compensate", "refunding", "announce", "failed", "dead"} => failed[s] = {}

(* Which calls were made by then, and what they answered.                  *)
CalledAsRegistered(s) ==
  /\ pc[s] \in {"idle", "user", "product"} => payCall[s] = "none" /\ refundCall[s] = "none"
  /\ payCall[s] # "ended" => payAnswer[s] = None
  /\ compensations[s] = Full \/ (compensations[s] # <<>> /\ pc[s] \notin {"refunding", "dead"}) =>
       refundCall[s] = "none"

(* A cancelled order costs nothing, a charge reported SUCCESS is kept      *)
(* until then, and a rollback that noted no error has cancelled.           *)
MoneyMatchesCalls(s) ==
  /\ payCall[s] = "none" \/ s \in cancelled => kept \cap ChargesOf(s) = {}
  /\ payAnswer[s] = "SUCCESS" /\ s \notin cancelled => kept \cap ChargesOf(s) # {}
  /\ s \in cancelled => refundCall[s] # "none"
  /\ refundAnswer[s] = "OK" => s \in cancelled
  /\ pc[s] \in {"compensate", "announce", "failed"} /\ compensations[s] = <<>>
     /\ "refund" \notin failed[s] => payCall[s] = "none" \/ s \in cancelled

(* A row reads CONFIRMED as long as the cancellation is registered; later  *)
(* only if that threw or came before the INSERT.                           *)
RowMatchesStage(s) ==
  /\ s \in abandoned => pc[s] \in {"compensate", "refunding", "announce", "failed", "dead"}
  /\ s \in lateInserts \ abandoned => pc[s] = "dead" /\ compensations[s] = Full
  /\ orders[s] = "CONFIRMED" /\ s \notin abandoned /\ "cancel" \notin failed[s] =>
       compensations[s] = Full
  /\ pc[s] \in {"publish", "placed"} => orders[s] = "CONFIRMED"
  /\ pc[s] \in {"idle", "user", "product", "payment", "insert", "refused"}
     \/ s \in lateInserts => orders[s] = "none"

(* Announcements go out after the INSERT, ORDER_FAILED after the rollback. *)
SentAtItsStage(s) ==
  /\ (\E m \in Announcements : Sent(s, m)) =>
       /\ pc[s] \in {"publish", "placed", "dead"}
       /\ compensations[s] = Full
       /\ orders[s] = "CONFIRMED"
  /\ Sent(s, "ORDER_FAILED") =>
       pc[s] \in {"announce", "failed", "dead"} /\ compensations[s] = <<>>

Sound(s) ==
  /\ RegisteredAsFarAsDone(s)
  /\ CalledAsRegistered(s)
  /\ MoneyMatchesCalls(s)
  /\ RowMatchesStage(s)
  /\ SentAtItsStage(s)

IInv == TypeOK /\ \A s \in Sagas : Sound(s)
=============================================================================
