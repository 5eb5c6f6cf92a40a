-------------------------------- MODULE Gateway --------------------------------
(***************************************************************************)
(* api-gateway (src/api-gateway) and the handlers behind its routes: the   *)
(* CRUD of user-service, product-service and payment-service, and, in      *)
(* order-service, CreateOrder with the time its steps may take.            *)
(*                                                                         *)
(* CreateOrderSaga has what the saga does; here it is a sequence of stages *)
(* that succeed or fail within their deadline.  elapsed is the time since  *)
(* the gateway made its call.                                              *)
(***************************************************************************)
EXTENDS Integers

CONSTANTS
  Requests,         \* HTTP requests
  DefaultTimeout,   \* grpcTimeouts.default, of the gateway and of order-service
  PaymentTimeout,   \* grpcTimeouts.payment of order-service
  CreateTimeout,    \* grpcTimeouts.createOrder of the gateway
  DbTime,           \* the longest a statement takes: nothing limits it
  BrokerTime,       \* the longest publishing takes: nothing in the saga limits it
  None

Creates == {"createUser", "createProduct", "createOrder"}
Gets == {"getUser", "getProduct", "getOrder", "getPayment"}
Kinds == Creates \cup Gets

(* "missing": validateBody refuses it; "rejected": the service's own check *)
(* does, a blank name, a price of 0 or a quantity that Number and the      *)
(* int32 of the proto turn into something that is not positive.            *)
Bodies == {"missing", "rejected", "good"}

SagaStages == {"user", "product", "charge", "insert", "announce",
               "cancel", "refund", "regret"}
Stages == SagaStages \cup {"idle", "query", "ended", "hung"}

Codes == {"OK", "INVALID_ARGUMENT", "NOT_FOUND", "UNAVAILABLE",
          "DEADLINE_EXCEEDED", "INTERNAL", "UNKNOWN"}

ASSUME GatewayAssumption ==
  /\ {DefaultTimeout, PaymentTimeout, CreateTimeout} \subseteq Nat \ {0}
  /\ DbTime \in Nat /\ BrokerTime \in Nat
  /\ None \notin Requests \cup Kinds \cup Codes

VARIABLES
  kind, body, target,  \* what each request asks for
  stage,      \* of the handler behind the gateway
  code,       \* the gRPC status the handler answered
  status,     \* the HTTP status the client got
  elapsed,
  stored,     \* requests whose user, product or order row exists
  cancelled,  \* ... whose order row is CANCELLED
  paid,       \* ... whose payment has a row
  existed     \* gets: their row was there when they were sent

request == <<kind, body, target, existed>>
tables == <<stored, cancelled, paid>>
vars == <<request, stage, code, status, elapsed, tables>>

TypeOK ==
  /\ kind \in [Requests -> Kinds \cup {None}]
  /\ body \in [Requests -> Bodies]
  /\ target \in [Requests -> Requests \cup {None}]
  /\ existed \in [Requests -> BOOLEAN]
  /\ stage \in [Requests -> Stages]
  /\ code \in [Requests -> Codes \cup {None}]
  /\ status \in [Requests -> {0, 200, 201, 400, 404, 500, 503, 504}]
  /\ elapsed \in [Requests -> Nat]
  /\ stored \subseteq Requests
  /\ cancelled \subseteq stored
  /\ paid \subseteq Requests

Init ==
  /\ kind = [r \in Requests |-> None]
  /\ body = [r \in Requests |-> "good"]
  /\ target = [r \in Requests |-> None]
  /\ existed = [r \in Requests |-> FALSE]
  /\ stage = [r \in Requests |-> "idle"]
  /\ code = [r \in Requests |-> None]
  /\ status = [r \in Requests |-> 0]
  /\ elapsed = [r \in Requests |-> 0]
  /\ stored = {}
  /\ cancelled = {}
  /\ paid = {}
-----------------------------------------------------------------------------
Goto(r, s) == stage' = [stage EXCEPT ![r] = s]
Respond(r, s) == status' = [status EXCEPT ![r] = s]
Finish(r, c) == Goto(r, "ended") /\ code' = [code EXCEPT ![r] = c]
Takes(r, limit) == \E d \in 0 .. limit : elapsed' = [elapsed EXCEPT ![r] = @ + d]

(* Mutant: every call gets the default deadline. *)
OneTimeout(r) == DefaultTimeout
Timeout(r) == IF kind[r] = "createOrder" THEN CreateTimeout ELSE DefaultTimeout

(* The row a get asks for. *)
Exists(k, t) ==
  /\ t # None
  /\ \/ k = "getUser" /\ t \in stored /\ kind[t] = "createUser"
     \/ k = "getProduct" /\ t \in stored /\ kind[t] = "createProduct"
     \/ k = "getOrder" /\ t \in stored /\ kind[t] = "createOrder"
     \/ k = "getPayment" /\ t \in paid

(* The client sends; validateBody refuses, or the route calls its service. *)
Send(r) ==
  /\ kind[r] = None
  /\ \E k \in Kinds, b \in Bodies, t \in (Requests \ {r}) \cup {None} :
       /\ k \in Gets => b = "good"
       /\ k \in Creates => t = None
       /\ kind' = [kind EXCEPT ![r] = k]
       /\ body' = [body EXCEPT ![r] = b]
       /\ target' = [target EXCEPT ![r] = t]
       /\ existed' = [existed EXCEPT ![r] = Exists(k, t)]
       /\ \/ b = "missing" /\ Respond(r, 400) /\ UNCHANGED stage
          \/ b # "missing" /\ Goto(r, "query") /\ UNCHANGED status
  /\ UNCHANGED <<code, elapsed, tables>>

(* The service is down: the call fails before anything was done.           *)
Unavailable(r) ==
  /\ stage[r] = "query"
  /\ Finish(r, "UNAVAILABLE")
  /\ UNCHANGED <<request, status, elapsed, tables>>

(* The service hangs.  The time of the call goes by.                       *)
Hang(r) ==
  /\ stage[r] = "query" \/ stage[r] \in SagaStages
  /\ Goto(r, "hung")
  /\ elapsed' = [elapsed EXCEPT ![r] = @ + Timeout(r)]
  /\ UNCHANGED <<request, code, status, tables>>
-----------------------------------------------------------------------------
(* toGRPCError of user-service knows validation errors; what the            *)
(* ValidationPipe of product-service throws is no RpcException: UNKNOWN.   *)
Rejection(k) == IF k = "createProduct" THEN "UNKNOWN" ELSE "INVALID_ARGUMENT"
Failure(k) == IF k = "createProduct" THEN "UNKNOWN" ELSE "INTERNAL"

Reject(r) ==
  /\ stage[r] = "query"
  /\ body[r] = "rejected"
  /\ Finish(r, Rejection(kind[r]))
  /\ UNCHANGED <<request, status, elapsed, tables>>

CreateRow(r) ==
  /\ stage[r] = "query"
  /\ kind[r] \in {"createUser", "createProduct"}
  /\ body[r] = "good"
  /\ Takes(r, DbTime)
  /\ \/ stored' = stored \cup {r} /\ Finish(r, "OK")
     \/ stored' \in {stored, stored \cup {r}} /\ Finish(r, Failure(kind[r]))
  /\ UNCHANGED <<request, status, cancelled, paid>>

(* Mutant: a failed query reads as an absent row in every service. *)
AbsentOnError(k) == "NOT_FOUND"
(* A query that failed.  findOne of product-service catches every error.   *)
ReadFailure(k) == IF k = "getProduct" THEN "NOT_FOUND" ELSE "INTERNAL"

GetRow(r) ==
  /\ stage[r] = "query"
  /\ kind[r] \in Gets
  /\ Takes(r, DbTime)
  /\ \/ Exists(kind[r], target[r]) /\ Finish(r, "OK")
     \/ ~Exists(kind[r], target[r]) /\ Finish(r, "NOT_FOUND")
     \/ Finish(r, ReadFailure(kind[r]))
  /\ UNCHANGED <<request, status, tables>>
-----------------------------------------------------------------------------
(* createOrder: its check passed, the saga starts. *)
StartSaga(r) ==
  /\ stage[r] = "query"
  /\ kind[r] = "createOrder"
  /\ body[r] = "good"
  /\ Goto(r, "user")
  /\ UNCHANGED <<request, code, status, elapsed, tables>>

Limit(s) ==
  CASE s \in {"user", "product"} -> DefaultTimeout
    [] s \in {"charge", "refund"} -> PaymentTimeout
    [] s \in {"insert", "cancel"} -> DbTime
    [] s \in {"announce", "regret"} -> BrokerTime

OnSuccess == [user |-> "product", product |-> "charge", charge |-> "insert",
              insert |-> "announce", cancel |-> "refund", refund |-> "regret"]
OnFailure == [user |-> "regret", product |-> "regret", charge |-> "refund",
              insert |-> "cancel", cancel |-> "refund", refund |-> "regret"]

(* updateStatus: no row, no change. *)
RowToCancel(r) == stored \cap {r}

(* What a stage leaves in the tables, when it succeeded and when it did not. *)
Effect(r, s, ok) ==
  /\ CASE s = "insert" /\ ok -> stored' = stored \cup {r}
       [] s = "insert" /\ ~ok -> stored' \in {stored, stored \cup {r}}
       [] OTHER -> UNCHANGED stored
  /\ CASE s = "cancel" /\ ok -> cancelled' = cancelled \cup RowToCancel(r)
       [] s = "cancel" /\ ~ok -> cancelled' \in {cancelled, cancelled \cup RowToCancel(r)}
       [] OTHER -> UNCHANGED cancelled
  /\ CASE s = "charge" /\ ok -> paid' = paid \cup {r}
       [] s = "charge" /\ ~ok -> paid' \in {paid, paid \cup {r}}
       [] OTHER -> UNCHANGED paid

SagaStage(r) ==
  /\ stage[r] \in DOMAIN OnSuccess
  /\ Takes(r, Limit(stage[r]))
  /\ \E ok \in BOOLEAN :
       /\ Effect(r, stage[r], ok)
       /\ Goto(r, IF ok THEN OnSuccess[stage[r]] ELSE OnFailure[stage[r]])
  /\ UNCHANGED <<request, code, status>>

(* Mutant: an error of the saga is logged and not thrown again. *)
AlwaysOk(s) == "OK"
(* The saga returned, or threw what the handler maps to INTERNAL.          *)
Outcome(s) == IF s = "announce" THEN "OK" ELSE "INTERNAL"

EndSaga(r) ==
  /\ stage[r] \in {"announce", "regret"}
  /\ Takes(r, Limit(stage[r]))
  /\ Finish(r, Outcome(stage[r]))
  /\ UNCHANGED <<request, status, tables>>
-----------------------------------------------------------------------------
(* Mutant: a deadline is reported as 404, like an absent row. *)
TimeoutIsNotFound(c) ==
  CASE c \in {"NOT_FOUND", "DEADLINE_EXCEEDED"} -> 404
    [] c = "INVALID_ARGUMENT" -> 400
    [] c = "UNAVAILABLE" -> 503
    [] OTHER -> 500
grpcToHttpStatus(c) ==
  CASE c = "INVALID_ARGUMENT" -> 400
    [] c = "NOT_FOUND" -> 404
    [] c = "UNAVAILABLE" -> 503
    [] c = "DEADLINE_EXCEEDED" -> 504
    [] OTHER -> 500

Success(r) == IF kind[r] \in Creates THEN 201 ELSE 200

Waiting(r) == stage[r] # "idle" /\ status[r] = 0

(* The answer arrives within the deadline of the call. *)
Answer(r) ==
  /\ Waiting(r)
  /\ code[r] # None
  /\ elapsed[r] <= Timeout(r)
  /\ Respond(r, IF code[r] = "OK" THEN Success(r) ELSE grpcToHttpStatus(code[r]))
  /\ UNCHANGED <<request, stage, code, elapsed, tables>>

(* Mutant: the call has no deadline. *)
NeverExpires(r) == FALSE
Expired(r) == elapsed[r] >= Timeout(r)

(* The deadline passes first.  A Node handler is not told and goes on; the *)
(* query of the Go one is cancelled, which is a failure of CreateRow.      *)
TimeOut(r) ==
  /\ Waiting(r)
  /\ Expired(r)
  /\ Respond(r, grpcToHttpStatus("DEADLINE_EXCEEDED"))
  /\ UNCHANGED <<request, stage, code, elapsed, tables>>

(* The connection to the service breaks.  The handler goes on. *)
LoseConnection(r) ==
  /\ Waiting(r)
  /\ Respond(r, grpcToHttpStatus("UNAVAILABLE"))
  /\ UNCHANGED <<request, stage, code, elapsed, tables>>

Handler(r) ==
  \/ Reject(r) \/ CreateRow(r) \/ GetRow(r)
  \/ StartSaga(r) \/ SagaStage(r) \/ EndSaga(r)

AllAnswered ==
  /\ \A r \in Requests : status[r] # 0 /\ stage[r] \in {"idle", "ended", "hung"}
  /\ UNCHANGED vars

Next ==
  \/ \E r \in Requests :
       \/ Send(r) \/ Unavailable(r) \/ Hang(r) \/ Handler(r)
       \/ Answer(r) \/ TimeOut(r) \/ LoseConnection(r)
  \/ AllAnswered

(* The services that do not hang go on, the gateway takes what arrives and *)
(* its timers fire.                                                        *)
Fairness ==
  \A r \in Requests : WF_vars(Handler(r)) /\ WF_vars(Answer(r) \/ TimeOut(r))

Spec == Init /\ [][Next]_vars /\ Fairness
-----------------------------------------------------------------------------
(* A client told 4xx may correct its request and send it again: nothing    *)
(* was or will be created or charged for the one refused.                  *)
ClientErrorHasNoEffect ==
  \A r \in Requests : status[r] \in 400 .. 499 => r \notin stored \cup paid

(* A 404 is the truth: the user, order or payment was not there when the   *)
(* request was sent, it is not a failure of the service in disguise.  Not  *)
(* so for GetProduct, whose findOne takes every error for an absent row    *)
(* (product.service.ts:19-22).                                             *)
NotFoundMeansAbsent ==
  \A r \in Requests : status[r] = 404 /\ kind[r] # "getProduct" => ~existed[r]

(* What was answered 201 is there, and an order is paid and not cancelled, *)
(* then and later: no compensation follows an answer of success.           *)
CreatedStands ==
  \A r \in Requests : status[r] = 201 =>
    /\ r \in stored \ cancelled
    /\ kind[r] = "createOrder" => r \in paid

(* The deadlines of the saga, its statements and its publishing fit in the *)
(* gateway's (api-gateway/src/config/index.js:21-27).                      *)
BudgetSuffices ==
  2 * DefaultTimeout + 2 * PaymentTimeout + 2 * DbTime + BrokerTime < CreateTimeout

(* When they fit, a CreateOrder is answered 504 only if its service hangs: *)
(* no path through calls, rollback and publishing outlives the gateway.    *)
NoEarlyTimeout ==
  BudgetSuffices =>
    \A r \in Requests : kind[r] = "createOrder" /\ status[r] = 504 => stage[r] = "hung"

(* api-gateway/src/config/index.js:23-27 says its 45 s cover the worst     *)
(* case, so no client is told 504 for an order that is placed.             *)
TimeoutIsHonest ==
  \A r \in Requests :
    kind[r] = "createOrder" /\ status[r] = 504 => r \notin stored \ cancelled

(* The inductive invariant of GatewayProofs.  Spent(s) bounds the time a   *)
(* CreateOrder took to reach stage s.                                      *)
Spent(s) ==
  CASE s \in {"idle", "query", "user"} -> 0
    [] s = "product" -> DefaultTimeout
    [] s = "charge" -> 2 * DefaultTimeout
    [] s = "insert" -> 2 * DefaultTimeout + PaymentTimeout
    [] s \in {"announce", "cancel"} -> 2 * DefaultTimeout + PaymentTimeout + DbTime
    [] s = "refund" -> 2 * DefaultTimeout + PaymentTimeout + 2 * DbTime
    [] s = "regret" -> 2 * DefaultTimeout + 2 * PaymentTimeout + 2 * DbTime
    [] OTHER -> 2 * DefaultTimeout + 2 * PaymentTimeout + 2 * DbTime + BrokerTime

(* The handler spends no more than the deadlines it has passed through.    *)
WithinBudget(r) ==
  kind[r] = "createOrder" /\ stage[r] # "hung" => elapsed[r] <= Spent(stage[r])

(* What is in the tables when a handler stands at a stage.                 *)
StageMatchesTables(r) ==
  /\ stage[r] # "idle" => kind[r] # None
  /\ stage[r] \in {"idle", "query"} => elapsed[r] = 0
  /\ stage[r] \in SagaStages => kind[r] = "createOrder"
  /\ stage[r] \in {"idle", "query", "user", "product", "charge"} =>
       r \notin stored \cup paid
  /\ stage[r] \in {"insert", "announce"} => r \in paid \ cancelled
  /\ stage[r] = "announce" => r \in stored

(* What is in them when it has answered.                                   *)
CodeMatchesTables(r) ==
  /\ code[r] # None => stage[r] = "ended" /\ code[r] # "DEADLINE_EXCEEDED"
  /\ code[r] \in {"INVALID_ARGUMENT", "NOT_FOUND"} => r \notin stored \cup paid
  /\ code[r] = "OK" /\ kind[r] \in Creates =>
       /\ r \in stored \ cancelled
       /\ kind[r] = "createOrder" => r \in paid

(* Which answer, or lack of one, a status stands for.                      *)
StatusMatchesCode(r) ==
  /\ status[r] # 0 => kind[r] # None
  /\ status[r] = 201 => code[r] = "OK" /\ kind[r] \in Creates
  /\ status[r] = 400 => stage[r] = "idle" \/ code[r] = "INVALID_ARGUMENT"
  /\ status[r] = 404 => code[r] = "NOT_FOUND"
  /\ status[r] = 504 /\ kind[r] = "createOrder" /\ BudgetSuffices => stage[r] = "hung"

(* The inductive invariant: the time budget, and what the stage, the code  *)
(* and the status of a request each tell of the tables.                    *)
IInv ==
  /\ TypeOK
  /\ \A r \in Requests :
       /\ WithinBudget(r)
       /\ StageMatchesTables(r)
       /\ CodeMatchesTables(r)
       /\ StatusMatchesCode(r)

(* Beside it: a row that was there when a get was sent is still there, and *)
(* only findOne of product-service answers NOT_FOUND for one that is.      *)
AbsenceIsTrue(r) ==
  /\ existed[r] => Exists(kind[r], target[r])
  /\ code[r] = "NOT_FOUND" => kind[r] = "getProduct" \/ ~existed[r]

(* Every request is answered, whatever hangs behind the gateway.           *)
EveryRequestAnswered == \A r \in Requests : kind[r] # None ~> status[r] # 0
=============================================================================
