----------------------------- MODULE GatewayProofs -----------------------------
(***************************************************************************)
(* What an HTTP status means, and the time budget of CreateOrder, proved   *)
(* for all requests, deadlines and delays.                                 *)
(***************************************************************************)
EXTENDS Gateway, TLAPS

(* An amount that Takes adds is a natural number not above the limit. *)
LEMMA TakesSome ==
  ASSUME NEW r \in Requests, NEW limit \in Nat, TypeOK, Takes(r, limit)
  PROVE  \E d \in 0 .. limit : elapsed' = [elapsed EXCEPT ![r] = elapsed[r] + d]
BY DEF Takes, TypeOK

(* The deadlines are naturals, so is the time allowed to every stage. *)
LEMMA LimitNat == \A s \in SagaStages : Limit(s) \in Nat
BY GatewayAssumption DEF Limit, SagaStages

(* Initially nothing was sent, stored or answered.                         *)
LEMMA InitInv == Init => IInv
BY GatewayAssumption
   DEF Init, IInv, TypeOK, WithinBudget, StageMatchesTables, CodeMatchesTables,
       StatusMatchesCode, BudgetSuffices, Spent,
       Kinds, Creates, Gets, Bodies, Stages, SagaStages, Codes

(* What the invariant says of one request, and that a step ignores it. *)
Sound(r) ==
  WithinBudget(r) /\ StageMatchesTables(r) /\ CodeMatchesTables(r) /\ StatusMatchesCode(r)

Same(s) ==
  /\ kind'[s] = kind[s] /\ stage'[s] = stage[s] /\ code'[s] = code[s]
  /\ status'[s] = status[s] /\ elapsed'[s] = elapsed[s]
  /\ s \in stored' <=> s \in stored
  /\ s \in cancelled' <=> s \in cancelled
  /\ s \in paid' <=> s \in paid

(* So an action keeps the invariant if it does for its own request.        *)
LEMMA OneAtATime ==
  ASSUME IInv, NEW r \in Requests, TypeOK', Sound(r)', \A s \in Requests \ {r} : Same(s)
  PROVE  IInv'
<1>1. ASSUME NEW s \in Requests \ {r} PROVE Sound(s)'
  BY <1>1 DEF IInv, Sound, Same, WithinBudget, StageMatchesTables, CodeMatchesTables,
              StatusMatchesCode
<1> QED
  BY <1>1 DEF IInv, Sound

(* The client sends: nothing of the request is in the tables yet.          *)
LEMMA SendInv == ASSUME IInv, NEW r \in Requests, Send(r) PROVE IInv'
<1> USE GatewayAssumption DEF Goto, Respond, tables
<1>1. PICK k \in Kinds, b \in Bodies, t \in (Requests \ {r}) \cup {None} :
        Send(r)!2!(k, b, t)
  BY DEF Send
<1>2. UNCHANGED <<code, elapsed, tables>> /\ kind[r] = None
  BY DEF Send
<1>3. k # None
  BY DEF Kinds, Creates, Gets
<1>4. TypeOK'
  BY <1>1, <1>2 DEF IInv, TypeOK, Stages, Exists
<1>5. \A s \in Requests \ {r} : Same(s)
  BY <1>1, <1>2 DEF IInv, TypeOK, Same
<1>6. /\ stage[r] = "idle" /\ status[r] = 0 /\ code[r] = None
      /\ elapsed[r] = 0 /\ r \notin stored \cup paid
  BY <1>2 DEF IInv, TypeOK, StageMatchesTables, CodeMatchesTables, StatusMatchesCode, Codes
<1>7. /\ kind'[r] = k /\ code'[r] = None /\ elapsed'[r] = 0
      /\ r \notin stored' \cup paid'
      /\ \/ stage'[r] = "idle" /\ status'[r] = 400
         \/ stage'[r] = "query" /\ status'[r] = 0
  BY <1>1, <1>2, <1>6 DEF IInv, TypeOK
<1>8. Sound(r)'
  <2>1. WithinBudget(r)'
    BY <1>7 DEF WithinBudget, Spent
  <2>2. StageMatchesTables(r)'
    BY <1>3, <1>7 DEF StageMatchesTables, SagaStages
  <2>3. CodeMatchesTables(r)' /\ StatusMatchesCode(r)'
    BY <1>3, <1>7 DEF CodeMatchesTables, StatusMatchesCode, Codes
  <2> QED
    BY <2>1, <2>2, <2>3 DEF Sound
<1> QED
  BY <1>4, <1>5, <1>8, OneAtATime

(* A service that is down did nothing.                                     *)
LEMMA UnavailableInv == ASSUME IInv, NEW r \in Requests, Unavailable(r) PROVE IInv'
<1> USE GatewayAssumption DEF Goto, Finish, Respond, tables, request
<1>1. TypeOK'
  BY DEF Unavailable, IInv, TypeOK, Stages, Codes
<1>2. \A s \in Requests \ {r} : Same(s)
  BY DEF Unavailable, IInv, TypeOK, Same
<1>3. Sound(r)'
  BY DEF Unavailable, IInv, TypeOK, Sound, WithinBudget, Spent, StageMatchesTables, CodeMatchesTables,
         StatusMatchesCode, SagaStages, Codes
<1> QED
  BY <1>1, <1>2, <1>3, OneAtATime

(* A handler that hangs leaves the tables as they are.                     *)
LEMMA HangInv == ASSUME IInv, NEW r \in Requests, Hang(r) PROVE IInv'
<1> USE GatewayAssumption DEF Hang, Goto, Timeout, tables, request
<1>1. TypeOK'
  BY DEF IInv, TypeOK, Stages, Timeout
<1>2. \A s \in Requests \ {r} : Same(s)
  BY DEF IInv, TypeOK, Same
<1>3. Sound(r)'
  BY DEF IInv, TypeOK, Sound, WithinBudget, StageMatchesTables, CodeMatchesTables,
         StatusMatchesCode, SagaStages, Codes
<1> QED
  BY <1>1, <1>2, <1>3, OneAtATime

(* A service refuses before it writes.                                     *)
LEMMA RejectInv == ASSUME IInv, NEW r \in Requests, Reject(r) PROVE IInv'
<1> USE GatewayAssumption DEF Reject, Goto, Finish, tables, request
<1>1. Rejection(kind[r]) \in {"UNKNOWN", "INVALID_ARGUMENT"}
  BY DEF Rejection
<1>2. TypeOK'
  BY <1>1 DEF IInv, TypeOK, Stages, Codes
<1>3. \A s \in Requests \ {r} : Same(s)
  BY DEF IInv, TypeOK, Same
<1>4. Sound(r)'
  BY <1>1 DEF IInv, TypeOK, Sound, WithinBudget, Spent, StageMatchesTables, CodeMatchesTables,
              StatusMatchesCode, SagaStages, Codes
<1> QED
  BY <1>2, <1>3, <1>4, OneAtATime

(* An insert that is answered OK was applied.                              *)
LEMMA CreateRowInv == ASSUME IInv, NEW r \in Requests, CreateRow(r) PROVE IInv'
<1> USE GatewayAssumption DEF Goto, Finish, tables, request
<1>1. Failure(kind[r]) \in {"UNKNOWN", "INTERNAL"}
  BY DEF Failure
<1>2. PICK d \in 0 .. DbTime : elapsed' = [elapsed EXCEPT ![r] = elapsed[r] + d]
  BY TakesSome DEF CreateRow, IInv
<1>3. stored' \in {stored, stored \cup {r}} /\ UNCHANGED <<request, status, cancelled, paid>>
  BY DEF CreateRow
<1>4. /\ stage[r] = "query" /\ stage' = [stage EXCEPT ![r] = "ended"]
      /\ kind[r] \in {"createUser", "createProduct"}
  BY DEF CreateRow
<1>5. \E c \in {"OK", "UNKNOWN", "INTERNAL"} :
        /\ code' = [code EXCEPT ![r] = c]
        /\ c = "OK" => r \in stored'
  BY <1>1 DEF CreateRow
<1>6. TypeOK'
  BY <1>2, <1>3, <1>4, <1>5 DEF IInv, TypeOK, Stages, Codes
<1>7. \A s \in Requests \ {r} : Same(s)
  BY <1>2, <1>3, <1>4, <1>5 DEF IInv, TypeOK, Same
<1>8. r \notin cancelled
  BY <1>4 DEF IInv, TypeOK, StageMatchesTables
<1>9. Sound(r)'
  BY <1>3, <1>4, <1>5, <1>8
     DEF IInv, TypeOK, Sound, WithinBudget, StageMatchesTables, CodeMatchesTables,
         StatusMatchesCode, SagaStages, Codes
<1> QED
  BY <1>6, <1>7, <1>9, OneAtATime

(* A get changes no table.                                                 *)
LEMMA GetRowInv == ASSUME IInv, NEW r \in Requests, GetRow(r) PROVE IInv'
<1> USE GatewayAssumption DEF Goto, Finish, tables, request
<1>1. PICK d \in 0 .. DbTime : elapsed' = [elapsed EXCEPT ![r] = elapsed[r] + d]
  BY TakesSome DEF GetRow, IInv
<1>2. PICK c \in {"OK", "NOT_FOUND", "INTERNAL"} : code' = [code EXCEPT ![r] = c]
  BY DEF GetRow, ReadFailure
<1>3. /\ stage[r] = "query" /\ stage' = [stage EXCEPT ![r] = "ended"]
      /\ kind[r] \in Gets /\ UNCHANGED <<request, status, tables>>
  BY DEF GetRow
<1>4. TypeOK'
  BY <1>1, <1>2, <1>3 DEF IInv, TypeOK, Stages, Codes
<1>5. \A s \in Requests \ {r} : Same(s)
  BY <1>1, <1>2, <1>3 DEF IInv, TypeOK, Same
<1>6. kind[r] \notin Creates
  BY <1>3 DEF Creates, Gets
<1>7. Sound(r)'
  BY <1>2, <1>3, <1>6
     DEF IInv, TypeOK, Sound, WithinBudget, StageMatchesTables, CodeMatchesTables,
         StatusMatchesCode, SagaStages, Codes, Creates
<1> QED
  BY <1>4, <1>5, <1>7, OneAtATime

(* The saga starts with nothing spent.                                     *)
LEMMA StartSagaInv == ASSUME IInv, NEW r \in Requests, StartSaga(r) PROVE IInv'
<1> USE GatewayAssumption DEF StartSaga, Goto, tables, request
<1>1. TypeOK'
  BY DEF IInv, TypeOK, Stages, SagaStages
<1>2. \A s \in Requests \ {r} : Same(s)
  BY DEF IInv, TypeOK, Same
<1>3. Sound(r)'
  BY DEF IInv, TypeOK, Sound, WithinBudget, Spent, StageMatchesTables, CodeMatchesTables,
         StatusMatchesCode, SagaStages, Codes
<1> QED
  BY <1>1, <1>2, <1>3, OneAtATime

(* An answer carries the code of the handler and nothing else.             *)
LEMMA AnswerInv == ASSUME IInv, NEW r \in Requests, Answer(r) PROVE IInv'
<1> USE GatewayAssumption DEF Answer, Respond, Waiting, tables, request
<1> DEFINE h == IF code[r] = "OK" THEN Success(r) ELSE grpcToHttpStatus(code[r])
<1>1. status' = [status EXCEPT ![r] = h] /\ UNCHANGED <<request, stage, code, elapsed, tables>>
  OBVIOUS
<1>2. /\ h \in {200, 201, 400, 404, 500, 503}
      /\ h = 201 => code[r] = "OK" /\ kind[r] \in Creates
      /\ h = 400 => code[r] = "INVALID_ARGUMENT"
      /\ h = 404 => code[r] = "NOT_FOUND"
  <2>1. CASE code[r] = "OK"
    BY <2>1 DEF Success
  <2>2. CASE code[r] # "OK"
    <3>1. h \in {400, 404, 500, 503}
      BY <2>2 DEF IInv, CodeMatchesTables, grpcToHttpStatus
    <3>2. /\ h = 400 => code[r] = "INVALID_ARGUMENT"
          /\ h = 404 => code[r] = "NOT_FOUND"
      BY <2>2 DEF grpcToHttpStatus
    <3> QED
      BY <3>1, <3>2
  <2> QED
    BY <2>1, <2>2
<1>3. stage[r] # "idle" /\ status[r] = 0 /\ code[r] # None
  OBVIOUS
<1> HIDE DEF h, Answer
<1>4. TypeOK'
  BY <1>1, <1>2 DEF IInv, TypeOK
<1>5. \A s \in Requests \ {r} : Same(s)
  BY <1>1 DEF IInv, TypeOK, Same
<1>6. Sound(r)'
  BY <1>1, <1>2, <1>3
     DEF IInv, TypeOK, Sound, WithinBudget, StageMatchesTables, CodeMatchesTables,
         StatusMatchesCode
<1> QED
  BY <1>4, <1>5, <1>6, OneAtATime

(* A lost connection is a 503, of which nothing is claimed.                *)
LEMMA LoseConnectionInv == ASSUME IInv, NEW r \in Requests, LoseConnection(r) PROVE IInv'
<1> USE GatewayAssumption DEF LoseConnection, Respond, Waiting, grpcToHttpStatus, tables, request
<1>1. TypeOK'
  BY DEF IInv, TypeOK
<1>2. \A s \in Requests \ {r} : Same(s)
  BY DEF IInv, TypeOK, Same
<1>3. Sound(r)'
  BY DEF IInv, TypeOK, Sound, WithinBudget, StageMatchesTables, CodeMatchesTables,
         StatusMatchesCode
<1> QED
  BY <1>1, <1>2, <1>3, OneAtATime

(* A CreateOrder whose deadline fires after less than its budget hangs. *)
LEMMA TimeOutInv == ASSUME IInv, NEW r \in Requests, TimeOut(r) PROVE IInv'
<1> USE GatewayAssumption DEF TimeOut, Respond, Waiting, grpcToHttpStatus, tables, request
<1>1. TypeOK'
  BY DEF IInv, TypeOK
<1>2. \A s \in Requests \ {r} : Same(s)
  BY DEF IInv, TypeOK, Same
<1>3. ASSUME kind[r] = "createOrder", BudgetSuffices PROVE stage[r] = "hung"
  <2>1. elapsed[r] >= CreateTimeout /\ elapsed[r] \in Nat
    BY <1>3 DEF Expired, Timeout, IInv, TypeOK
  <2>2. Spent(stage[r]) < CreateTimeout
    BY <1>3 DEF BudgetSuffices, Spent
  <2>3. Spent(stage[r]) \in Nat
    BY DEF Spent
  <2> QED
    BY <1>3, <2>1, <2>2, <2>3 DEF IInv, WithinBudget
<1>4. Sound(r)'
  BY <1>3 DEF IInv, TypeOK, Sound, WithinBudget, StageMatchesTables, CodeMatchesTables,
              StatusMatchesCode, BudgetSuffices
<1> QED
  BY <1>1, <1>2, <1>4, OneAtATime

(* What a stage does and where it leads, without the detail of the tables. *)
LEMMA EffectTypes ==
  ASSUME IInv, NEW r \in Requests, NEW s, NEW ok, Effect(r, s, ok)
  PROVE  /\ stored' \in {stored, stored \cup {r}}
         /\ cancelled' \in {cancelled, cancelled \cup (stored \cap {r})}
         /\ paid' \in {paid, paid \cup {r}}
BY DEF Effect, RowToCancel

(* A stage adds at most its limit to the time spent.                       *)
LEMMA SagaStageInv == ASSUME IInv, NEW r \in Requests, SagaStage(r) PROVE IInv'
<1> USE GatewayAssumption DEF Goto, tables, request
<1> DEFINE s == stage[r]
<1>1. s \in {"user", "product", "charge", "insert", "cancel", "refund"}
  BY DEF SagaStage, OnSuccess
<1>2. PICK ok \in BOOLEAN :
        /\ Effect(r, s, ok)
        /\ stage' = [stage EXCEPT ![r] = IF ok THEN OnSuccess[s] ELSE OnFailure[s]]
  BY DEF SagaStage
<1>3. PICK d \in 0 .. Limit(s) : elapsed' = [elapsed EXCEPT ![r] = elapsed[r] + d]
  BY <1>1, LimitNat, TakesSome DEF SagaStage, IInv, SagaStages
<1>4. UNCHANGED <<request, code, status>>
  BY DEF SagaStage
<1>5. /\ stored' \in {stored, stored \cup {r}}
      /\ cancelled' \in {cancelled, cancelled \cup (stored \cap {r})}
      /\ paid' \in {paid, paid \cup {r}}
  BY <1>2, EffectTypes
<1> DEFINE n == stage'[r]
<1>6. /\ n = (IF ok THEN OnSuccess[s] ELSE OnFailure[s])
      /\ elapsed'[r] = elapsed[r] + d
  BY <1>2, <1>3 DEF IInv, TypeOK
<1>7. /\ s = "user" => n \in {"product", "regret"}
      /\ s = "product" => n \in {"charge", "regret"}
      /\ s = "charge" => n \in {"insert", "refund"}
      /\ s = "insert" => n \in {"announce", "cancel"}
      /\ s = "cancel" => n = "refund"
      /\ s = "refund" => n = "regret"
  BY <1>6 DEF OnSuccess, OnFailure
<1>8. TypeOK'
  <2>1. n \in Stages
    BY <1>1, <1>7 DEF Stages, SagaStages
  <2>2. stage' \in [Requests -> Stages]
    BY <1>2, <2>1 DEF IInv, TypeOK
  <2>3. elapsed' \in [Requests -> Nat]
    BY <1>1, <1>3, LimitNat DEF IInv, TypeOK, SagaStages
  <2> QED
    BY <1>4, <1>5, <2>2, <2>3 DEF IInv, TypeOK
<1>9. \A q \in Requests \ {r} : Same(q)
  BY <1>2, <1>3, <1>4, <1>5 DEF IInv, TypeOK, Same
<1>10. /\ kind[r] = "createOrder" /\ kind[r] # None /\ code[r] = None
       /\ elapsed[r] \in Nat /\ elapsed[r] <= Spent(s)
  BY <1>1 DEF IInv, TypeOK, StageMatchesTables, CodeMatchesTables, WithinBudget, SagaStages
<1>11. WithinBudget(r)'
  <2>1. d \in Nat /\ d <= Limit(s)
    BY <1>1, LimitNat DEF SagaStages
  <2>2. Spent(s) + Limit(s) <= Spent(n)
    BY <1>1, <1>7 DEF Spent, Limit
  <2>3. Spent(s) \in Nat /\ Spent(n) \in Nat /\ Limit(s) \in Nat
    BY <1>1, LimitNat DEF Spent, SagaStages
  <2>4. elapsed'[r] <= Spent(n)
    BY <1>6, <1>10, <2>1, <2>2, <2>3
  <2> QED
    BY <2>4 DEF WithinBudget, Spent
<1>12. StageMatchesTables(r)'
  <2>1. CASE s \in {"user", "product"}
    <3>1. UNCHANGED tables
      BY <1>2, <2>1 DEF Effect
    <3>2. n \in {"product", "charge", "regret"} /\ r \notin stored \cup paid
      BY <1>7, <2>1 DEF IInv, StageMatchesTables
    <3> QED
      BY <1>4, <1>10, <3>1, <3>2 DEF StageMatchesTables, SagaStages
  <2>2. CASE s = "charge"
    BY <1>2, <1>4, <1>6, <1>7, <1>10, <2>2
       DEF IInv, TypeOK, StageMatchesTables, SagaStages, Effect, OnSuccess, OnFailure
  <2>3. CASE s = "insert"
    BY <1>2, <1>4, <1>6, <1>7, <1>10, <2>3
       DEF IInv, StageMatchesTables, SagaStages, Effect, OnSuccess, OnFailure
  <2>4. CASE s \in {"cancel", "refund"}
    BY <1>4, <1>7, <1>10, <2>4 DEF StageMatchesTables, SagaStages
  <2> QED
    BY <1>1, <2>1, <2>2, <2>3, <2>4
<1>13. CodeMatchesTables(r)'
  BY <1>4, <1>10 DEF CodeMatchesTables, Codes
<1>14. StatusMatchesCode(r)'
  BY <1>1, <1>4, <1>10 DEF IInv, StatusMatchesCode, Codes
<1> QED
  BY <1>8, <1>9, <1>11, <1>12, <1>13, <1>14, OneAtATime DEF Sound

(* The last event is published and the handler answers.                    *)
LEMMA EndSagaInv == ASSUME IInv, NEW r \in Requests, EndSaga(r) PROVE IInv'
<1> USE GatewayAssumption DEF Goto, Finish, tables, request
<1>1. /\ stage[r] \in {"announce", "regret"} /\ stage' = [stage EXCEPT ![r] = "ended"]
      /\ code' = [code EXCEPT ![r] = Outcome(stage[r])]
      /\ UNCHANGED <<request, status, tables>>
  BY DEF EndSaga
<1>2. PICK d \in 0 .. BrokerTime : elapsed' = [elapsed EXCEPT ![r] = elapsed[r] + d]
  BY <1>1, TakesSome DEF EndSaga, IInv, Limit
<1>3. Outcome(stage[r]) = IF stage[r] = "announce" THEN "OK" ELSE "INTERNAL"
  BY DEF Outcome
<1>4. TypeOK'
  BY <1>1, <1>2, <1>3 DEF IInv, TypeOK, Stages, Codes
<1>5. \A s \in Requests \ {r} : Same(s)
  BY <1>1, <1>2 DEF IInv, TypeOK, Same
<1>6. WithinBudget(r)'
  BY <1>1, <1>2 DEF IInv, TypeOK, WithinBudget, StageMatchesTables, SagaStages, Spent
<1>7. StageMatchesTables(r)' /\ CodeMatchesTables(r)' /\ StatusMatchesCode(r)'
  BY <1>1, <1>3
     DEF IInv, TypeOK, StageMatchesTables, CodeMatchesTables, StatusMatchesCode, SagaStages, Codes
<1> QED
  BY <1>4, <1>5, <1>6, <1>7, OneAtATime DEF Sound

(* Together: every step keeps the invariant.                               *)
LEMMA NextInv == ASSUME IInv, [Next]_vars PROVE IInv'
<1>1. CASE UNCHANGED vars
  BY <1>1 DEF vars, request, tables, IInv, TypeOK, WithinBudget, StageMatchesTables,
              CodeMatchesTables, StatusMatchesCode
<1>2. CASE AllAnswered
  BY <1>1, <1>2 DEF AllAnswered
<1>3. ASSUME NEW r \in Requests,
             \/ Send(r) \/ Unavailable(r) \/ Hang(r) \/ Handler(r)
             \/ Answer(r) \/ TimeOut(r) \/ LoseConnection(r)
      PROVE  IInv'
  BY <1>3, SendInv, UnavailableInv, HangInv, RejectInv, CreateRowInv, GetRowInv,
     StartSagaInv, SagaStageInv, EndSagaInv, AnswerInv, TimeOutInv, LoseConnectionInv
     DEF Handler
<1> QED
  BY <1>1, <1>2, <1>3 DEF Next
-----------------------------------------------------------------------------
(* The time budget, and what stage, code and status tell of the tables,    *)
(* hold in every reachable state.                                          *)
THEOREM Invariant == Spec => []IInv
<1>1. IInv /\ [Next]_vars => IInv'
  BY NextInv
<1> QED
  BY InitInv, <1>1, PTL DEF Spec

(* Every variable keeps to its type, a cancelled order is a stored one.    *)
THEOREM TypeCorrect == Spec => []TypeOK
<1>1. IInv => TypeOK
  BY DEF IInv
<1> QED
  BY Invariant, <1>1, PTL

(* If the deadlines, the statements and the publishing of the saga fit in  *)
(* the gateway's deadline, whatever they are, CreateOrder is answered 504  *)
(* only when its service hangs: api-gateway/src/config/index.js:21-27.     *)
THEOREM Budget == Spec => []NoEarlyTimeout
<1>1. IInv => NoEarlyTimeout
  BY DEF IInv, StatusMatchesCode, NoEarlyTimeout
<1> QED
  BY Invariant, <1>1, PTL

(* A request refused with a 4xx has no effect, then or later.              *)
THEOREM RefusedHasNoEffect == Spec => []ClientErrorHasNoEffect
<1>1. ASSUME IInv, NEW r \in Requests, status[r] \in 400 .. 499
      PROVE  r \notin stored \cup paid
  <2>1. status[r] \in {400, 404}
    BY <1>1 DEF IInv, TypeOK
  <2> QED
    BY <1>1, <2>1 DEF IInv, StatusMatchesCode, CodeMatchesTables, StageMatchesTables
<1>2. IInv => ClientErrorHasNoEffect
  BY <1>1 DEF ClientErrorHasNoEffect
<1> QED
  BY Invariant, <1>2, PTL

(* What was answered 201 is stored; an order is paid and never cancelled.  *)
THEOREM SuccessStands == Spec => []CreatedStands
<1>1. IInv => CreatedStands
  BY DEF IInv, StatusMatchesCode, CodeMatchesTables, CreatedStands
<1> QED
  BY Invariant, <1>1, PTL
-----------------------------------------------------------------------------
(* Rows are only added, and a request asks for one thing.                  *)
LEMMA RowsStay ==
  ASSUME TypeOK, [Next]_vars
  PROVE  /\ stored \subseteq stored' /\ paid \subseteq paid'
         /\ \A r \in Requests : kind[r] # None =>
              kind'[r] = kind[r] /\ target'[r] = target[r] /\ existed'[r] = existed[r]
<1> USE DEF request, tables
<1>1. CASE UNCHANGED vars
  BY <1>1 DEF vars
<1>2. CASE AllAnswered
  BY <1>1, <1>2 DEF AllAnswered
<1>3. ASSUME NEW r \in Requests, Send(r)
      PROVE  /\ UNCHANGED <<stored, paid>>
             /\ \A s \in Requests : kind[s] # None =>
                  kind'[s] = kind[s] /\ target'[s] = target[s] /\ existed'[s] = existed[s]
  BY <1>3 DEF Send, TypeOK
<1>4. ASSUME NEW r \in Requests, SagaStage(r)
      PROVE  stored \subseteq stored' /\ paid \subseteq paid' /\ UNCHANGED request
  <2>1. PICK ok \in BOOLEAN : Effect(r, stage[r], ok)
    BY <1>4 DEF SagaStage
  <2> QED
    BY <1>4, <2>1 DEF SagaStage, Effect
<1>5. ASSUME NEW r \in Requests,
             \/ Unavailable(r) \/ Hang(r) \/ Reject(r) \/ CreateRow(r) \/ GetRow(r)
             \/ StartSaga(r) \/ EndSaga(r) \/ Answer(r) \/ TimeOut(r) \/ LoseConnection(r)
      PROVE  stored \subseteq stored' /\ paid \subseteq paid' /\ UNCHANGED request
  BY <1>5 DEF Unavailable, Hang, Reject, CreateRow, GetRow, StartSaga, EndSaga, Answer, TimeOut,
              LoseConnection
<1> QED
  BY <1>1, <1>2, <1>3, <1>4, <1>5 DEF Next, Handler

(* A handler that is not a get's, or found its row, answers otherwise.     *)
LEMMA NotFoundIsARead ==
  ASSUME IInv, [Next]_vars, NEW r \in Requests, code'[r] = "NOT_FOUND", code[r] # "NOT_FOUND"
  PROVE  kind[r] \in Gets /\ (kind[r] = "getProduct" \/ ~Exists(kind[r], target[r]))
<1> USE DEF request, tables, Finish, Goto
<1>1. code \in [Requests -> Codes \cup {None}]
  BY DEF IInv, TypeOK
<1>2. UNCHANGED code \/ \E s \in Requests :
        Unavailable(s) \/ Reject(s) \/ CreateRow(s) \/ GetRow(s) \/ EndSaga(s)
  BY DEF Next, Handler, vars, AllAnswered, Send, Hang, StartSaga, SagaStage, Answer, TimeOut,
         LoseConnection
<1>3. PICK s \in Requests :
        Unavailable(s) \/ Reject(s) \/ CreateRow(s) \/ GetRow(s) \/ EndSaga(s)
  BY <1>2
<1>4. CASE Unavailable(s) \/ Reject(s) \/ CreateRow(s) \/ EndSaga(s)
  <2>1. \E c \in {"UNAVAILABLE", "UNKNOWN", "INVALID_ARGUMENT", "INTERNAL", "OK"} :
          code' = [code EXCEPT ![s] = c]
    BY <1>4 DEF Unavailable, Reject, Rejection, CreateRow, Failure, EndSaga, Outcome
  <2> QED
    BY <1>1, <2>1
<1>5. CASE GetRow(s)
  <2>1. r = s /\ kind[r] \in Gets
    BY <1>1, <1>5 DEF GetRow
  <2>2. \/ code'[r] = "OK" \/ ~Exists(kind[r], target[r]) \/ code'[r] = ReadFailure(kind[r])
    BY <1>1, <1>5, <2>1 DEF GetRow
  <2> QED
    BY <2>1, <2>2 DEF ReadFailure
<1> QED
  BY <1>3, <1>4, <1>5

(* So the row a get asked for, once there, is there when it is looked up.  *)
LEMMA AbsenceInv ==
  ASSUME IInv, [Next]_vars, NEW r \in Requests, AbsenceIsTrue(r)
  PROVE  AbsenceIsTrue(r)'
<1>1. ASSUME NEW k, NEW t \in Requests \cup {None}, Exists(k, t)
      PROVE  Exists(k, t)'
  <2>1. t \in Requests /\ (t \in stored => t \in stored') /\ (t \in paid => t \in paid')
    BY <1>1, RowsStay DEF Exists, IInv
  <2>2. kind[t] \in {"createUser", "createProduct", "createOrder"} => kind'[t] = kind[t]
    BY <2>1, RowsStay, GatewayAssumption DEF IInv, Kinds, Creates
  <2> QED
    BY <1>1, <2>1, <2>2 DEF Exists
<1>2. target[r] \in Requests \cup {None}
  BY DEF IInv, TypeOK
<1>3. CASE kind[r] # None
  <2>1. kind'[r] = kind[r] /\ target'[r] = target[r] /\ existed'[r] = existed[r]
    BY <1>3, RowsStay DEF IInv
  <2>2. existed'[r] => Exists(kind[r], target[r])'
    BY <1>1, <1>2, <2>1 DEF AbsenceIsTrue, Exists
  <2>3. code'[r] = "NOT_FOUND" => kind'[r] = "getProduct" \/ ~existed'[r]
    BY <2>1, NotFoundIsARead DEF AbsenceIsTrue
  <2> QED
    BY <2>2, <2>3 DEF AbsenceIsTrue, Exists
<1>4. CASE kind[r] = None
  <2>1. code'[r] # "NOT_FOUND"
    <3>1. code[r] # "NOT_FOUND" /\ kind[r] \notin Gets
      BY <1>4, GatewayAssumption DEF IInv, StageMatchesTables, CodeMatchesTables, Kinds, Codes
    <3> QED
      BY <3>1, NotFoundIsARead
  <2>2. ~existed[r]
    BY <1>4, GatewayAssumption DEF AbsenceIsTrue, Exists, Kinds, Gets
  <2>3. CASE Send(r)
    <3>1. PICK k \in Kinds, b \in Bodies, t \in (Requests \ {r}) \cup {None} :
            Send(r)!2!(k, b, t)
      BY <2>3 DEF Send
    <3>2. kind'[r] = k /\ target'[r] = t /\ existed'[r] = Exists(k, t)
      BY <3>1 DEF IInv, TypeOK
    <3>3. Exists(k, t) => Exists(k, t)'
      BY <1>1, <3>1 DEF Exists
    <3> QED
      BY <2>1, <3>2, <3>3 DEF AbsenceIsTrue, Exists
  <2>4. CASE ~Send(r)
    <3>1. existed'[r] = existed[r]
      <4>1. UNCHANGED existed \/ \E s \in Requests \ {r} : Send(s)
        BY <2>4 DEF Next, Handler, vars, request, AllAnswered, Unavailable, Hang, Reject, CreateRow,
                    GetRow, StartSaga, SagaStage, EndSaga, Answer, TimeOut, LoseConnection
      <4> QED
        BY <4>1 DEF Send, IInv, TypeOK
    <3> QED
      BY <2>1, <2>2, <3>1 DEF AbsenceIsTrue
  <2> QED
    BY <2>3, <2>4
<1> QED
  BY <1>3, <1>4

(* A 404 is the truth for every get but GetProduct, however the rows are   *)
(* created while it is under way: user.handler.go, order.handler.js and    *)
(* payment.handler.js tell a query that failed from a row that is absent.  *)
THEOREM AbsentIsAbsent == Spec => []NotFoundMeansAbsent
<1> DEFINE J == IInv /\ \A r \in Requests : AbsenceIsTrue(r)
<1>1. Init => J
  BY InitInv, GatewayAssumption DEF Init, AbsenceIsTrue, Codes
<1>2. J /\ [Next]_vars => J'
  BY NextInv, AbsenceInv
<1>3. J => NotFoundMeansAbsent
  BY DEF IInv, StatusMatchesCode, AbsenceIsTrue, NotFoundMeansAbsent
<1> QED
  BY <1>1, <1>2, <1>3, PTL DEF Spec
=============================================================================
