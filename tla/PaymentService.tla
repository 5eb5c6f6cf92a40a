---------------------------- MODULE PaymentService ----------------------------
(***************************************************************************)
(* payment-service (src/payment-service): the gRPC handlers ProcessPayment, *)
(* RefundByOrderId and RefundPayment, with the payment gateway, the        *)
(* connection pool and the Postgres transactions they run.                 *)
(*                                                                         *)
(* One member of Calls is one incoming request; its program counter pc     *)
(* stops at every await of the source, because there another request may   *)
(* run.  A request is made at most once: a client that retries makes       *)
(* another one.  Transactions run at READ COMMITTED: rows and intents are   *)
(* the committed tables, what a transaction has written and not committed   *)
(* is in the locals of its request.                                        *)
(***************************************************************************)
EXTENDS Integers, FiniteSets

CONSTANTS
  Orders,
  ChargeCalls,    \* ProcessPayment requests
  RefundCalls,    \* RefundByOrderId requests (the saga's compensation)
  IdRefundCalls,  \* RefundPayment requests (by payment id)
  OrderOf,        \* the order a ProcessPayment or RefundByOrderId names
  Keys,           \* the values of hashtext(orderId)
  LockKey,        \* hashtext: two orders may share a key
  Oversized,      \* orders whose amount NUMERIC(12, 2) cannot hold
  MaxRetries,     \* config.payment.maxRetries
  PoolSize,       \* connections of the pg pool
  MaxDbErrors,    \* bound: failed statements and commits in a behaviour
  MaxCrashes,     \* bound: crashes of the process in a behaviour
  None            \* no value: not a member of any set above

Calls == ChargeCalls \cup RefundCalls \cup IdRefundCalls
TxnCalls == ChargeCalls \cup RefundCalls

ASSUME CallsAssumption ==
  /\ ChargeCalls \cap RefundCalls = {}
  /\ ChargeCalls \cap IdRefundCalls = {}
  /\ RefundCalls \cap IdRefundCalls = {}
  /\ None \notin Calls
ASSUME OrdersAssumption ==
  /\ OrderOf \in [TxnCalls -> Orders]
  /\ LockKey \in [Orders -> Keys]
  /\ Oversized \subseteq Orders
ASSUME BoundsAssumption ==
  /\ MaxRetries \in Nat
  /\ PoolSize \in Nat \ {0}
  /\ MaxDbErrors \in Nat
  /\ MaxCrashes \in Nat

(* A row of payments is named by the request and the attempt that inserts  *)
(* it; attempt 0 is the FAILED row written after the last attempt.         *)
RowIds == ChargeCalls \X (0 .. MaxRetries)
RowOrder(r) == OrderOf[r[1]]
RowsOf(c) == {r \in RowIds : r[1] = c}

VARIABLES
  pc,          \* where each request is
  attempt,     \* ProcessPayment: the loop variable `attempt`
  seen,        \* ProcessPayment: `refundRequested`
  matched,     \* RefundByOrderId: rows its UPDATE has matched (row locks)
  target,      \* RefundPayment: the payment id it was given
  lock,        \* holder of pg_advisory_xact_lock, per key
  rows,        \* committed table payments: status of each row
  refundedAt,  \* column refunded_at: the request that wrote it
  intents,     \* committed table refund_intents
  captured,    \* gateway: the charges it has captured, <<request, attempt>>
  reply,       \* what each request was answered
  dbErrors,    \* database failures so far
  crashes      \* process crashes so far

tables == <<rows, refundedAt, intents>>
locals == <<attempt, seen, matched, target>>
vars == <<pc, locals, lock, tables, captured, reply, dbErrors, crashes>>

InTxnPc == {"check", "insert", "commit", "intent", "update"}
Pcs == InTxnPc \cup {"idle", "charge", "connect", "lock", "record", "find",
                     "findId", "settle", "mark", "done", "dead"}
Statuses == {"none", "SUCCESS", "REFUNDED", "FAILED"}
Replies == {"SUCCESS", "REFUNDED", "FAILED", "INTERNAL",
            "refunded", "no payment yet", "already refunded",
            "nothing to refund", "NOT_FOUND", "FAILED_PRECONDITION"}

Init ==
  /\ pc = [c \in Calls |-> "idle"]
  /\ attempt = [c \in ChargeCalls |-> 0]
  /\ seen = [c \in ChargeCalls |-> FALSE]
  /\ matched = [c \in RefundCalls |-> {}]
  /\ target = [c \in IdRefundCalls |-> None]
  /\ lock = [k \in Keys |-> None]
  /\ rows = [r \in RowIds |-> "none"]
  /\ refundedAt = [r \in RowIds |-> None]
  /\ intents = {}
  /\ captured = {}
  /\ reply = [c \in Calls |-> None]
  /\ dbErrors = 0
  /\ crashes = 0
-----------------------------------------------------------------------------
Key(c) == LockKey[OrderOf[c]]
Goto(c, label) == pc' = [pc EXCEPT ![c] = label]
Answer(c, r) ==
  /\ Goto(c, "done")
  /\ reply' = [reply EXCEPT ![c] = r]

DbFails ==
  /\ dbErrors < MaxDbErrors
  /\ dbErrors' = dbErrors + 1

(* A transaction keeps its connection from pool.connect() to release(), and *)
(* so does a statement that waits for a row lock.  A statement that does   *)
(* not wait is one step and only needs a connection to be free.            *)
Connections == {c \in Calls : pc[c] \in InTxnPc \cup {"lock", "mark"}}
SlotFree == Cardinality(Connections) < PoolSize

(* Mutant: the advisory lock is not waited for. *)
LockIgnored(c) == TRUE
LockFree(c) == lock[Key(c)] = None

ReleaseLock(c) ==
  lock' = [k \in Keys |-> IF lock[k] = c THEN None ELSE lock[k]]
-----------------------------------------------------------------------------
(* Mutant: `attempt <= maxRetries` re-tested without the last iteration. *)
OneAttemptTooMany(c) ==
  /\ attempt' = [attempt EXCEPT ![c] = attempt[c] + 1]
  /\ Goto(c, IF attempt[c] <= MaxRetries THEN "charge" ELSE "record")

(* The head of the retry loop of processPayment, reached at its entry and  *)
(* from its catch block; the backoff sleep only delays the next attempt.   *)
NextAttempt(c) ==
  IF attempt[c] < MaxRetries
  THEN /\ attempt' = [attempt EXCEPT ![c] = attempt[c] + 1]
       /\ Goto(c, "charge")
  ELSE /\ UNCHANGED attempt
       /\ Goto(c, "record")

StartCharge(c) ==
  /\ pc[c] = "idle"
  /\ NextAttempt(c)
  /\ UNCHANGED <<seen, matched, target, lock, tables, captured, reply, dbErrors, crashes>>

GatewayCaptures(c) ==
  /\ pc[c] = "charge"
  /\ captured' = captured \cup {<<c, attempt[c]>>}
  /\ Goto(c, "connect")
  /\ UNCHANGED <<locals, lock, tables, reply, dbErrors, crashes>>

GatewayDeclines(c) ==
  /\ pc[c] = "charge"
  /\ NextAttempt(c)
  /\ UNCHANGED <<seen, matched, target, lock, tables, captured, reply, dbErrors, crashes>>
-----------------------------------------------------------------------------
(* withOrderLock: pool.connect() and BEGIN, then the advisory lock. *)
BeginTxn(c) ==
  /\ pc[c] = "connect"
  /\ SlotFree
  /\ Goto(c, "lock")
  /\ UNCHANGED <<locals, lock, tables, captured, reply, dbErrors, crashes>>

AcquireOrderLock(c) ==
  /\ pc[c] = "lock"
  /\ LockFree(c)
  /\ lock' = [lock EXCEPT ![Key(c)] = c]
  /\ Goto(c, IF c \in ChargeCalls THEN "check" ELSE "intent")
  /\ UNCHANGED <<locals, tables, captured, reply, dbErrors, crashes>>

(* createChargedPayment: SELECT 1 FROM refund_intents, then the INSERT. *)
CheckIntent(c) ==
  /\ pc[c] = "check"
  /\ seen' = [seen EXCEPT ![c] = OrderOf[c] \in intents]
  /\ Goto(c, "insert")
  /\ UNCHANGED <<attempt, matched, target, lock, tables, captured, reply, dbErrors, crashes>>

InsertPayment(c) ==
  /\ pc[c] = "insert"
  /\ OrderOf[c] \notin Oversized
  /\ Goto(c, "commit")
  /\ UNCHANGED <<locals, lock, tables, captured, reply, dbErrors, crashes>>

(* The row becomes visible: SUCCESS, or REFUNDED when the intent was seen. *)
ChargedStatus(c) == IF seen[c] THEN "REFUNDED" ELSE "SUCCESS"

(* Mutant: a charge whose refund was requested is not recorded at all. *)
RecordUnlessRefunded(c) ==
  /\ rows' = [rows EXCEPT ![<<c, attempt[c]>>] = IF seen[c] THEN "none" ELSE "SUCCESS"]
  /\ UNCHANGED <<refundedAt, intents>>
RecordCharge(c) ==
  /\ rows' = [rows EXCEPT ![<<c, attempt[c]>>] = ChargedStatus(c)]
  /\ refundedAt' = [refundedAt EXCEPT ![<<c, attempt[c]>>] = IF seen[c] THEN c ELSE None]
  /\ UNCHANGED intents

(* Mutant: no `return payment` in the try block, so the loop goes on.      *)
CommitAndGoOn(c) ==
  /\ pc[c] = "commit"
  /\ RecordCharge(c)
  /\ ReleaseLock(c)
  /\ NextAttempt(c)
  /\ UNCHANGED <<seen, matched, target, captured, reply, dbErrors, crashes>>
CommitCharge(c) ==
  /\ pc[c] = "commit"
  /\ RecordCharge(c)
  /\ ReleaseLock(c)
  /\ Answer(c, ChargedStatus(c))
  /\ UNCHANGED <<locals, captured, dbErrors, crashes>>

(* Any await of the transaction may throw: ROLLBACK, and the catch block of *)
(* the retry loop.  An amount that does not fit fails without any fault.   *)
ChargeTxnFails(c) ==
  /\ pc[c] \in InTxnPc \cup {"connect", "lock"}
  /\ \/ DbFails
     \/ pc[c] = "insert" /\ OrderOf[c] \in Oversized /\ UNCHANGED dbErrors
  /\ ReleaseLock(c)
  /\ NextAttempt(c)
  /\ UNCHANGED <<seen, matched, target, tables, captured, reply, crashes>>

(* The connection is lost after Postgres applied the COMMIT: the row is    *)
(* there and the loop charges again.                                       *)
ChargeCommitUnknown(c) ==
  /\ pc[c] = "commit"
  /\ DbFails
  /\ RecordCharge(c)
  /\ ReleaseLock(c)
  /\ NextAttempt(c)
  /\ UNCHANGED <<seen, matched, target, captured, reply, crashes>>

(* repository.create: the FAILED row, one statement on the pool.  With no  *)
(* attempt made, `lastError` is undefined and reading its message throws.  *)
RecordFailed(c) ==
  /\ pc[c] = "record"
  /\ SlotFree
  /\ attempt[c] > 0
  /\ OrderOf[c] \notin Oversized
  /\ rows' = [rows EXCEPT ![<<c, 0>>] = "FAILED"]
  /\ \/ Answer(c, "FAILED") /\ UNCHANGED dbErrors
     \/ Answer(c, "INTERNAL") /\ DbFails
  /\ UNCHANGED <<locals, lock, refundedAt, intents, captured, crashes>>

RecordFails(c) ==
  /\ pc[c] = "record"
  /\ \/ DbFails
     \/ (attempt[c] = 0 \/ OrderOf[c] \in Oversized) /\ UNCHANGED dbErrors
  /\ Answer(c, "INTERNAL")
  /\ UNCHANGED <<locals, lock, tables, captured, crashes>>
-----------------------------------------------------------------------------
StartRefund(c) ==
  /\ pc[c] = "idle"
  /\ Goto(c, "connect")
  /\ UNCHANGED <<locals, lock, tables, captured, reply, dbErrors, crashes>>

(* requestRefundByOrderId: INSERT the intent ON CONFLICT DO NOTHING, UPDATE *)
(* the SUCCESS rows.  Neither is visible before the COMMIT; the UPDATE locks *)
(* the rows it matched.                                                    *)
WriteIntent(c) ==
  /\ pc[c] = "intent"
  /\ Goto(c, "update")
  /\ UNCHANGED <<locals, lock, tables, captured, reply, dbErrors, crashes>>

(* Mutant: WHERE order_id = $1, without the condition on the status. *)
AllChargedRows(o) == {r \in RowIds : RowOrder(r) = o /\ rows[r] \in {"SUCCESS", "REFUNDED"}}
RefundableRows(o) == {r \in RowIds : RowOrder(r) = o /\ rows[r] = "SUCCESS"}

(* Mutant: the UPDATE is sent to the pool and not to the transaction's     *)
(* client, so it needs a second connection.                                *)
UpdateOnPool(c) ==
  /\ pc[c] = "update"
  /\ SlotFree
  /\ matched' = [matched EXCEPT ![c] = RefundableRows(OrderOf[c])]
  /\ Goto(c, "commit")
  /\ UNCHANGED <<attempt, seen, target, lock, tables, captured, reply, dbErrors, crashes>>
UpdateRows(c) ==
  /\ pc[c] = "update"
  /\ matched' = [matched EXCEPT ![c] = RefundableRows(OrderOf[c])]
  /\ Goto(c, "commit")
  /\ UNCHANGED <<attempt, seen, target, lock, tables, captured, reply, dbErrors, crashes>>

MarkRows(S, c) ==
  /\ rows' = [r \in RowIds |-> IF r \in S THEN "REFUNDED" ELSE rows[r]]
  /\ refundedAt' = [r \in RowIds |-> IF r \in S THEN c ELSE refundedAt[r]]

(* Mutant: the intent is only kept when there was something to refund. *)
RefundWithoutIntent(c) ==
  /\ MarkRows(matched[c], c)
  /\ intents' = IF matched[c] = {} THEN intents ELSE intents \cup {OrderOf[c]}
ApplyRefund(c) ==
  /\ MarkRows(matched[c], c)
  /\ intents' = intents \cup {OrderOf[c]}

(* refundByOrderId: rows came back, or the existing ones are looked up. *)
CommitRefund(c) ==
  /\ pc[c] = "commit"
  /\ ApplyRefund(c)
  /\ ReleaseLock(c)
  /\ IF matched[c] = {}
     THEN Goto(c, "find") /\ UNCHANGED reply
     ELSE Answer(c, "refunded")
  /\ UNCHANGED <<locals, captured, dbErrors, crashes>>

RefundTxnFails(c) ==
  /\ pc[c] \in InTxnPc \cup {"connect", "lock"}
  /\ DbFails
  /\ ReleaseLock(c)
  /\ Answer(c, "INTERNAL")
  /\ UNCHANGED <<locals, tables, captured, crashes>>

RefundCommitUnknown(c) ==
  /\ pc[c] = "commit"
  /\ DbFails
  /\ ApplyRefund(c)
  /\ ReleaseLock(c)
  /\ Answer(c, "INTERNAL")
  /\ UNCHANGED <<locals, captured, crashes>>

FindByOrder(c) ==
  /\ pc[c] = "find"
  /\ SlotFree
  /\ LET existing == {r \in RowIds : RowOrder(r) = OrderOf[c] /\ rows[r] # "none"}
     IN  Answer(c, IF existing = {} THEN "no payment yet"
                   ELSE IF \E r \in existing : rows[r] = "REFUNDED"
                        THEN "already refunded"
                        ELSE "nothing to refund")
  /\ UNCHANGED <<locals, lock, tables, captured, dbErrors, crashes>>
-----------------------------------------------------------------------------
StartRefundById(c) ==
  /\ pc[c] = "idle"
  /\ \E r \in RowIds : target' = [target EXCEPT ![c] = r]
  /\ Goto(c, "findId")
  /\ UNCHANGED <<attempt, seen, matched, lock, tables, captured, reply, dbErrors, crashes>>

Refundable(r) == rows[r] = "SUCCESS"

(* refundPayment: findById and the two checks; then it sleeps 500 ms. *)
FindById(c) ==
  /\ pc[c] = "findId"
  /\ SlotFree
  /\ \/ /\ Refundable(target[c])
        /\ Goto(c, "settle")
        /\ UNCHANGED reply
     \/ /\ ~Refundable(target[c])
        /\ Answer(c, IF rows[target[c]] = "none" THEN "NOT_FOUND" ELSE "FAILED_PRECONDITION")
  /\ UNCHANGED <<locals, lock, tables, captured, dbErrors, crashes>>

Settle(c) ==
  /\ pc[c] = "settle"
  /\ SlotFree
  /\ Goto(c, "mark")
  /\ UNCHANGED <<locals, lock, tables, captured, reply, dbErrors, crashes>>

(* markRefunded: UPDATE by id, whatever the status is by now; it waits for *)
(* the row lock of a transaction that has matched the row.                 *)
RowUnlocked(r) == \A d \in RefundCalls : pc[d] = "commit" => r \notin matched[d]

MarkRefunded(c) ==
  /\ pc[c] = "mark"
  /\ RowUnlocked(target[c])
  /\ MarkRows({target[c]}, c)
  /\ \/ Answer(c, "refunded") /\ UNCHANGED dbErrors
     \/ Answer(c, "INTERNAL") /\ DbFails
  /\ UNCHANGED <<locals, lock, intents, captured, crashes>>

(* A statement outside a transaction throws: the handler answers INTERNAL. *)
QueryFails(c) ==
  /\ pc[c] \in {"find", "findId", "settle", "mark"}
  /\ DbFails
  /\ Answer(c, "INTERNAL")
  /\ UNCHANGED <<locals, lock, tables, captured, crashes>>
-----------------------------------------------------------------------------
(* The process dies, or the forced exit of the shutdown hits: no request   *)
(* in progress is answered, Postgres rolls back what was not committed.    *)
Active(c) == pc[c] \notin {"idle", "done", "dead"}

Crash ==
  /\ crashes < MaxCrashes
  /\ \E c \in Calls : Active(c)
  /\ crashes' = crashes + 1
  /\ pc' = [c \in Calls |-> IF Active(c) THEN "dead" ELSE pc[c]]
  /\ lock' = [k \in Keys |-> None]
  /\ UNCHANGED <<locals, tables, captured, reply, dbErrors>>

Ended(c) == pc[c] \in {"done", "dead"}

AllAnswered ==
  /\ \A c \in Calls : Ended(c)
  /\ UNCHANGED vars

ChargeStep(c) ==
  \/ GatewayCaptures(c) \/ GatewayDeclines(c)
  \/ BeginTxn(c) \/ AcquireOrderLock(c)
  \/ CheckIntent(c) \/ InsertPayment(c) \/ CommitCharge(c)
  \/ ChargeTxnFails(c) \/ ChargeCommitUnknown(c)
  \/ RecordFailed(c) \/ RecordFails(c)

RefundStep(c) ==
  \/ BeginTxn(c) \/ AcquireOrderLock(c)
  \/ WriteIntent(c) \/ UpdateRows(c) \/ CommitRefund(c)
  \/ RefundTxnFails(c) \/ RefundCommitUnknown(c)
  \/ FindByOrder(c) \/ QueryFails(c)

IdRefundStep(c) ==
  \/ FindById(c) \/ Settle(c) \/ MarkRefunded(c) \/ QueryFails(c)

Next ==
  \/ \E c \in ChargeCalls : StartCharge(c) \/ ChargeStep(c)
  \/ \E c \in RefundCalls : StartRefund(c) \/ RefundStep(c)
  \/ \E c \in IdRefundCalls : StartRefundById(c) \/ IdRefundStep(c)
  \/ Crash
  \/ AllAnswered

(* The event loop and Postgres keep going: a request that can take a step  *)
(* takes one.  Nothing obliges a client to send a request.                 *)
Fairness ==
  /\ \A c \in ChargeCalls : WF_vars(ChargeStep(c))
  /\ \A c \in RefundCalls : WF_vars(RefundStep(c))
  /\ \A c \in IdRefundCalls : WF_vars(IdRefundStep(c))

Spec == Init /\ [][Next]_vars /\ Fairness
-----------------------------------------------------------------------------
(* Every variable keeps to its type. *)
TypeOK ==
  /\ pc \in [Calls -> Pcs]
  /\ attempt \in [ChargeCalls -> 0 .. MaxRetries]
  /\ seen \in [ChargeCalls -> BOOLEAN]
  /\ matched \in [RefundCalls -> SUBSET RowIds]
  /\ target \in [IdRefundCalls -> RowIds \cup {None}]
  /\ lock \in [Keys -> TxnCalls \cup {None}]
  /\ rows \in [RowIds -> Statuses]
  /\ refundedAt \in [RowIds -> Calls \cup {None}]
  /\ intents \subseteq Orders
  /\ captured \subseteq RowIds
  /\ reply \in [Calls -> Replies \cup {None}]
  /\ dbErrors \in 0 .. MaxDbErrors
  /\ crashes \in 0 .. MaxCrashes

(* Money is never kept for an order whose refund was requested, in whatever *)
(* order the charge and the compensation reach the database                *)
(* (payment.repository.js, withOrderLock and createChargedPayment).        *)
RefundIntentHonoured ==
  \A r \in RowIds : rows[r] = "SUCCESS" => RowOrder(r) \notin intents

(* A RefundByOrderId that was answered without an error is final: its      *)
(* intent is on record, so nothing charged for the order is kept, not even *)
(* a charge that was still with the gateway when the answer was given.     *)
RefundAnswerIsFinal ==
  \A c \in RefundCalls :
    pc[c] = "done" /\ reply[c] # "INTERNAL" =>
      /\ OrderOf[c] \in intents
      /\ RefundableRows(OrderOf[c]) = {}

(* RefundByOrderId may be repeated: a payment already refunded is never    *)
(* refunded again, its refunded_at is written once.                        *)
RefundedOnce ==
  [][\A r \in RowIds : rows[r] = "REFUNDED" => refundedAt'[r] = refundedAt[r]]_vars

(* The rows of a request that say the gateway took money, and what it took. *)
KeptOf(c) == {r \in RowsOf(c) : rows[r] \in {"SUCCESS", "REFUNDED"}}
CapturedOf(c) == captured \cap RowsOf(c)

(* What a request was answered agrees with the tables: a charge reported    *)
(* SUCCESS or REFUNDED has its row, one reported REFUNDED has its intent,   *)
(* and one reported FAILED or INTERNAL has a charge in the table only for  *)
(* each COMMIT whose answer was lost.                                      *)
AnswerMatchesTables ==
  /\ \A c \in ChargeCalls : pc[c] = "done" =>
       /\ reply[c] = "SUCCESS" => rows[<<c, attempt[c]>>] \in {"SUCCESS", "REFUNDED"}
       /\ reply[c] = "REFUNDED" =>
            rows[<<c, attempt[c]>>] = "REFUNDED" /\ OrderOf[c] \in intents
       /\ reply[c] = "FAILED" => rows[<<c, 0>>] = "FAILED"
       /\ reply[c] \in {"FAILED", "INTERNAL"} => Cardinality(KeptOf(c)) <= dbErrors
  /\ \A c \in RefundCalls :
       pc[c] = "done" /\ reply[c] \in {"refunded", "already refunded"} =>
         \E r \in RowIds : RowOrder(r) = OrderOf[c] /\ rows[r] = "REFUNDED"

(* The retry loop charges again for a cause only: each charge the gateway  *)
(* captures for a request beyond its first costs a failed statement or     *)
(* COMMIT, never a charge that was recorded or declined; and of the charges *)
(* of a request that was answered, each one without a row does.  (An amount *)
(* that does not fit is the exception, see AlwaysRecorded.)                *)
ExtraChargesHaveACause ==
  \A c \in ChargeCalls : OrderOf[c] \notin Oversized =>
    /\ Cardinality(CapturedOf(c)) <= 1 + dbErrors
    /\ pc[c] = "done" => Cardinality(CapturedOf(c) \ KeptOf(c)) <= dbErrors

(* Every request that was started ends, unless the process dies under it:  *)
(* no order of locks and pool connections leaves requests waiting on each  *)
(* other.                                                                  *)
EveryRequestEnds == \A c \in Calls : pc[c] # "idle" ~> Ended(c)

(* payment-service keeps the promise of PaymentLedger. *)
Ledger == INSTANCE PaymentLedger WITH
  Charges <- RowIds,
  ChargeOrder <- [r \in RowIds |-> RowOrder(r)],
  kept <- {r \in RowIds : rows[r] = "SUCCESS"},
  returned <- {r \in RowIds : rows[r] = "REFUNDED"},
  cancelled <- intents
Implements == Ledger!Spec

(* payment.service.js:18 says a payment record is always stored, SUCCESS or *)
(* FAILED, so an answered ProcessPayment should have left one.             *)
AlwaysRecorded ==
  \A c \in ChargeCalls : pc[c] = "done" => \E r \in RowIds : r[1] = c /\ rows[r] # "none"

(* payment.service.js:82 says only a payment that is SUCCESS is refunded.  *)
OnlySuccessRefunded ==
  [][\A r \in RowIds : refundedAt'[r] # refundedAt[r] => rows[r] \in {"none", "SUCCESS"}]_vars
-----------------------------------------------------------------------------
(* The strengthening that makes RefundIntentHonoured inductive: a request   *)
(* between AcquireOrderLock and the end of its transaction is the holder of *)
(* the lock of its order, ...                                              *)
LockHeld ==
  /\ \A c \in TxnCalls : pc[c] \in InTxnPc => lock[Key(c)] = c
  /\ \A k \in Keys : lock[k] # None => Key(lock[k]) = k /\ pc[lock[k]] \in InTxnPc

(* ... what it read under the lock still holds when it commits, ...        *)
SeenIsCurrent ==
  \A c \in ChargeCalls :
    pc[c] \in {"insert", "commit"} => seen[c] = (OrderOf[c] \in intents)
MatchedIsCurrent ==
  \A c \in RefundCalls :
    pc[c] = "commit" => matched[c] = RefundableRows(OrderOf[c])

(* ... and RefundPayment is past its check only for a charged payment.     *)
TargetIsCharged ==
  \A c \in IdRefundCalls :
    /\ pc[c] \in {"findId", "settle", "mark"} => target[c] \in RowIds
    /\ pc[c] \in {"settle", "mark"} => rows[target[c]] \in {"SUCCESS", "REFUNDED"}

(* Each request is at a statement of its own handler, and the row its      *)
(* current attempt would insert is not there yet.                          *)
ChargePc == {"idle", "charge", "connect", "lock", "check", "insert", "commit",
             "record", "done", "dead"}
RefundPc == {"idle", "connect", "lock", "intent", "update", "commit", "find",
             "done", "dead"}
IdRefundPc == {"idle", "findId", "settle", "mark", "done", "dead"}
Placed ==
  /\ \A c \in ChargeCalls : pc[c] \in ChargePc
  /\ \A c \in RefundCalls : pc[c] \in RefundPc
  /\ \A c \in IdRefundCalls : pc[c] \in IdRefundPc
AttemptIsNew ==
  \A c \in ChargeCalls :
    /\ \A r \in RowIds : r[1] = c /\ r[2] > attempt[c] => rows[r] = "none"
    /\ pc[c] \in {"charge", "connect", "lock", "check", "insert", "commit"} =>
         attempt[c] > 0 /\ rows[<<c, attempt[c]>>] = "none"
    /\ pc[c] \in ChargePc \ {"done", "dead"} => rows[<<c, 0>>] = "none"

IInv ==
  /\ TypeOK
  /\ Placed
  /\ LockHeld
  /\ SeenIsCurrent
  /\ MatchedIsCurrent
  /\ TargetIsCharged
  /\ AttemptIsNew
  /\ RefundIntentHonoured
-----------------------------------------------------------------------------
(* The further strengthening for what was answered (PaymentAnswerProofs):  *)
(* a ProcessPayment that has not ended paid for each row it kept, and for  *)
(* each capture but that of its current attempt, with a failure; a         *)
(* RefundByOrderId that looks rows up has committed its intent.            *)
OnTheWay == {"connect", "lock", "check", "insert", "commit"}

ChargeAnswered(c) ==
  /\ reply[c] = "SUCCESS" => rows[<<c, attempt[c]>>] \in {"SUCCESS", "REFUNDED"}
  /\ reply[c] = "REFUNDED" =>
       rows[<<c, attempt[c]>>] = "REFUNDED" /\ OrderOf[c] \in intents
  /\ reply[c] = "FAILED" => rows[<<c, 0>>] = "FAILED"
  /\ reply[c] \in {"FAILED", "INTERNAL"} => Cardinality(KeptOf(c)) <= dbErrors

CapturesCounted(c) ==
  /\ Cardinality(CapturedOf(c) \ {<<c, attempt[c]>>}) <= dbErrors
  /\ pc[c] \notin OnTheWay \cup {"done", "dead"} => Cardinality(CapturedOf(c)) <= dbErrors
  /\ pc[c] = "done" => Cardinality(CapturedOf(c) \ KeptOf(c)) <= dbErrors

ChargeSound(c) ==
  /\ pc[c] = "done" => ChargeAnswered(c)
  /\ pc[c] \notin {"done", "dead"} => Cardinality(KeptOf(c)) <= dbErrors
  /\ OrderOf[c] \notin Oversized => CapturesCounted(c)

RefundSound(c) ==
  /\ pc[c] = "find" \/ (pc[c] = "done" /\ reply[c] # "INTERNAL") => OrderOf[c] \in intents
  /\ pc[c] = "done" /\ reply[c] \in {"refunded", "already refunded"} =>
       \E r \in RowIds : RowOrder(r) = OrderOf[c] /\ rows[r] = "REFUNDED"

AnswersSound ==
  /\ \A c \in ChargeCalls : ChargeSound(c)
  /\ \A c \in RefundCalls : RefundSound(c)
=============================================================================
