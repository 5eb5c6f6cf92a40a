------------------------- MODULE PaymentServiceProofs -------------------------
(***************************************************************************)
(* Proofs about PaymentService for every number of orders, requests, lock  *)
(* keys, retries and failures.                                             *)
(***************************************************************************)
EXTENDS PaymentService, TLAPS

(* Types of the names the steps are built from, then one lemma per handler. *)
LEMMA RowIdsType ==
  ASSUME NEW r \in RowIds
  PROVE  /\ r[1] \in ChargeCalls
         /\ r[2] \in 0 .. MaxRetries
         /\ r = <<r[1], r[2]>>
         /\ RowOrder(r) \in Orders
  BY OrdersAssumption DEF RowIds, RowOrder, TxnCalls

(* The places a request of each kind may stand at.                         *)
LEMMA PcTypes ==
  /\ ChargeCalls \subseteq Calls
  /\ RefundCalls \subseteq Calls
  /\ IdRefundCalls \subseteq Calls
  /\ TxnCalls \subseteq Calls
  BY DEF Calls, TxnCalls

(* The loop goes on or gives up.                                           *)
LEMMA AttemptType ==
  ASSUME TypeOK, NEW c \in ChargeCalls, NextAttempt(c)
  PROVE  /\ attempt' \in [ChargeCalls -> 0 .. MaxRetries]
         /\ pc' \in [Calls -> Pcs]
  BY BoundsAssumption DEF TypeOK, NextAttempt, Goto, Pcs

(* The lock is free or somebody's.                                         *)
LEMMA ReleaseType ==
  ASSUME TypeOK, NEW c, ReleaseLock(c)
  PROVE  lock' \in [Keys -> TxnCalls \cup {None}]
  BY DEF TypeOK, ReleaseLock

(* An answer is one of those the handlers give.                            *)
LEMMA AnswerType ==
  ASSUME TypeOK, NEW c, NEW r \in Replies, Answer(c, r)
  PROVE  /\ pc' \in [Calls -> Pcs]
         /\ reply' \in [Calls -> Replies \cup {None}]
  BY DEF TypeOK, Answer, Goto, Pcs

(* The failures are counted up to their bound.                             *)
LEMMA DbFailsType ==
  ASSUME TypeOK, DbFails
  PROVE  dbErrors' \in 0 .. MaxDbErrors
  BY BoundsAssumption DEF TypeOK, DbFails

(* A charge that is recorded has a row of its own.                         *)
LEMMA RecordChargeType ==
  ASSUME TypeOK, NEW c \in ChargeCalls, RecordCharge(c)
  PROVE  /\ rows' \in [RowIds -> Statuses]
         /\ refundedAt' \in [RowIds -> Calls \cup {None}]
         /\ intents' \subseteq Orders
  BY DEF TypeOK, RecordCharge, ChargedStatus, Statuses, Calls

(* Rows that are refunded.                                                 *)
LEMMA MarkRowsType ==
  ASSUME TypeOK, NEW S, NEW c \in Calls, MarkRows(S, c)
  PROVE  /\ rows' \in [RowIds -> Statuses]
         /\ refundedAt' \in [RowIds -> Calls \cup {None}]
  BY DEF TypeOK, MarkRows, Statuses

(* An intent, and the rows it refunds.                                     *)
LEMMA ApplyRefundType ==
  ASSUME TypeOK, NEW c \in RefundCalls, ApplyRefund(c)
  PROVE  /\ rows' \in [RowIds -> Statuses]
         /\ refundedAt' \in [RowIds -> Calls \cup {None}]
         /\ intents' \subseteq Orders
  BY MarkRowsType, OrdersAssumption DEF TypeOK, ApplyRefund, TxnCalls, Calls

(* Every step of ProcessPayment.                                           *)
LEMMA ChargeStepType ==
  ASSUME TypeOK, NEW c \in ChargeCalls, StartCharge(c) \/ ChargeStep(c)
  PROVE  TypeOK'
<1> USE DEF tables, locals
<1>1. c \in Calls /\ c \in TxnCalls
  BY DEF Calls, TxnCalls
<1>2. CASE StartCharge(c)
  BY <1>2, AttemptType DEF TypeOK, StartCharge
<1>3. CASE GatewayCaptures(c)
  <2>1. <<c, attempt[c]>> \in RowIds
    BY DEF TypeOK, RowIds
  <2>2. captured' \subseteq RowIds
    BY <1>3, <2>1 DEF TypeOK, GatewayCaptures
  <2> QED
    BY <1>3, <2>2 DEF TypeOK, GatewayCaptures, Goto, Pcs
<1>4. CASE GatewayDeclines(c)
  BY <1>4, AttemptType DEF TypeOK, GatewayDeclines
<1>5. CASE BeginTxn(c)
  BY <1>5 DEF TypeOK, BeginTxn, Goto, Pcs
<1>6. CASE AcquireOrderLock(c)
  BY <1>1, <1>6 DEF TypeOK, AcquireOrderLock, Goto, Pcs, InTxnPc
<1>7. CASE CheckIntent(c)
  <2>1. seen' \in [ChargeCalls -> BOOLEAN]
    BY <1>7 DEF TypeOK, CheckIntent
  <2> QED
    BY <1>7, <2>1 DEF TypeOK, CheckIntent, Goto, Pcs, InTxnPc
<1>8. CASE InsertPayment(c)
  BY <1>8 DEF TypeOK, InsertPayment, Goto, Pcs, InTxnPc
<1>9. CASE CommitCharge(c)
  <2>1. ChargedStatus(c) \in Replies
    BY DEF ChargedStatus, Replies
  <2> QED
    BY <1>9, <2>1, AnswerType, ReleaseType, RecordChargeType DEF TypeOK, CommitCharge
<1>10. CASE ChargeTxnFails(c)
  BY <1>10, AttemptType, ReleaseType, DbFailsType DEF TypeOK, ChargeTxnFails
<1>11. CASE ChargeCommitUnknown(c)
  BY <1>11, AttemptType, ReleaseType, DbFailsType, RecordChargeType
  DEF TypeOK, ChargeCommitUnknown
<1>12. CASE RecordFailed(c)
  <2>1. rows' \in [RowIds -> Statuses]
    BY <1>12 DEF TypeOK, RecordFailed, Statuses
  <2>2. /\ pc' \in [Calls -> Pcs]
        /\ reply' \in [Calls -> Replies \cup {None}]
    BY <1>12, AnswerType DEF RecordFailed, Replies
  <2>3. dbErrors' \in 0 .. MaxDbErrors
    BY <1>12, DbFailsType DEF RecordFailed, TypeOK
  <2> QED
    BY <1>12, <2>1, <2>2, <2>3 DEF TypeOK, RecordFailed
<1>13. CASE RecordFails(c)
  <2>1. dbErrors' \in 0 .. MaxDbErrors
    BY <1>13, DbFailsType DEF RecordFails, TypeOK
  <2>2. "INTERNAL" \in Replies
    BY DEF Replies
  <2> QED
    BY <1>13, <2>1, <2>2, AnswerType DEF TypeOK, RecordFails
<1> QED
  BY <1>2, <1>3, <1>4, <1>5, <1>6, <1>7, <1>8, <1>9, <1>10, <1>11, <1>12, <1>13
  DEF ChargeStep

(* Every step of RefundByOrderId.                                          *)
LEMMA RefundStepType ==
  ASSUME TypeOK, NEW c \in RefundCalls, StartRefund(c) \/ RefundStep(c)
  PROVE  TypeOK'
<1> USE DEF tables, locals
<1>1. c \in Calls /\ c \in TxnCalls
  BY DEF Calls, TxnCalls
<1>2. "INTERNAL" \in Replies /\ "refunded" \in Replies
  BY DEF Replies
<1>3. CASE StartRefund(c)
  BY <1>3 DEF TypeOK, StartRefund, Goto, Pcs
<1>4. CASE BeginTxn(c)
  BY <1>4 DEF TypeOK, BeginTxn, Goto, Pcs
<1>5. CASE AcquireOrderLock(c)
  BY <1>1, <1>5 DEF TypeOK, AcquireOrderLock, Goto, Pcs, InTxnPc
<1>6. CASE WriteIntent(c)
  BY <1>6 DEF TypeOK, WriteIntent, Goto, Pcs, InTxnPc
<1>7. CASE UpdateRows(c)
  BY <1>7 DEF TypeOK, UpdateRows, RefundableRows, Goto, Pcs, InTxnPc
<1>8. CASE CommitRefund(c)
  <2>1. /\ pc' \in [Calls -> Pcs]
        /\ reply' \in [Calls -> Replies \cup {None}]
    <3>1. CASE matched[c] = {}
      BY <1>8, <3>1 DEF TypeOK, CommitRefund, Goto, Pcs
    <3>2. CASE matched[c] # {}
      BY <1>2, <1>8, <3>2, AnswerType DEF CommitRefund
    <3> QED
      BY <3>1, <3>2
  <2> QED
    BY <1>8, <2>1, ReleaseType, ApplyRefundType DEF TypeOK, CommitRefund
<1>9. CASE RefundTxnFails(c)
  BY <1>2, <1>9, AnswerType, ReleaseType, DbFailsType DEF TypeOK, RefundTxnFails
<1>10. CASE RefundCommitUnknown(c)
  BY <1>2, <1>10, AnswerType, ReleaseType, DbFailsType, ApplyRefundType
  DEF TypeOK, RefundCommitUnknown
<1>11. CASE FindByOrder(c)
  <2>1. /\ pc' \in [Calls -> Pcs]
        /\ reply' \in [Calls -> Replies \cup {None}]
    BY <1>11, AnswerType DEF FindByOrder, Replies
  <2> QED
    BY <1>11, <2>1 DEF TypeOK, FindByOrder
<1>12. CASE QueryFails(c)
  BY <1>2, <1>12, AnswerType, DbFailsType DEF TypeOK, QueryFails
<1> QED
  BY <1>3, <1>4, <1>5, <1>6, <1>7, <1>8, <1>9, <1>10, <1>11, <1>12 DEF RefundStep

(* Every step of RefundPayment.                                            *)
LEMMA IdRefundStepType ==
  ASSUME TypeOK, NEW c \in IdRefundCalls, StartRefundById(c) \/ IdRefundStep(c)
  PROVE  TypeOK'
<1> USE DEF tables, locals
<1>1. c \in Calls
  BY DEF Calls
<1>2. /\ "INTERNAL" \in Replies /\ "refunded" \in Replies
      /\ "NOT_FOUND" \in Replies /\ "FAILED_PRECONDITION" \in Replies
  BY DEF Replies
<1>3. CASE StartRefundById(c)
  BY <1>3 DEF TypeOK, StartRefundById, Goto, Pcs
<1>4. CASE FindById(c)
  <2>1. CASE Refundable(target[c]) /\ Goto(c, "settle") /\ UNCHANGED reply
    BY <1>4, <2>1 DEF TypeOK, FindById, Goto, Pcs
  <2>2. CASE Answer(c, "NOT_FOUND") \/ Answer(c, "FAILED_PRECONDITION")
    <3>1. /\ pc' \in [Calls -> Pcs]
          /\ reply' \in [Calls -> Replies \cup {None}]
      BY <1>2, <2>2, AnswerType
    <3> QED
      BY <1>4, <3>1 DEF TypeOK, FindById
  <2> QED
    BY <1>4, <2>1, <2>2 DEF FindById
<1>5. CASE Settle(c)
  BY <1>5 DEF TypeOK, Settle, Goto, Pcs
<1>6. CASE MarkRefunded(c)
  <2>1. /\ pc' \in [Calls -> Pcs]
        /\ reply' \in [Calls -> Replies \cup {None}]
    BY <1>2, <1>6, AnswerType DEF MarkRefunded
  <2>2. dbErrors' \in 0 .. MaxDbErrors
    BY <1>6, DbFailsType DEF MarkRefunded, TypeOK
  <2> QED
    BY <1>1, <1>6, <2>1, <2>2, MarkRowsType DEF TypeOK, MarkRefunded
<1>7. CASE QueryFails(c)
  BY <1>2, <1>7, AnswerType, DbFailsType DEF TypeOK, QueryFails
<1> QED
  BY <1>3, <1>4, <1>5, <1>6, <1>7 DEF IdRefundStep

LEMMA InitType == Init => TypeOK
  BY BoundsAssumption DEF Init, TypeOK, Pcs, Statuses

LEMMA NextType == TypeOK /\ [Next]_vars => TypeOK'
<1> SUFFICES ASSUME TypeOK, [Next]_vars PROVE TypeOK'
  OBVIOUS
<1>1. CASE \E c \in ChargeCalls : StartCharge(c) \/ ChargeStep(c)
  BY <1>1, ChargeStepType
<1>2. CASE \E c \in RefundCalls : StartRefund(c) \/ RefundStep(c)
  BY <1>2, RefundStepType
<1>3. CASE \E c \in IdRefundCalls : StartRefundById(c) \/ IdRefundStep(c)
  BY <1>3, IdRefundStepType
<1>4. CASE Crash
  BY <1>4, BoundsAssumption DEF TypeOK, Crash, Pcs, locals, tables
<1>5. CASE UNCHANGED vars
  BY <1>5 DEF TypeOK, vars, locals, tables
<1> QED
  BY <1>1, <1>2, <1>3, <1>4, <1>5 DEF Next, AllAnswered

(* Every variable of payment-service keeps to its type, whatever the       *)
(* number of orders, requests and failures.                                *)
THEOREM TypeCorrect == Spec => []TypeOK
<1>1. Init => TypeOK
  BY InitType
<1>2. TypeOK /\ [Next]_vars => TypeOK'
  BY NextType
<1> QED
  BY <1>1, <1>2, PTL DEF Spec
-----------------------------------------------------------------------------
(* A step of a request moves its own program counter, within its handler.  *)
LEMMA ChargeMoves ==
  ASSUME TypeOK, NEW c \in ChargeCalls, StartCharge(c) \/ ChargeStep(c)
  PROVE  \E l \in ChargePc \ {"idle"} : pc' = [pc EXCEPT ![c] = l]
BY DEF StartCharge, ChargeStep, NextAttempt, GatewayCaptures, GatewayDeclines,
       BeginTxn, AcquireOrderLock, CheckIntent, InsertPayment, CommitCharge,
       ChargeTxnFails, ChargeCommitUnknown, RecordFailed, RecordFails,
       Goto, Answer, ChargePc

LEMMA RefundMoves ==
  ASSUME TypeOK, NEW c \in RefundCalls, StartRefund(c) \/ RefundStep(c)
  PROVE  \E l \in RefundPc \ {"idle"} : pc' = [pc EXCEPT ![c] = l]
BY CallsAssumption DEF StartRefund, RefundStep, BeginTxn, AcquireOrderLock, WriteIntent,
       UpdateRows, CommitRefund, RefundTxnFails, RefundCommitUnknown,
       FindByOrder, QueryFails, Goto, Answer, RefundPc

LEMMA IdRefundMoves ==
  ASSUME TypeOK, NEW c \in IdRefundCalls, StartRefundById(c) \/ IdRefundStep(c)
  PROVE  \E l \in IdRefundPc \ {"idle"} : pc' = [pc EXCEPT ![c] = l]
BY DEF StartRefundById, IdRefundStep, FindById, Settle, MarkRefunded,
       QueryFails, Goto, Answer, IdRefundPc

LEMMA PlacedStep ==
  ASSUME TypeOK, Placed, [Next]_vars
  PROVE  Placed'
<1> USE CallsAssumption DEF Placed, TypeOK, Calls
<1>1. CASE \E c \in ChargeCalls : StartCharge(c) \/ ChargeStep(c)
  BY <1>1, ChargeMoves
<1>2. CASE \E c \in RefundCalls : StartRefund(c) \/ RefundStep(c)
  BY <1>2, RefundMoves
<1>3. CASE \E c \in IdRefundCalls : StartRefundById(c) \/ IdRefundStep(c)
  BY <1>3, IdRefundMoves
<1>4. CASE Crash
  BY <1>4 DEF Crash, ChargePc, RefundPc, IdRefundPc
<1>5. CASE UNCHANGED vars
  BY <1>5 DEF vars
<1> QED
  BY <1>1, <1>2, <1>3, <1>4, <1>5 DEF Next, AllAnswered

(* The three things a step of one request can do with the locks.           *)
LEMMA LockKept ==
  ASSUME TypeOK, LockHeld, NEW c \in Calls, NEW l \in Pcs,
         pc' = [pc EXCEPT ![c] = l],
         UNCHANGED lock, pc[c] \in InTxnPc <=> l \in InTxnPc
  PROVE  LockHeld'
BY DEF TypeOK, LockHeld, Key, Calls, TxnCalls

LEMMA LockReleased ==
  ASSUME TypeOK, LockHeld, NEW c \in TxnCalls, NEW l \in Pcs \ InTxnPc,
         pc' = [pc EXCEPT ![c] = l], ReleaseLock(c)
  PROVE  LockHeld'
BY OrdersAssumption, CallsAssumption
DEF TypeOK, LockHeld, ReleaseLock, Key, Calls, TxnCalls

LEMMA LockTaken ==
  ASSUME TypeOK, LockHeld, NEW c \in TxnCalls, AcquireOrderLock(c)
  PROVE  LockHeld'
BY OrdersAssumption, CallsAssumption
DEF TypeOK, LockHeld, AcquireOrderLock, LockFree, Goto, Key, InTxnPc, Calls, TxnCalls

LEMMA LockHeldStep ==
  ASSUME TypeOK, Placed, LockHeld, [Next]_vars
  PROVE  LockHeld'
<1> USE PcTypes
<1>1. ASSUME NEW c \in ChargeCalls, StartCharge(c) \/ ChargeStep(c)
      PROVE  LockHeld'
  <2>1. PICK l \in ChargePc : pc' = [pc EXCEPT ![c] = l]
    BY <1>1, ChargeMoves
  <2>2. l \in Pcs /\ pc'[c] = l
    BY <2>1 DEF ChargePc, Pcs, InTxnPc, TypeOK
  <2>3. CASE AcquireOrderLock(c)
    BY <2>3, LockTaken DEF TxnCalls
  <2>4. CASE CommitCharge(c) \/ ChargeTxnFails(c) \/ ChargeCommitUnknown(c)
    <3>1. ReleaseLock(c) /\ l \notin InTxnPc
      BY <2>2, <2>4 DEF CommitCharge, ChargeTxnFails, ChargeCommitUnknown,
         NextAttempt, Goto, Answer, InTxnPc, TypeOK
    <3> QED
      BY <2>1, <2>2, <3>1, LockReleased DEF TxnCalls
  <2>5. CASE \/ StartCharge(c) \/ GatewayCaptures(c) \/ GatewayDeclines(c)
             \/ BeginTxn(c) \/ CheckIntent(c) \/ InsertPayment(c)
             \/ RecordFailed(c) \/ RecordFails(c)
    <3>1. UNCHANGED lock /\ (pc[c] \in InTxnPc <=> l \in InTxnPc)
      BY <2>2, <2>5 DEF StartCharge, GatewayCaptures, GatewayDeclines, BeginTxn,
         CheckIntent, InsertPayment, RecordFailed, RecordFails,
         NextAttempt, Goto, Answer, InTxnPc, TypeOK
    <3> QED
      BY <2>1, <2>2, <3>1, LockKept
  <2> QED
    BY <1>1, <2>3, <2>4, <2>5 DEF ChargeStep
<1>2. ASSUME NEW c \in RefundCalls, StartRefund(c) \/ RefundStep(c)
      PROVE  LockHeld'
  <2>1. PICK l \in RefundPc : pc' = [pc EXCEPT ![c] = l]
    BY <1>2, RefundMoves
  <2>2. l \in Pcs /\ pc'[c] = l
    BY <2>1 DEF RefundPc, Pcs, InTxnPc, TypeOK
  <2>3. CASE AcquireOrderLock(c)
    BY <2>3, LockTaken DEF TxnCalls
  <2>4. CASE CommitRefund(c) \/ RefundTxnFails(c) \/ RefundCommitUnknown(c)
    <3>1. ReleaseLock(c) /\ l \notin InTxnPc
      BY <2>2, <2>4 DEF CommitRefund, RefundTxnFails, RefundCommitUnknown,
         Goto, Answer, InTxnPc, TypeOK
    <3> QED
      BY <2>1, <2>2, <3>1, LockReleased DEF TxnCalls
  <2>5. CASE \/ StartRefund(c) \/ BeginTxn(c) \/ WriteIntent(c) \/ UpdateRows(c)
             \/ FindByOrder(c) \/ QueryFails(c)
    <3>1. UNCHANGED lock /\ (pc[c] \in InTxnPc <=> l \in InTxnPc)
      BY <2>2, <2>5 DEF StartRefund, BeginTxn, WriteIntent, UpdateRows,
         FindByOrder, QueryFails, Goto, Answer, InTxnPc, TypeOK
    <3> QED
      BY <2>1, <2>2, <3>1, LockKept
  <2> QED
    BY <1>2, <2>3, <2>4, <2>5 DEF RefundStep
<1>3. ASSUME NEW c \in IdRefundCalls, StartRefundById(c) \/ IdRefundStep(c)
      PROVE  LockHeld'
  <2>1. PICK l \in IdRefundPc : pc' = [pc EXCEPT ![c] = l]
    BY <1>3, IdRefundMoves
  <2>2. l \in Pcs /\ l \notin InTxnPc /\ pc[c] \notin InTxnPc
    BY <2>1 DEF IdRefundPc, Pcs, InTxnPc, Placed
  <2>3. UNCHANGED lock
    BY <1>3 DEF StartRefundById, IdRefundStep, FindById, Settle, MarkRefunded, QueryFails
  <2> QED
    BY <2>1, <2>2, <2>3, LockKept
<1>4. CASE Crash
  BY <1>4 DEF Crash, LockHeld, TypeOK, Active, InTxnPc
<1>5. CASE UNCHANGED vars
  BY <1>5 DEF LockHeld, vars, Key
<1> QED
  BY <1>1, <1>2, <1>3, <1>4, <1>5 DEF Next, AllAnswered

(* Two transactions of one order never overlap.                            *)
LEMMA OneTxnPerOrder ==
  ASSUME LockHeld, NEW c \in TxnCalls, NEW d \in TxnCalls,
         OrderOf[c] = OrderOf[d], pc[c] \in InTxnPc, pc[d] \in InTxnPc
  PROVE  c = d
BY DEF LockHeld, Key
-----------------------------------------------------------------------------
(* What a step of each handler can do to the tables and to the locals the  *)
(* invariant speaks of.                                                    *)
LEMMA ChargeTables ==
  ASSUME TypeOK, NEW c \in ChargeCalls, StartCharge(c) \/ ChargeStep(c)
  PROVE  /\ UNCHANGED <<intents, matched, target>>
         /\ \/ UNCHANGED rows
            \/ /\ pc[c] = "commit"
               /\ rows' = [rows EXCEPT ![<<c, attempt[c]>>] = ChargedStatus(c)]
            \/ /\ pc[c] = "record"
               /\ rows' = [rows EXCEPT ![<<c, 0>>] = "FAILED"]
BY DEF StartCharge, ChargeStep, GatewayCaptures, GatewayDeclines,
       BeginTxn, AcquireOrderLock, CheckIntent, InsertPayment, CommitCharge,
       ChargeTxnFails, ChargeCommitUnknown, RecordFailed, RecordFails,
       RecordCharge, locals, tables

LEMMA ChargeRows ==
  ASSUME TypeOK, NEW c \in ChargeCalls, StartCharge(c) \/ ChargeStep(c),
         NEW r \in RowIds, rows'[r] # rows[r]
  PROVE  \/ r = <<c, attempt[c]>> /\ pc[c] = "commit" /\ rows'[r] = ChargedStatus(c)
         \/ r = <<c, 0>> /\ pc[c] = "record" /\ rows'[r] = "FAILED"
<1>1. CASE rows' = [rows EXCEPT ![<<c, attempt[c]>>] = ChargedStatus(c)] /\ pc[c] = "commit"
  BY <1>1 DEF TypeOK
<1>2. CASE rows' = [rows EXCEPT ![<<c, 0>>] = "FAILED"] /\ pc[c] = "record"
  BY <1>2 DEF TypeOK
<1> QED
  BY <1>1, <1>2, ChargeTables

LEMMA ChargeLocals ==
  ASSUME TypeOK, NEW c \in ChargeCalls, StartCharge(c) \/ ChargeStep(c)
  PROVE  /\ \A d \in ChargeCalls \ {c} : seen'[d] = seen[d] /\ attempt'[d] = attempt[d]
         /\ pc'[c] \in {"insert", "commit"} =>
              \/ pc[c] = "insert" /\ seen'[c] = seen[c]
              \/ seen'[c] = (OrderOf[c] \in intents)
BY DEF TypeOK, StartCharge, ChargeStep, GatewayCaptures, GatewayDeclines,
       BeginTxn, AcquireOrderLock, CheckIntent, InsertPayment, CommitCharge,
       ChargeTxnFails, ChargeCommitUnknown, RecordFailed, RecordFails,
       NextAttempt, Goto, Answer, locals, Calls

LEMMA RefundTables ==
  ASSUME TypeOK, NEW c \in RefundCalls, StartRefund(c) \/ RefundStep(c)
  PROVE  /\ UNCHANGED <<attempt, seen, target>>
         /\ \/ UNCHANGED <<rows, intents>>
            \/ /\ pc[c] = "commit"
               /\ pc'[c] # "commit"
               /\ rows' = [r \in RowIds |-> IF r \in matched[c] THEN "REFUNDED" ELSE rows[r]]
               /\ intents' = intents \cup {OrderOf[c]}
BY DEF TypeOK, StartRefund, RefundStep, BeginTxn, AcquireOrderLock, WriteIntent,
       UpdateRows, CommitRefund, RefundTxnFails, RefundCommitUnknown, FindByOrder,
       QueryFails, ApplyRefund, MarkRows, Goto, Answer, locals, tables, Calls

LEMMA RefundLocals ==
  ASSUME TypeOK, NEW c \in RefundCalls, StartRefund(c) \/ RefundStep(c)
  PROVE  /\ \A d \in RefundCalls \ {c} : matched'[d] = matched[d]
         /\ pc'[c] = "commit" =>
              matched'[c] = RefundableRows(OrderOf[c]) /\ UNCHANGED rows
BY CallsAssumption
DEF TypeOK, StartRefund, RefundStep, BeginTxn, AcquireOrderLock, WriteIntent,
    UpdateRows, CommitRefund, RefundTxnFails, RefundCommitUnknown, FindByOrder,
    QueryFails, Goto, Answer, locals, tables, Calls

LEMMA IdRefundTables ==
  ASSUME TypeOK, NEW c \in IdRefundCalls, StartRefundById(c) \/ IdRefundStep(c)
  PROVE  /\ UNCHANGED <<attempt, seen, matched, intents>>
         /\ \A d \in IdRefundCalls \ {c} : target'[d] = target[d]
         /\ \/ UNCHANGED rows
            \/ /\ pc[c] = "mark"
               /\ RowUnlocked(target[c])
               /\ rows' = [r \in RowIds |-> IF r = target[c] THEN "REFUNDED" ELSE rows[r]]
         /\ pc'[c] = "findId" => target'[c] \in RowIds
         /\ pc'[c] \in {"settle", "mark"} =>
              /\ target'[c] = target[c]
              /\ UNCHANGED rows
              /\ pc[c] = "settle" \/ (pc[c] = "findId" /\ Refundable(target[c]))
BY DEF TypeOK, StartRefundById, IdRefundStep, FindById, Settle, MarkRefunded,
       QueryFails, MarkRows, Goto, Answer, locals, tables, Calls

LEMMA CrashTables ==
  ASSUME TypeOK, Crash
  PROVE  /\ UNCHANGED <<attempt, seen, matched, target, rows, intents>>
         /\ \A c \in Calls : pc'[c] \in {"idle", "done", "dead"}
BY DEF Crash, TypeOK, Active, locals, tables
-----------------------------------------------------------------------------
(* The invariant is kept, one conjunct at a time.                          *)
LEMMA AttemptStep ==
  ASSUME TypeOK, Placed, AttemptIsNew, TargetIsCharged, MatchedIsCurrent, [Next]_vars
  PROVE  AttemptIsNew'
<1> USE PcTypes
<1>1. ASSUME NEW c \in ChargeCalls, StartCharge(c) \/ ChargeStep(c)
      PROVE  AttemptIsNew'
  <2>1. PICK l \in ChargePc \ {"idle"} : pc' = [pc EXCEPT ![c] = l]
    BY <1>1, ChargeMoves
  <2>2. \A d \in ChargeCalls \ {c} : pc'[d] = pc[d] /\ attempt'[d] = attempt[d]
    BY <1>1, <2>1, ChargeLocals DEF TypeOK
  <2>3. \A r \in RowIds : r[1] # c => rows'[r] = rows[r]
    BY <1>1, ChargeRows
  <2>4. /\ \A d \in ChargeCalls : <<d, attempt[d]>> \in RowIds /\ <<d, 0>> \in RowIds
        /\ \A d, a : <<d, a>>[1] = d /\ <<d, a>>[2] = a
    BY BoundsAssumption DEF TypeOK, RowIds
  <2> DEFINE IsNew(d) ==
        /\ \A r \in RowIds : r[1] = d /\ r[2] > attempt[d] => rows[r] = "none"
        /\ pc[d] \in {"charge", "connect", "lock", "check", "insert", "commit"} =>
             attempt[d] > 0 /\ rows[<<d, attempt[d]>>] = "none"
        /\ pc[d] \in ChargePc \ {"done", "dead"} => rows[<<d, 0>>] = "none"
  <2>held. \A d \in ChargeCalls : IsNew(d)
    BY DEF AttemptIsNew
  <2>goal. (\A d \in ChargeCalls \ {c} : IsNew(d)') /\ IsNew(c)' => AttemptIsNew'
    BY DEF AttemptIsNew
  <2> HIDE DEF AttemptIsNew
  <2>5. CASE NextAttempt(c) /\ pc[c] \in ChargePc \ {"commit", "record", "done", "dead"}
    <3>1. UNCHANGED rows
      BY <1>1, <2>5, ChargeTables
    <3>2. /\ attempt'[c] >= attempt[c]
          /\ \/ pc'[c] = "charge" /\ attempt'[c] > attempt[c] /\ attempt'[c] > 0
             \/ pc'[c] = "record"
          /\ <<c, attempt'[c]>> \in RowIds
      BY <2>5, BoundsAssumption DEF NextAttempt, Goto, TypeOK, RowIds
    <3>3. \A r \in RowIds : r[1] = c /\ r[2] > attempt'[c] => r[2] > attempt[c]
      BY <3>2, RowIdsType, BoundsAssumption, SMT DEF TypeOK, RowIds
    <3>4. \A r \in RowIds : r[1] = c /\ r[2] > attempt'[c] => rows[r] = "none"
      BY <3>3 DEF AttemptIsNew
    <3>5. pc'[c] = "charge" => rows[<<c, attempt'[c]>>] = "none"
      BY <2>4, <3>2 DEF AttemptIsNew
    <3>6. rows[<<c, 0>>] = "none"
      BY <2>5 DEF AttemptIsNew
    <3>7. \A d \in ChargeCalls \ {c} : IsNew(d)'
      BY <2>2, <2>held, <3>1
    <3>8. IsNew(c)'
      BY <3>1, <3>2, <3>4, <3>5, <3>6
    <3> QED
      BY <2>goal, <3>7, <3>8
  <2>6. CASE NextAttempt(c) /\ pc[c] = "commit"
    <3>1. /\ attempt'[c] >= attempt[c]
          /\ \/ pc'[c] = "charge" /\ attempt'[c] > attempt[c] /\ attempt'[c] > 0
             \/ pc'[c] = "record"
          /\ <<c, attempt'[c]>> \in RowIds
      BY <2>6, BoundsAssumption DEF NextAttempt, Goto, TypeOK, RowIds
    <3>2. \A r \in RowIds : r[1] = c /\ r[2] # attempt[c] => rows'[r] = rows[r]
      BY <1>1, <2>4, <2>6, ChargeRows
    <3>3. attempt[c] # 0 /\ rows[<<c, 0>>] = "none"
      <4>1. attempt[c] > 0 /\ rows[<<c, 0>>] = "none"
        BY <2>6 DEF AttemptIsNew, ChargePc
      <4>2. attempt[c] \in 0 .. MaxRetries
        BY DEF TypeOK
      <4> QED
        BY <4>1, <4>2, BoundsAssumption
    <3>4. \A r \in RowIds : r[1] = c /\ r[2] > attempt'[c] =>
            r[2] > attempt[c] /\ r[2] # attempt[c]
      BY <3>1, RowIdsType, BoundsAssumption, SMT DEF TypeOK, RowIds
    <3>5. \A r \in RowIds : r[1] = c /\ r[2] > attempt'[c] => rows'[r] = "none"
      BY <3>2, <3>4 DEF AttemptIsNew
    <3>6. pc'[c] = "charge" => rows'[<<c, attempt'[c]>>] = "none"
      <4>1. SUFFICES ASSUME pc'[c] = "charge" PROVE rows'[<<c, attempt'[c]>>] = "none"
        OBVIOUS
      <4>2. attempt'[c] > attempt[c] /\ attempt'[c] # attempt[c]
        BY <3>1, <4>1 DEF TypeOK
      <4> QED
        BY <2>4, <3>1, <3>2, <4>2 DEF AttemptIsNew
    <3>7. rows'[<<c, 0>>] = "none"
      BY <2>4, <3>2, <3>3
    <3>8. \A d \in ChargeCalls \ {c} :
            /\ \A r \in RowIds : r[1] = d => rows'[r] = rows[r]
            /\ rows'[<<d, attempt[d]>>] = rows[<<d, attempt[d]>>]
            /\ rows'[<<d, 0>>] = rows[<<d, 0>>]
      BY <2>3, <2>4
    <3>9. \A d \in ChargeCalls \ {c} : IsNew(d)'
      <4> SUFFICES ASSUME NEW d \in ChargeCalls \ {c} PROVE IsNew(d)'
        OBVIOUS
      <4>1. IsNew(d) /\ pc'[d] = pc[d] /\ attempt'[d] = attempt[d]
        BY <2>2, <2>held
      <4> QED
        BY <3>8, <4>1
    <3>10. IsNew(c)'
      BY <3>1, <3>5, <3>6, <3>7
    <3> QED
      BY <2>goal, <3>9, <3>10
  <2>7. CASE /\ UNCHANGED <<attempt, rows>>
             /\ pc'[c] \in ChargePc \ {"idle"}
             /\ pc'[c] = "record" => pc[c] = "record"
             /\ pc'[c] \notin {"done", "dead", "record"} =>
                  pc[c] \in {"charge", "connect", "lock", "check", "insert", "commit"}
    <3>1. \A d \in ChargeCalls \ {c} : IsNew(d)'
      BY <2>2, <2>7, <2>held
    <3>2. pc'[c] \notin {"done", "dead"} => rows[<<c, 0>>] = "none"
      BY <2>7, <2>held DEF ChargePc
    <3>3. IsNew(c)'
      BY <2>7, <2>held, <3>2
    <3> QED
      BY <2>goal, <3>1, <3>3
  <2>8. CASE UNCHANGED attempt /\ pc'[c] = "done" /\ pc[c] \in {"commit", "record"}
    <3>1. \A r \in RowIds : r[1] = c /\ r[2] > attempt[c] => rows'[r] = rows[r]
      BY <1>1, <2>4, <2>8, ChargeRows, RowIdsType, BoundsAssumption DEF TypeOK
    <3>2. IsNew(c)'
      BY <2>8, <2>held, <3>1
    <3>3. \A d \in ChargeCalls \ {c} : IsNew(d)'
      <4> SUFFICES ASSUME NEW d \in ChargeCalls \ {c} PROVE IsNew(d)'
        OBVIOUS
      <4>1. IsNew(d) /\ pc'[d] = pc[d] /\ attempt'[d] = attempt[d]
        BY <2>2, <2>held
      <4>2. \A r \in RowIds : r[1] = d => rows'[r] = rows[r]
        BY <2>3
      <4>3. rows'[<<d, attempt[d]>>] = rows[<<d, attempt[d]>>] /\ rows'[<<d, 0>>] = rows[<<d, 0>>]
        BY <2>4, <4>2
      <4> QED
        BY <4>1, <4>2, <4>3
    <3> QED
      BY <2>goal, <3>2, <3>3
  <2>9. CASE StartCharge(c) \/ GatewayDeclines(c) \/ ChargeTxnFails(c) \/ ChargeCommitUnknown(c)
    <3>1. CASE pc[c] = "commit"
      BY <2>6, <2>9, <3>1
      DEF StartCharge, GatewayDeclines, ChargeTxnFails, ChargeCommitUnknown
    <3>2. CASE pc[c] # "commit"
      BY <2>5, <2>9, <3>2
      DEF StartCharge, GatewayDeclines, ChargeTxnFails, ChargeCommitUnknown, Placed,
          ChargePc, InTxnPc
    <3> QED
      BY <3>1, <3>2
  <2>10. CASE CommitCharge(c) \/ RecordFailed(c) \/ RecordFails(c)
    BY <2>1, <2>8, <2>10
    DEF CommitCharge, RecordFailed, RecordFails, Answer, Goto, TypeOK, locals
  <2>11. CASE \/ GatewayCaptures(c) \/ BeginTxn(c) \/ AcquireOrderLock(c)
              \/ CheckIntent(c) \/ InsertPayment(c)
    BY <2>1, <2>7, <2>11
    DEF GatewayCaptures, BeginTxn, AcquireOrderLock, CheckIntent, InsertPayment,
        Goto, TypeOK, locals, tables, ChargePc
  <2> QED
    BY <1>1, <2>9, <2>10, <2>11 DEF ChargeStep
<1>2. ASSUME UNCHANGED attempt,
             \A d \in ChargeCalls : pc'[d] = pc[d] \/ pc'[d] \in {"idle", "done", "dead"},
             \A d \in ChargeCalls : pc'[d] = "idle" => pc[d] = "idle",
             \A r \in RowIds : rows[r] = "none" => rows'[r] = "none"
      PROVE  AttemptIsNew'
  <2>1. \A d \in ChargeCalls : <<d, attempt[d]>> \in RowIds /\ <<d, 0>> \in RowIds
    BY BoundsAssumption DEF TypeOK, RowIds
  <2> QED
    BY <1>2, <2>1 DEF AttemptIsNew, ChargePc
<1>3. CASE \E c \in RefundCalls : StartRefund(c) \/ RefundStep(c)
  BY <1>2, <1>3, RefundMoves, RefundTables, CallsAssumption
  DEF TypeOK, MatchedIsCurrent, RefundableRows
<1>4. CASE \E c \in IdRefundCalls : StartRefundById(c) \/ IdRefundStep(c)
  BY <1>2, <1>4, IdRefundMoves, IdRefundTables, CallsAssumption DEF TypeOK, TargetIsCharged
<1>5. CASE Crash
  BY <1>2, <1>5, CrashTables DEF Crash, TypeOK, Active
<1>6. CASE UNCHANGED vars
  BY <1>2, <1>6 DEF vars, locals, tables
<1> QED
  BY <1>1, <1>3, <1>4, <1>5, <1>6 DEF Next, AllAnswered

(* The row a charge is about to record is not there yet, so recording it   *)
(* changes no status, and a charged row stays charged.                     *)
LEMMA NewRow ==
  ASSUME TypeOK, AttemptIsNew, NEW c \in ChargeCalls, StartCharge(c) \/ ChargeStep(c),
         NEW r \in RowIds, rows'[r] # rows[r]
  PROVE  rows[r] = "none" /\ RowOrder(r) = OrderOf[c]
<1>1. pc[c] = "commit" => rows[<<c, attempt[c]>>] = "none"
  BY DEF AttemptIsNew
<1>2. pc[c] = "record" => rows[<<c, 0>>] = "none"
  BY DEF AttemptIsNew, ChargePc
<1>3. \A a : <<c, a>>[1] = c
  OBVIOUS
<1> QED
  BY <1>1, <1>2, <1>3, ChargeRows DEF RowOrder

LEMMA ChargedForever ==
  ASSUME TypeOK, AttemptIsNew, [Next]_vars,
         NEW r \in RowIds, rows[r] \in {"SUCCESS", "REFUNDED"}
  PROVE  rows'[r] \in {"SUCCESS", "REFUNDED"}
<1>1. CASE \E c \in ChargeCalls : StartCharge(c) \/ ChargeStep(c)
  BY <1>1, NewRow
<1>2. CASE \E c \in RefundCalls : StartRefund(c) \/ RefundStep(c)
  BY <1>2, RefundTables
<1>3. CASE \E c \in IdRefundCalls : StartRefundById(c) \/ IdRefundStep(c)
  BY <1>3, IdRefundTables
<1>4. CASE Crash \/ UNCHANGED vars
  BY <1>4, CrashTables DEF vars, tables
<1> QED
  BY <1>1, <1>2, <1>3, <1>4 DEF Next, AllAnswered

LEMMA SeenStep ==
  ASSUME TypeOK, Placed, LockHeld, SeenIsCurrent, [Next]_vars
  PROVE  SeenIsCurrent'
<1> USE PcTypes
<1>1. ASSUME NEW c \in ChargeCalls, StartCharge(c) \/ ChargeStep(c)
      PROVE  SeenIsCurrent'
  <2>1. \A d \in ChargeCalls \ {c} : pc'[d] = pc[d]
    BY <1>1, ChargeMoves DEF TypeOK
  <2> QED
    BY <1>1, <2>1, ChargeLocals, ChargeTables DEF SeenIsCurrent
<1>2. ASSUME NEW c \in RefundCalls, StartRefund(c) \/ RefundStep(c)
      PROVE  SeenIsCurrent'
  <2>1. \A d \in ChargeCalls : pc'[d] = pc[d]
    BY <1>2, RefundMoves, CallsAssumption DEF TypeOK
  <2>2. ASSUME NEW d \in ChargeCalls, pc[d] \in {"insert", "commit"}
        PROVE  (OrderOf[d] \in intents) = (OrderOf[d] \in intents')
    <3>1. CASE UNCHANGED intents
      BY <3>1
    <3>2. CASE pc[c] = "commit" /\ intents' = intents \cup {OrderOf[c]}
      BY <2>2, <3>2, OneTxnPerOrder, CallsAssumption DEF InTxnPc, TxnCalls
    <3> QED
      BY <1>2, <3>1, <3>2, RefundTables
  <2> QED
    BY <1>2, <2>1, <2>2, RefundTables DEF SeenIsCurrent
<1>3. CASE \E c \in IdRefundCalls : StartRefundById(c) \/ IdRefundStep(c)
  BY <1>3, IdRefundMoves, IdRefundTables, CallsAssumption DEF SeenIsCurrent, TypeOK
<1>4. CASE Crash
  BY <1>4, CrashTables DEF SeenIsCurrent
<1>5. CASE UNCHANGED vars
  BY <1>5 DEF SeenIsCurrent, vars, locals, tables
<1> QED
  BY <1>1, <1>2, <1>3, <1>4, <1>5 DEF Next, AllAnswered

LEMMA MatchedStep ==
  ASSUME TypeOK, Placed, LockHeld, MatchedIsCurrent, TargetIsCharged, AttemptIsNew,
         [Next]_vars
  PROVE  MatchedIsCurrent'
<1> USE PcTypes
<1>1. ASSUME NEW c \in ChargeCalls, StartCharge(c) \/ ChargeStep(c),
             NEW d \in RefundCalls, pc'[d] = "commit"
      PROVE  matched'[d] = RefundableRows(OrderOf[d])'
  <2>1. pc[d] = "commit" /\ matched'[d] = RefundableRows(OrderOf[d])
    <3>1. pc'[d] = pc[d]
      BY <1>1, ChargeMoves, CallsAssumption DEF TypeOK
    <3> QED
      BY <1>1, <3>1, ChargeTables DEF MatchedIsCurrent
  <2>2. ASSUME NEW r \in RowIds, RowOrder(r) = OrderOf[d]
        PROVE  rows[r] = "SUCCESS" <=> rows'[r] = "SUCCESS"
    <3>1. CASE pc[c] = "commit"
      <4>1. OrderOf[c] # OrderOf[d]
        BY <2>1, <3>1, OneTxnPerOrder, CallsAssumption DEF InTxnPc, TxnCalls
      <4> QED
        BY <1>1, <2>2, <4>1, NewRow
    <3>2. CASE pc[c] # "commit"
      BY <1>1, <3>2, NewRow, ChargeRows
    <3> QED
      BY <3>1, <3>2
  <2> QED
    BY <2>1, <2>2 DEF RefundableRows, RowOrder
<1>2. ASSUME NEW c \in RefundCalls, StartRefund(c) \/ RefundStep(c),
             NEW d \in RefundCalls, pc'[d] = "commit"
      PROVE  matched'[d] = RefundableRows(OrderOf[d])'
  <2>1. CASE d = c
    BY <1>2, <2>1, RefundLocals DEF RefundableRows, RowOrder
  <2>2. CASE d # c
    <3>1. pc[d] = "commit" /\ matched'[d] = RefundableRows(OrderOf[d])
      BY <1>2, <2>2, RefundMoves, RefundLocals DEF TypeOK, MatchedIsCurrent
    <3>2. CASE UNCHANGED rows
      BY <3>1, <3>2 DEF RefundableRows, RowOrder
    <3>3. CASE /\ pc[c] = "commit"
               /\ rows' = [r \in RowIds |-> IF r \in matched[c] THEN "REFUNDED" ELSE rows[r]]
      <4>1. OrderOf[c] # OrderOf[d]
        BY <2>2, <3>1, <3>3, OneTxnPerOrder DEF InTxnPc, TxnCalls
      <4>2. matched[c] = RefundableRows(OrderOf[c])
        BY <3>3 DEF MatchedIsCurrent
      <4> QED
        BY <3>1, <3>3, <4>1, <4>2 DEF RefundableRows, RowOrder
    <3> QED
      BY <1>2, <3>2, <3>3, RefundTables
  <2> QED
    BY <2>1, <2>2
<1>3. ASSUME NEW c \in IdRefundCalls, StartRefundById(c) \/ IdRefundStep(c),
             NEW d \in RefundCalls, pc'[d] = "commit"
      PROVE  matched'[d] = RefundableRows(OrderOf[d])'
  <2>1. pc[d] = "commit" /\ matched'[d] = RefundableRows(OrderOf[d])
    BY <1>3, IdRefundMoves, IdRefundTables, CallsAssumption DEF TypeOK, MatchedIsCurrent
  <2>2. CASE UNCHANGED rows
    BY <2>1, <2>2 DEF RefundableRows, RowOrder
  <2>3. CASE /\ pc[c] = "mark"
             /\ RowUnlocked(target[c])
             /\ rows' = [r \in RowIds |-> IF r = target[c] THEN "REFUNDED" ELSE rows[r]]
    <3>1. target[c] \notin RefundableRows(OrderOf[d])
      BY <2>1, <2>3 DEF RowUnlocked, MatchedIsCurrent
    <3> QED
      BY <2>1, <2>3, <3>1 DEF RefundableRows, RowOrder
  <2> QED
    BY <1>3, <2>2, <2>3, IdRefundTables
<1>4. CASE Crash
  BY <1>4, CrashTables DEF MatchedIsCurrent
<1>5. CASE UNCHANGED vars
  BY <1>5 DEF MatchedIsCurrent, RefundableRows, RowOrder, vars, locals, tables
<1> QED
  BY <1>1, <1>2, <1>3, <1>4, <1>5 DEF Next, AllAnswered, MatchedIsCurrent

LEMMA TargetStep ==
  ASSUME TypeOK, Placed, TargetIsCharged, AttemptIsNew, [Next]_vars
  PROVE  TargetIsCharged'
<1> USE PcTypes
<1> DEFINE TargetOk(d) ==
      /\ pc[d] \in {"findId", "settle", "mark"} => target[d] \in RowIds
      /\ pc[d] \in {"settle", "mark"} => rows[target[d]] \in {"SUCCESS", "REFUNDED"}
<1>1. ASSUME NEW d \in IdRefundCalls, NEW c \in IdRefundCalls,
             StartRefundById(c) \/ IdRefundStep(c)
      PROVE  TargetOk(d)'
  <2>1. CASE d # c
    <3>1. pc'[d] = pc[d] /\ target'[d] = target[d]
      BY <1>1, <2>1, IdRefundMoves, IdRefundTables DEF TypeOK
    <3> QED
      BY <3>1, ChargedForever DEF TargetIsCharged
  <2>2. CASE d = c /\ pc'[c] \in {"settle", "mark"}
    <3>1. target'[c] = target[c] /\ pc[c] \in {"findId", "settle"}
      BY <1>1, <2>2, IdRefundTables
    <3>2. target[c] \in RowIds /\ rows[target[c]] \in {"SUCCESS", "REFUNDED"}
      BY <1>1, <2>2, <3>1, IdRefundTables DEF TargetIsCharged, Refundable
    <3> QED
      BY <2>2, <3>1, <3>2, ChargedForever
  <2>3. CASE d = c /\ pc'[c] \notin {"settle", "mark"}
    BY <1>1, <2>3, IdRefundTables
  <2> QED
    BY <2>1, <2>2, <2>3
<1>2. ASSUME NEW d \in IdRefundCalls, UNCHANGED target,
             pc'[d] = pc[d] \/ pc'[d] \in {"idle", "done", "dead"}
      PROVE  TargetOk(d)'
  BY <1>2, ChargedForever DEF TargetIsCharged
<1>3. CASE \E c \in ChargeCalls : StartCharge(c) \/ ChargeStep(c)
  <2>1. \A d \in IdRefundCalls : pc'[d] = pc[d]
    BY <1>3, ChargeMoves, CallsAssumption DEF TypeOK
  <2> QED
    BY <1>2, <1>3, <2>1, ChargeTables DEF TargetIsCharged
<1>4. CASE \E c \in RefundCalls : StartRefund(c) \/ RefundStep(c)
  BY <1>2, <1>4, RefundMoves, RefundTables, CallsAssumption DEF TypeOK, TargetIsCharged
<1>5. CASE Crash
  BY <1>2, <1>5, CrashTables DEF TargetIsCharged
<1>6. CASE UNCHANGED vars
  BY <1>2, <1>6 DEF TargetIsCharged, vars, locals
<1> QED
  BY <1>1, <1>3, <1>4, <1>5, <1>6 DEF Next, AllAnswered, TargetIsCharged

(* The heart of the protocol: a charge commits SUCCESS only without an     *)
(* intent, and an intent commits with every SUCCESS row of its order.      *)
LEMMA IntentStep ==
  ASSUME TypeOK, AttemptIsNew, SeenIsCurrent, MatchedIsCurrent, TargetIsCharged,
         RefundIntentHonoured, [Next]_vars
  PROVE  RefundIntentHonoured'
<1>1. ASSUME NEW c \in ChargeCalls, StartCharge(c) \/ ChargeStep(c)
      PROVE  RefundIntentHonoured'
  <2>1. ASSUME NEW r \in RowIds, rows'[r] = "SUCCESS", rows[r] # "SUCCESS"
        PROVE  RowOrder(r) \notin intents
    <3>1. RowOrder(r) = OrderOf[c]
      BY <1>1, <2>1, NewRow
    <3>2. pc[c] = "commit" /\ ChargedStatus(c) = "SUCCESS"
      BY <1>1, <2>1, ChargeRows
    <3>3. ~seen[c] /\ seen[c] = (OrderOf[c] \in intents)
      BY <3>2 DEF SeenIsCurrent, ChargedStatus
    <3> QED
      BY <3>1, <3>3
  <2>2. UNCHANGED intents
    BY <1>1, ChargeTables
  <2> SUFFICES ASSUME NEW r \in RowIds, RowOrder(r) \in intents
               PROVE  rows'[r] # "SUCCESS"
    BY <2>2 DEF RefundIntentHonoured, RowOrder
  <2> QED
    BY <2>1 DEF RefundIntentHonoured
<1>2. CASE \E c \in RefundCalls : StartRefund(c) \/ RefundStep(c)
  BY <1>2, RefundTables DEF RefundIntentHonoured, MatchedIsCurrent, RefundableRows, RowOrder
<1>3. CASE \E c \in IdRefundCalls : StartRefundById(c) \/ IdRefundStep(c)
  BY <1>3, IdRefundTables DEF RefundIntentHonoured, RowOrder
<1>4. CASE Crash \/ UNCHANGED vars
  BY <1>4, CrashTables DEF RefundIntentHonoured, RowOrder, vars, tables
<1> QED
  BY <1>1, <1>2, <1>3, <1>4 DEF Next, AllAnswered

LEMMA InitInv == Init => IInv
<1> SUFFICES ASSUME Init PROVE IInv
  OBVIOUS
<1>1. TypeOK
  BY InitType
<1>2. Placed /\ SeenIsCurrent /\ MatchedIsCurrent /\ TargetIsCharged
  BY DEF Init, Placed, ChargePc, RefundPc, IdRefundPc, SeenIsCurrent, MatchedIsCurrent,
         TargetIsCharged, Calls
<1>3. LockHeld
  BY PcTypes DEF Init, LockHeld, InTxnPc
<1>4. AttemptIsNew /\ RefundIntentHonoured
  <2>1. \A d \in ChargeCalls : <<d, 0>> \in RowIds
    BY BoundsAssumption DEF RowIds
  <2> QED
    BY <2>1, PcTypes DEF Init, AttemptIsNew, RefundIntentHonoured
<1> QED
  BY <1>1, <1>2, <1>3, <1>4 DEF IInv

LEMMA NextInv == IInv /\ [Next]_vars => IInv'
BY NextType, PlacedStep, LockHeldStep, AttemptStep, SeenStep, MatchedStep, TargetStep,
   IntentStep DEF IInv

(* The strengthened invariant holds in every state of payment-service.     *)
THEOREM Invariant == Spec => []IInv
<1>1. Init => IInv
  BY InitInv
<1>2. IInv /\ [Next]_vars => IInv'
  BY NextInv
<1> QED
  BY <1>1, <1>2, PTL DEF Spec

(* No money is kept for an order whose refund was requested, for every     *)
(* number of orders, requests, retries, failures and crashes.              *)
THEOREM IntentHonoured == Spec => []RefundIntentHonoured
<1>1. IInv => RefundIntentHonoured
  BY DEF IInv
<1> QED
  BY <1>1, Invariant, PTL
-----------------------------------------------------------------------------
(* payment-service implements PaymentLedger.                               *)
LEMMA LedgerInit == Init => Ledger!Init
BY DEF Init, Ledger!Init

LEMMA LedgerStep == IInv /\ [Next]_vars => [Ledger!Next]_(Ledger!vars)
<1> SUFFICES ASSUME IInv, [Next]_vars PROVE [Ledger!Next]_(Ledger!vars)
  OBVIOUS
<1> USE DEF IInv
<1> DEFINE Kept == {r \in RowIds : rows[r] = "SUCCESS"}
           Returned == {r \in RowIds : rows[r] = "REFUNDED"}
           Of == [r \in RowIds |-> RowOrder(r)]
<1>1. ASSUME NEW c \in ChargeCalls, StartCharge(c) \/ ChargeStep(c)
      PROVE  [Ledger!Next]_(Ledger!vars)
  <2>1. UNCHANGED intents
    BY <1>1, ChargeTables
  <2>2. CASE \E r \in RowIds : rows'[r] # rows[r]
    <3>1. PICK r \in RowIds : rows'[r] # rows[r]
      BY <2>2
    <3>2. rows[r] = "none" /\ RowOrder(r) = OrderOf[c]
      BY <1>1, <3>1, NewRow
    <3>3. \A q \in RowIds : q # r => rows'[q] = rows[q]
      BY <1>1, <3>1, ChargeRows
    <3>4. CASE rows'[r] = "SUCCESS"
      <4>1. RowOrder(r) \notin intents
        BY <1>1, <3>1, <3>2, <3>4, ChargeRows DEF SeenIsCurrent, ChargedStatus
      <4>2. Kept' = Kept \cup {r} /\ Returned' = Returned /\ r \notin Kept \cup Returned
        BY <3>2, <3>3, <3>4
      <4>3. Ledger!Take(r)
        BY <2>1, <4>1, <4>2 DEF Ledger!Take
      <4> QED
        BY <4>3 DEF Ledger!Next
    <3>5. CASE rows'[r] = "REFUNDED"
      <4>1. RowOrder(r) \in intents
        BY <1>1, <3>1, <3>2, <3>5, ChargeRows DEF SeenIsCurrent, ChargedStatus
      <4>2. Returned' = Returned \cup {r} /\ Kept' = Kept /\ r \notin Kept \cup Returned
        BY <3>2, <3>3, <3>5
      <4>3. Ledger!TakeCancelled(r)
        BY <2>1, <4>1, <4>2 DEF Ledger!TakeCancelled
      <4> QED
        BY <4>3 DEF Ledger!Next
    <3>6. CASE rows'[r] = "FAILED"
      <4>1. Kept' = Kept /\ Returned' = Returned
        BY <3>2, <3>3, <3>6
      <4> QED
        BY <2>1, <4>1 DEF Ledger!vars
    <3> QED
      BY <1>1, <3>1, <3>4, <3>5, <3>6, ChargeRows DEF ChargedStatus
  <2>3. CASE \A r \in RowIds : rows'[r] = rows[r]
    BY <2>1, <2>3 DEF Ledger!vars
  <2> QED
    BY <2>2, <2>3
<1>2. ASSUME NEW c \in RefundCalls, StartRefund(c) \/ RefundStep(c)
      PROVE  [Ledger!Next]_(Ledger!vars)
  <2>1. CASE UNCHANGED <<rows, intents>>
    BY <2>1 DEF Ledger!vars
  <2>2. CASE /\ pc[c] = "commit"
             /\ rows' = [r \in RowIds |-> IF r \in matched[c] THEN "REFUNDED" ELSE rows[r]]
             /\ intents' = intents \cup {OrderOf[c]}
    <3>1. OrderOf[c] \in Orders
      BY OrdersAssumption DEF TxnCalls
    <3>2. matched[c] = {r \in Kept : Of[r] = OrderOf[c]}
      BY <2>2 DEF MatchedIsCurrent, RefundableRows
    <3>3. Kept' = Kept \ matched[c] /\ Returned' = Returned \cup matched[c]
      BY <2>2, <3>2
    <3>4. Ledger!Cancel(OrderOf[c])
      BY <2>2, <3>2, <3>3 DEF Ledger!Cancel, Ledger!ChargesOf
    <3> QED
      BY <3>1, <3>4 DEF Ledger!Next
  <2> QED
    BY <1>2, <2>1, <2>2, RefundTables
<1>3. ASSUME NEW c \in IdRefundCalls, StartRefundById(c) \/ IdRefundStep(c)
      PROVE  [Ledger!Next]_(Ledger!vars)
  <2>1. UNCHANGED intents
    BY <1>3, IdRefundTables
  <2>2. CASE UNCHANGED rows
    BY <2>1, <2>2 DEF Ledger!vars
  <2>3. CASE /\ pc[c] = "mark"
             /\ rows' = [r \in RowIds |-> IF r = target[c] THEN "REFUNDED" ELSE rows[r]]
    <3>1. target[c] \in RowIds /\ rows[target[c]] \in {"SUCCESS", "REFUNDED"}
      BY <2>3 DEF TargetIsCharged
    <3>2. CASE rows[target[c]] = "SUCCESS"
      <4>1. PICK r \in RowIds : r = target[c]
        BY <3>1
      <4>2. r \in Kept /\ Kept' = Kept \ {r} /\ Returned' = Returned \cup {r}
        BY <2>3, <3>2, <4>1
      <4>3. Ledger!Return(r)
        BY <2>1, <4>2 DEF Ledger!Return
      <4> QED
        BY <4>3 DEF Ledger!Next
    <3>3. CASE rows[target[c]] = "REFUNDED"
      <4>1. Kept' = Kept /\ Returned' = Returned
        BY <2>3, <3>1, <3>3
      <4> QED
        BY <2>1, <4>1 DEF Ledger!vars
    <3> QED
      BY <3>1, <3>2, <3>3
  <2> QED
    BY <1>3, <2>2, <2>3, IdRefundTables
<1>4. CASE Crash \/ UNCHANGED vars
  BY <1>4, CrashTables DEF Ledger!vars, vars, tables
<1> QED
  BY <1>1, <1>2, <1>3, <1>4 DEF Next, AllAnswered

(* Every behaviour of the handlers, their transactions and their failures  *)
(* is one that the ledger allows.                                          *)
THEOREM Refinement == Spec => Implements
<1>1. Init => Ledger!Init
  BY LedgerInit
<1>2. IInv /\ [Next]_vars => [Ledger!Next]_(Ledger!vars)
  BY LedgerStep
<1> QED
  BY <1>1, <1>2, Invariant, PTL DEF Spec, Implements, Ledger!Spec
=============================================================================
