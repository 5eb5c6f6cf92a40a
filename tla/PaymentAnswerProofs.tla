-------------------------- MODULE PaymentAnswerProofs --------------------------
(***************************************************************************)
(* Proofs about what payment-service answers: that its answers agree with  *)
(* its tables then and later, that a refund is final and that it happens   *)
(* once.  They rest on the invariant of PaymentServiceProofs.              *)
(***************************************************************************)
EXTENDS PaymentServiceProofs, FunctionTheorems, FiniteSetTheorems

(* What becomes of a row once it is there: only a charge turns into a      *)
(* refund.                                                                 *)
LEMMA RowFate ==
  ASSUME IInv, [Next]_vars, NEW r \in RowIds, rows[r] # "none"
  PROVE  rows'[r] = rows[r] \/ (rows[r] \in {"SUCCESS", "REFUNDED"} /\ rows'[r] = "REFUNDED")
<1> USE DEF IInv
<1>1. CASE \E c \in ChargeCalls : StartCharge(c) \/ ChargeStep(c)
  BY <1>1, NewRow
<1>2. CASE \E c \in RefundCalls : StartRefund(c) \/ RefundStep(c)
  BY <1>2, RefundTables DEF MatchedIsCurrent, RefundableRows
<1>3. CASE \E c \in IdRefundCalls : StartRefundById(c) \/ IdRefundStep(c)
  BY <1>3, IdRefundTables DEF TargetIsCharged
<1>4. CASE Crash \/ UNCHANGED vars
  BY <1>4, CrashTables DEF vars, tables
<1> QED
  BY <1>1, <1>2, <1>3, <1>4 DEF Next, AllAnswered

(* The intent of a refund stays on record.                                 *)
LEMMA IntentsGrow ==
  ASSUME IInv, [Next]_vars
  PROVE  intents \subseteq intents'
<1> USE DEF IInv
<1>1. CASE \E c \in ChargeCalls : StartCharge(c) \/ ChargeStep(c)
  BY <1>1, ChargeTables
<1>2. CASE \E c \in RefundCalls : StartRefund(c) \/ RefundStep(c)
  BY <1>2, RefundTables
<1>3. CASE \E c \in IdRefundCalls : StartRefundById(c) \/ IdRefundStep(c)
  BY <1>3, IdRefundTables
<1>4. CASE Crash \/ UNCHANGED vars
  BY <1>4, CrashTables DEF vars, tables
<1> QED
  BY <1>1, <1>2, <1>3, <1>4 DEF Next, AllAnswered

(* Only a ProcessPayment adds rows, and only rows of its own.              *)
LEMMA OwnRow ==
  ASSUME IInv, NEW r \in RowIds, rows[r] = "none"
  PROVE  /\ \A c \in ChargeCalls \ {r[1]} :
              StartCharge(c) \/ ChargeStep(c) => rows'[r] = "none"
         /\ \A c \in RefundCalls : StartRefund(c) \/ RefundStep(c) => rows'[r] = "none"
         /\ \A c \in IdRefundCalls :
              StartRefundById(c) \/ IdRefundStep(c) => rows'[r] = "none"
         /\ Crash \/ UNCHANGED vars => rows'[r] = "none"
<1> USE DEF IInv
<1>1. ASSUME NEW c \in ChargeCalls, c # r[1], StartCharge(c) \/ ChargeStep(c)
      PROVE  rows'[r] = "none"
  <2>1. \A a : <<c, a>>[1] = c
    OBVIOUS
  <2> QED
    BY <1>1, <2>1, ChargeRows
<1>2. ASSUME NEW c \in RefundCalls, StartRefund(c) \/ RefundStep(c)
      PROVE  rows'[r] = "none"
  BY <1>2, RefundTables DEF MatchedIsCurrent, RefundableRows
<1>3. ASSUME NEW c \in IdRefundCalls, StartRefundById(c) \/ IdRefundStep(c)
      PROVE  rows'[r] = "none"
  BY <1>3, IdRefundTables DEF TargetIsCharged
<1>4. Crash \/ UNCHANGED vars => rows'[r] = "none"
  BY CrashTables DEF vars, tables
<1> QED
  BY <1>1, <1>2, <1>3, <1>4

(* The failures are counted, a step of a request captures for itself only, *)
(* and answers for itself only.                                            *)
LEMMA ChargeCounts ==
  ASSUME TypeOK, NEW c \in ChargeCalls, StartCharge(c) \/ ChargeStep(c)
  PROVE  /\ dbErrors' \in {dbErrors, dbErrors + 1}
         /\ captured' \in {captured, captured \cup {<<c, attempt[c]>>}}
         /\ reply' = reply \/ \E r : reply' = [reply EXCEPT ![c] = r]
BY DEF StartCharge, ChargeStep, GatewayCaptures, GatewayDeclines, BeginTxn, AcquireOrderLock,
       CheckIntent, InsertPayment, CommitCharge, ChargeTxnFails, ChargeCommitUnknown,
       RecordFailed, RecordFails, DbFails, Answer

(* The same of RefundByOrderId, which captures nothing.                    *)
LEMMA RefundCounts ==
  ASSUME TypeOK, NEW c \in RefundCalls, StartRefund(c) \/ RefundStep(c)
  PROVE  /\ dbErrors' \in {dbErrors, dbErrors + 1} /\ UNCHANGED captured
         /\ reply' = reply \/ \E r : reply' = [reply EXCEPT ![c] = r]
BY DEF StartRefund, RefundStep, BeginTxn, AcquireOrderLock, WriteIntent, UpdateRows,
       CommitRefund, RefundTxnFails, RefundCommitUnknown, FindByOrder, QueryFails, DbFails,
       Answer

(* ... and of RefundPayment.                                               *)
LEMMA IdRefundCounts ==
  ASSUME TypeOK, NEW c \in IdRefundCalls, StartRefundById(c) \/ IdRefundStep(c)
  PROVE  /\ dbErrors' \in {dbErrors, dbErrors + 1} /\ UNCHANGED captured
         /\ reply' = reply \/ \E r : reply' = [reply EXCEPT ![c] = r]
BY DEF StartRefundById, IdRefundStep, FindById, Settle, MarkRefunded, QueryFails, DbFails,
       Answer
-----------------------------------------------------------------------------
(* The rows of one request are finitely many, so sets of them can be counted. *)
LEMMA RowsFinite ==
  ASSUME NEW c \in ChargeCalls
  PROVE  IsFiniteSet(RowsOf(c))
<1> DEFINE Row == [a \in 0 .. MaxRetries |-> <<c, a>>]
<1>1. \A a \in 0 .. MaxRetries : Row[a] \in RowsOf(c)
  BY DEF RowsOf, RowIds
<1>2. \A r \in RowsOf(c) : \E a \in 0 .. MaxRetries : Row[a] = r
  <2>1. TAKE r \in RowsOf(c)
  <2>2. r[2] \in 0 .. MaxRetries /\ r = <<c, r[2]>>
    BY RowIdsType DEF RowsOf
  <2> QED
    BY <2>2
<1>3. Row \in Surjection(0 .. MaxRetries, RowsOf(c))
  <2>1. Row \in [0 .. MaxRetries -> RowsOf(c)]
    BY <1>1
  <2> HIDE DEF Row
  <2> QED
    BY <1>2, <2>1, Fun_IsSurj
<1>4. IsFiniteSet(0 .. MaxRetries)
  BY BoundsAssumption, FS_Interval
<1> QED
  BY <1>3, <1>4, FS_Surjection

(* A part of some rows of a request, at most one more row, and their number. *)
LEMMA RowsCounted ==
  ASSUME NEW c \in ChargeCalls, NEW S \in SUBSET RowsOf(c), NEW r, NEW T \in SUBSET (S \cup {r})
  PROVE  /\ Cardinality(S) \in Nat /\ Cardinality(T) \in Nat
         /\ Cardinality(T) <= Cardinality(S) + 1
         /\ T \subseteq S => Cardinality(T) <= Cardinality(S)
<1>1. IsFiniteSet(S)
  BY RowsFinite, FS_Subset
<1>2. IsFiniteSet(S \cup {r}) /\ Cardinality(S \cup {r}) \in {Cardinality(S), Cardinality(S) + 1}
  BY <1>1, FS_AddElement
<1>3. IsFiniteSet(T) /\ Cardinality(T) <= Cardinality(S \cup {r})
  BY <1>2, FS_Subset
<1>4. Cardinality(S) \in Nat /\ Cardinality(T) \in Nat
  BY <1>1, <1>3, FS_CardinalityType
<1>5. T \subseteq S => Cardinality(T) <= Cardinality(S)
  BY <1>1, FS_Subset
<1> QED
  BY <1>2, <1>3, <1>4, <1>5

(* ... as it is needed below: what was paid for stays paid for.            *)
LEMMA StillPaidFor ==
  ASSUME NEW c \in ChargeCalls, NEW S \in SUBSET RowsOf(c), NEW T \in SUBSET S,
         NEW m \in Nat, NEW n \in Nat, m <= n, Cardinality(S) <= m
  PROVE  Cardinality(T) <= n
<1>1. /\ Cardinality(S) \in Nat /\ Cardinality(T) \in Nat
      /\ Cardinality(T) <= Cardinality(S)
  BY RowsCounted
<1> QED
  BY <1>1

(* A ProcessPayment nobody works on, whether its process lives or not.     *)
Rests(c) ==
  /\ pc'[c] = pc[c] \/ pc'[c] = "dead"
  /\ reply'[c] = reply[c] /\ attempt'[c] = attempt[c]
  /\ \A r \in RowsOf(c) : rows[r] = "none" => rows'[r] = "none"
  /\ CapturedOf(c)' = CapturedOf(c)
  /\ dbErrors' \in Nat /\ dbErrors <= dbErrors'

(* What a charge at rest knows stays true whatever others do.              *)
LEMMA RestingCharge ==
  ASSUME IInv, [Next]_vars, NEW c \in ChargeCalls, ChargeSound(c), Rests(c)
  PROVE  ChargeSound(c)'
<1>0. /\ \A r \in RowsOf(c) : r \in RowIds /\ rows[r] \in Statuses
      /\ <<c, attempt[c]>> \in RowIds /\ <<c, 0>> \in RowIds
      /\ dbErrors \in Nat
  BY BoundsAssumption DEF RowsOf, RowIds, IInv, TypeOK
<1>1. \A r \in RowIds : /\ rows[r] = "FAILED" => rows'[r] = "FAILED"
                        /\ rows[r] = "REFUNDED" => rows'[r] = "REFUNDED"
                        /\ rows[r] = "SUCCESS" => rows'[r] \in {"SUCCESS", "REFUNDED"}
  BY RowFate
<1>2. KeptOf(c)' = KeptOf(c)
  <2>1. \A r \in RowsOf(c) :
          rows'[r] \in {"SUCCESS", "REFUNDED"} <=> rows[r] \in {"SUCCESS", "REFUNDED"}
    BY <1>0, <1>1 DEF Rests, Statuses
  <2> QED
    BY <2>1 DEF KeptOf, RowsOf, RowIds
<1>3. \A S \in SUBSET RowsOf(c) : Cardinality(S) <= dbErrors => Cardinality(S) <= dbErrors'
  BY <1>0, StillPaidFor DEF Rests
<1>4. /\ KeptOf(c) \in SUBSET RowsOf(c) /\ CapturedOf(c) \in SUBSET RowsOf(c)
      /\ CapturedOf(c) \ {<<c, attempt[c]>>} \in SUBSET RowsOf(c)
      /\ CapturedOf(c) \ KeptOf(c) \in SUBSET RowsOf(c)
  BY DEF KeptOf, CapturedOf
<1>5. intents \subseteq intents'
  BY IntentsGrow
<1>6. ChargeAnswered(c) => ChargeAnswered(c)'
  BY <1>0, <1>1, <1>2, <1>3, <1>4, <1>5 DEF ChargeAnswered, Rests
<1>7. CapturesCounted(c) => CapturesCounted(c)'
  <2>1. Cardinality(CapturedOf(c) \ {<<c, attempt[c]>>}) <= dbErrors =>
          Cardinality(CapturedOf(c)' \ {<<c, attempt'[c]>>}) <= dbErrors'
    BY <1>3, <1>4 DEF Rests
  <2>2. Cardinality(CapturedOf(c)) <= dbErrors => Cardinality(CapturedOf(c)') <= dbErrors'
    BY <1>3, <1>4 DEF Rests
  <2>3. Cardinality(CapturedOf(c) \ KeptOf(c)) <= dbErrors =>
          Cardinality(CapturedOf(c)' \ KeptOf(c)') <= dbErrors'
    BY <1>2, <1>3, <1>4 DEF Rests
  <2> QED
    BY <2>1, <2>2, <2>3 DEF CapturesCounted, Rests
<1> QED
  BY <1>2, <1>3, <1>4, <1>6, <1>7 DEF ChargeSound, Rests

(* So does what a refund that answered knows.                              *)
LEMMA RestingRefund ==
  ASSUME IInv, [Next]_vars, NEW c \in RefundCalls, RefundSound(c),
         (pc'[c] = pc[c] /\ reply'[c] = reply[c]) \/ pc'[c] \notin {"find", "done"}
  PROVE  RefundSound(c)'
<1>1. \A r \in RowIds : rows[r] = "REFUNDED" => rows'[r] = "REFUNDED"
  BY RowFate
<1> QED
  BY <1>1, IntentsGrow DEF RefundSound, RowOrder
-----------------------------------------------------------------------------
(* The steps of ProcessPayment itself.  First those back into its loop.    *)
LEMMA LoopsOn ==
  ASSUME NEW c \in ChargeCalls, pc'[c] \in {"charge", "record"}, dbErrors' \in Nat,
         Cardinality(KeptOf(c)') <= dbErrors',
         OrderOf[c] \notin Oversized => Cardinality(CapturedOf(c)') <= dbErrors'
  PROVE  ChargeSound(c)'
<1>1. CapturedOf(c)' \in SUBSET RowsOf(c)
  BY DEF CapturedOf, RowsOf, RowIds
<1>2. OrderOf[c] \notin Oversized =>
        Cardinality(CapturedOf(c)' \ {<<c, attempt'[c]>>}) <= dbErrors'
  BY <1>1, StillPaidFor
<1> QED
  BY <1>2 DEF ChargeSound, CapturesCounted

(* All of them.                                                            *)
LEMMA ChargeWorks ==
  ASSUME IInv, NEW c \in ChargeCalls, ChargeSound(c), StartCharge(c) \/ ChargeStep(c)
  PROVE  ChargeSound(c)'
<1> USE PcTypes DEF IInv, TypeOK
<1> DEFINE cur == <<c, attempt[c]>>
<1>0. /\ RowsOf(c)' = RowsOf(c) /\ cur \in RowsOf(c) /\ <<c, 0>> \in RowsOf(c)
      /\ \A r \in RowsOf(c) : r \in RowIds
      /\ KeptOf(c) \in SUBSET RowsOf(c) /\ CapturedOf(c) \in SUBSET RowsOf(c)
      /\ dbErrors \in Nat
  BY BoundsAssumption, RowIdsType DEF RowsOf, RowIds, KeptOf, CapturedOf
<1>a. dbErrors' \in Nat /\ dbErrors <= dbErrors'
  BY <1>0, ChargeCounts
<1>b. UNCHANGED rows => KeptOf(c)' = KeptOf(c)
  BY DEF KeptOf, RowsOf, RowIds
<1>c. UNCHANGED captured => CapturedOf(c)' = CapturedOf(c)
  BY DEF CapturedOf, RowsOf, RowIds
<1>d. OrderOf[c] \notin Oversized /\ dbErrors' = dbErrors + 1 =>
        Cardinality(CapturedOf(c)) <= dbErrors'
  <2>1. CapturedOf(c) \in SUBSET ((CapturedOf(c) \ {cur}) \cup {cur})
    OBVIOUS
  <2>2. /\ Cardinality(CapturedOf(c)) <= Cardinality(CapturedOf(c) \ {cur}) + 1
        /\ Cardinality(CapturedOf(c) \ {cur}) \in Nat /\ Cardinality(CapturedOf(c)) \in Nat
    BY <1>0, <2>1, RowsCounted
  <2>3. OrderOf[c] \notin Oversized => Cardinality(CapturedOf(c) \ {cur}) <= dbErrors
    BY DEF ChargeSound, CapturesCounted
  <2> QED
    BY <1>0, <2>2, <2>3
<1>1. CASE StartCharge(c) \/ GatewayDeclines(c)
  <2>1. /\ pc[c] \notin OnTheWay \cup {"done", "dead"} /\ pc'[c] \in {"charge", "record"}
        /\ UNCHANGED <<rows, captured, dbErrors>>
    BY <1>1 DEF StartCharge, GatewayDeclines, NextAttempt, Goto, OnTheWay, tables
  <2>2. Cardinality(KeptOf(c)) <= dbErrors
    BY <2>1 DEF ChargeSound
  <2>3. OrderOf[c] \notin Oversized => Cardinality(CapturedOf(c)) <= dbErrors
    BY <2>1 DEF ChargeSound, CapturesCounted
  <2> QED
    BY <1>a, <1>b, <1>c, <2>1, <2>2, <2>3, LoopsOn
<1>2. CASE GatewayCaptures(c)
  <2>1. /\ pc[c] = "charge" /\ pc'[c] = "connect" /\ captured' = captured \cup {cur}
        /\ UNCHANGED <<attempt, rows, dbErrors>>
    BY <1>2 DEF GatewayCaptures, Goto, locals, tables
  <2>2. CapturedOf(c)' \ {cur} \in SUBSET CapturedOf(c)
    BY <1>0, <2>1 DEF CapturedOf
  <2>3. OrderOf[c] \notin Oversized => Cardinality(CapturedOf(c)) <= dbErrors
    BY <2>1 DEF ChargeSound, CapturesCounted, OnTheWay
  <2>4. OrderOf[c] \notin Oversized => Cardinality(CapturedOf(c)' \ {cur}) <= dbErrors
    BY <1>0, <2>2, <2>3, StillPaidFor
  <2> QED
    BY <1>b, <2>1, <2>4 DEF ChargeSound, CapturesCounted, OnTheWay
<1>3. CASE BeginTxn(c) \/ AcquireOrderLock(c) \/ CheckIntent(c) \/ InsertPayment(c)
  <2>1. /\ pc[c] \in OnTheWay /\ pc'[c] \in OnTheWay
        /\ UNCHANGED <<attempt, rows, captured, dbErrors>>
    BY <1>3 DEF BeginTxn, AcquireOrderLock, CheckIntent, InsertPayment, Goto, locals, tables,
                OnTheWay
  <2> QED
    BY <1>b, <1>c, <2>1 DEF ChargeSound, CapturesCounted, OnTheWay
<1>4. CASE CommitCharge(c)
  <2>1. /\ pc'[c] = "done" /\ reply'[c] = ChargedStatus(c) /\ pc[c] = "commit"
        /\ rows'[cur] = ChargedStatus(c)
        /\ UNCHANGED <<attempt, intents, captured, dbErrors>>
    BY <1>0, <1>4 DEF CommitCharge, RecordCharge, Answer, Goto, locals, RowsOf
  <2>2. ChargedStatus(c) = "REFUNDED" => OrderOf[c] \in intents
    BY <2>1 DEF ChargedStatus, SeenIsCurrent
  <2>3. ChargedStatus(c) \in {"SUCCESS", "REFUNDED"}
    BY DEF ChargedStatus
  <2>4. ChargeAnswered(c)'
    BY <2>1, <2>2, <2>3 DEF ChargeAnswered
  <2>5. CapturedOf(c) \ KeptOf(c)' \in SUBSET (CapturedOf(c) \ {cur})
    BY <1>0, <2>1, <2>3 DEF KeptOf
  <2>6. OrderOf[c] \notin Oversized => Cardinality(CapturedOf(c) \ {cur}) <= dbErrors
    BY DEF ChargeSound, CapturesCounted
  <2>7. OrderOf[c] \notin Oversized => Cardinality(CapturedOf(c) \ KeptOf(c)') <= dbErrors
    BY <1>0, <2>5, <2>6, StillPaidFor
  <2> QED
    BY <1>c, <2>1, <2>4, <2>6, <2>7 DEF ChargeSound, CapturesCounted
<1>5. CASE ChargeTxnFails(c)
  <2>1. /\ pc[c] \in OnTheWay \cup {"intent", "update"} /\ pc'[c] \in {"charge", "record"}
        /\ dbErrors' = dbErrors + 1 \/ OrderOf[c] \in Oversized
        /\ UNCHANGED <<rows, captured>>
    BY <1>5 DEF ChargeTxnFails, DbFails, NextAttempt, Goto, InTxnPc, OnTheWay, tables
  <2>2. Cardinality(KeptOf(c)) <= dbErrors'
    BY <1>0, <1>a, <2>1, StillPaidFor DEF ChargeSound, OnTheWay
  <2> QED
    BY <1>a, <1>b, <1>c, <1>d, <2>1, <2>2, LoopsOn
<1>6. CASE ChargeCommitUnknown(c)
  <2>1. /\ pc[c] = "commit" /\ pc'[c] \in {"charge", "record"} /\ dbErrors' = dbErrors + 1
        /\ UNCHANGED captured /\ \A r \in RowIds \ {cur} : rows'[r] = rows[r]
    BY <1>6 DEF ChargeCommitUnknown, RecordCharge, DbFails, NextAttempt, Goto
  <2>2. KeptOf(c)' \in SUBSET (KeptOf(c) \cup {cur})
    BY <1>0, <2>1 DEF KeptOf
  <2>3. /\ Cardinality(KeptOf(c)') <= Cardinality(KeptOf(c)) + 1
        /\ Cardinality(KeptOf(c)') \in Nat /\ Cardinality(KeptOf(c)) \in Nat
    BY <1>0, <2>2, RowsCounted
  <2>4. Cardinality(KeptOf(c)) <= dbErrors
    BY <2>1 DEF ChargeSound
  <2>5. Cardinality(KeptOf(c)') <= dbErrors'
    BY <1>0, <2>1, <2>3, <2>4
  <2> QED
    BY <1>a, <1>c, <1>d, <2>1, <2>5, LoopsOn
<1>7. CASE RecordFailed(c) \/ RecordFails(c)
  <2>1. /\ pc[c] = "record" /\ pc'[c] = "done" /\ reply'[c] \in {"FAILED", "INTERNAL"}
        /\ UNCHANGED <<attempt, captured>>
    BY <1>7 DEF RecordFailed, RecordFails, Answer, Goto, locals
  <2>2. /\ reply'[c] = "FAILED" => rows'[<<c, 0>>] = "FAILED"
        /\ \A r \in RowsOf(c) : rows'[r] \in {rows[r], "FAILED"}
    BY <1>0, <1>7 DEF RecordFailed, RecordFails, Answer, tables
  <2>3. KeptOf(c)' \in SUBSET KeptOf(c)
    BY <1>0, <2>2 DEF KeptOf
  <2>4. Cardinality(KeptOf(c)') <= dbErrors'
    BY <1>0, <1>a, <2>1, <2>3, StillPaidFor DEF ChargeSound
  <2>5. ChargeAnswered(c)'
    BY <2>1, <2>2, <2>4 DEF ChargeAnswered
  <2>6. ASSUME OrderOf[c] \notin Oversized PROVE CapturesCounted(c)'
    <3>1. Cardinality(CapturedOf(c)) <= dbErrors
      BY <2>1, <2>6 DEF ChargeSound, CapturesCounted, OnTheWay
    <3>2. \A T \in SUBSET CapturedOf(c) : Cardinality(T) <= dbErrors'
      BY <1>0, <1>a, <3>1, StillPaidFor
    <3> QED
      BY <1>c, <2>1, <3>2 DEF CapturesCounted
  <2> QED
    BY <2>1, <2>5, <2>6 DEF ChargeSound
<1> QED
  BY <1>1, <1>2, <1>3, <1>4, <1>5, <1>6, <1>7 DEF ChargeStep

(* The steps of RefundByOrderId itself.                                    *)
LEMMA RefundWorks ==
  ASSUME IInv, [Next]_vars, NEW c \in RefundCalls, RefundSound(c), StartRefund(c) \/ RefundStep(c)
  PROVE  RefundSound(c)'
<1> USE PcTypes DEF IInv, TypeOK
<1>1. CASE \/ StartRefund(c) \/ BeginTxn(c) \/ AcquireOrderLock(c) \/ WriteIntent(c)
           \/ UpdateRows(c)
  <2>1. pc'[c] \notin {"find", "done"}
    BY <1>1, CallsAssumption
       DEF StartRefund, BeginTxn, AcquireOrderLock, WriteIntent, UpdateRows, Goto
  <2> QED
    BY <2>1, RestingRefund
<1>2. CASE RefundTxnFails(c) \/ RefundCommitUnknown(c) \/ QueryFails(c)
  <2>1. pc'[c] = "done" /\ reply'[c] = "INTERNAL"
    BY <1>2 DEF RefundTxnFails, RefundCommitUnknown, QueryFails, Answer, Goto
  <2> QED
    BY <2>1 DEF RefundSound
<1>3. CASE CommitRefund(c)
  <2>1. /\ intents' = intents \cup {OrderOf[c]}
        /\ \A r \in matched[c] : rows'[r] = "REFUNDED"
        /\ IF matched[c] = {} THEN pc'[c] = "find" ELSE pc'[c] = "done" /\ reply'[c] = "refunded"
    BY <1>3 DEF CommitRefund, ApplyRefund, MarkRows, Answer, Goto
  <2>2. matched[c] = RefundableRows(OrderOf[c])
    BY <1>3 DEF CommitRefund, MatchedIsCurrent
  <2>3. \A r \in matched[c] : r \in RowIds /\ RowOrder(r) = OrderOf[c]
    BY <2>2 DEF RefundableRows
  <2> QED
    BY <2>1, <2>3 DEF RefundSound, RowOrder
<1>4. CASE FindByOrder(c)
  <2>1. pc[c] = "find" /\ pc'[c] = "done" /\ UNCHANGED <<rows, intents>>
    BY <1>4 DEF FindByOrder, Answer, Goto, tables
  <2>2. reply'[c] \in {"refunded", "already refunded"} =>
          \E r \in RowIds : RowOrder(r) = OrderOf[c] /\ rows[r] = "REFUNDED"
    BY <1>4 DEF FindByOrder, Answer
  <2> QED
    BY <2>1, <2>2 DEF RefundSound, RowOrder
<1> QED
  BY <1>1, <1>2, <1>3, <1>4 DEF RefundStep

(* A step of one request lets the others rest; a crash ends them or lets   *)
(* them be.                                                                *)
LEMMA AnswersStep == IInv /\ AnswersSound /\ [Next]_vars => AnswersSound'
<1> SUFFICES ASSUME IInv, AnswersSound, [Next]_vars PROVE AnswersSound'
  OBVIOUS
<1> USE PcTypes, CallsAssumption DEF IInv, TypeOK, AnswersSound
<1>1. ASSUME NEW c \in ChargeCalls, StartCharge(c) \/ ChargeStep(c)
      PROVE  AnswersSound'
  <2>1. \A d \in Calls \ {c} : pc'[d] = pc[d] /\ reply'[d] = reply[d]
    BY <1>1, ChargeMoves, ChargeCounts
  <2>2. ASSUME NEW d \in ChargeCalls \ {c} PROVE ChargeSound(d)'
    <3>1. attempt'[d] = attempt[d] /\ dbErrors' \in Nat /\ dbErrors <= dbErrors'
      BY <1>1, ChargeLocals, ChargeCounts, BoundsAssumption
    <3>2. CapturedOf(d)' = CapturedOf(d)
      <4>1. <<c, attempt[c]>>[1] # d
        OBVIOUS
      <4> QED
        BY <1>1, <4>1, ChargeCounts DEF CapturedOf, RowsOf, RowIds
    <3>3. \A r \in RowsOf(d) : rows[r] = "none" => rows'[r] = "none"
      BY <1>1, OwnRow DEF RowsOf
    <3> QED
      BY <2>1, <3>1, <3>2, <3>3, RestingCharge DEF Rests
  <2>3. ChargeSound(c)'
    BY <1>1, ChargeWorks
  <2>4. \A d \in RefundCalls : RefundSound(d)'
    BY <2>1, RestingRefund
  <2> QED
    BY <2>2, <2>3, <2>4
<1>2. ASSUME NEW c \in RefundCalls, StartRefund(c) \/ RefundStep(c)
      PROVE  AnswersSound'
  <2>1. \A d \in Calls \ {c} : pc'[d] = pc[d] /\ reply'[d] = reply[d]
    BY <1>2, RefundMoves, RefundCounts
  <2>2. ASSUME NEW d \in ChargeCalls PROVE ChargeSound(d)'
    <3>1. /\ attempt' = attempt /\ captured' = captured
          /\ dbErrors' \in Nat /\ dbErrors <= dbErrors'
      BY <1>2, RefundTables, RefundCounts, BoundsAssumption
    <3>2. \A r \in RowsOf(d) : rows[r] = "none" => rows'[r] = "none"
      BY <1>2, OwnRow DEF RowsOf
    <3> QED
      BY <2>1, <3>1, <3>2, RestingCharge DEF Rests, CapturedOf, RowsOf, RowIds
  <2>3. RefundSound(c)'
    BY <1>2, RefundWorks
  <2>4. \A d \in RefundCalls \ {c} : RefundSound(d)'
    BY <2>1, RestingRefund
  <2> QED
    BY <2>2, <2>3, <2>4
<1>3. ASSUME NEW c \in IdRefundCalls, StartRefundById(c) \/ IdRefundStep(c)
      PROVE  AnswersSound'
  <2>1. \A d \in Calls \ {c} : pc'[d] = pc[d] /\ reply'[d] = reply[d]
    BY <1>3, IdRefundMoves, IdRefundCounts
  <2>2. ASSUME NEW d \in ChargeCalls PROVE ChargeSound(d)'
    <3>1. /\ attempt' = attempt /\ captured' = captured
          /\ dbErrors' \in Nat /\ dbErrors <= dbErrors'
      BY <1>3, IdRefundTables, IdRefundCounts, BoundsAssumption
    <3>2. \A r \in RowsOf(d) : rows[r] = "none" => rows'[r] = "none"
      BY <1>3, OwnRow DEF RowsOf
    <3> QED
      BY <2>1, <3>1, <3>2, RestingCharge DEF Rests, CapturedOf, RowsOf, RowIds
  <2>3. \A d \in RefundCalls : RefundSound(d)'
    BY <2>1, RestingRefund
  <2> QED
    BY <2>2, <2>3
<1>4. CASE Crash
  <2>1. /\ \A d \in Calls : pc'[d] = pc[d] \/ pc'[d] = "dead"
        /\ UNCHANGED <<reply, dbErrors, attempt, rows, intents, captured>>
    BY <1>4 DEF Crash, locals, tables
  <2>2. ASSUME NEW d \in ChargeCalls PROVE ChargeSound(d)'
    BY <2>1, RestingCharge, BoundsAssumption DEF Rests, CapturedOf, RowsOf, RowIds
  <2>3. \A d \in RefundCalls : RefundSound(d)'
    BY <2>1, RestingRefund
  <2> QED
    BY <2>2, <2>3
<1>5. CASE UNCHANGED vars
  <2>1. \A d \in ChargeCalls : ChargeSound(d)'
    BY <1>5, RestingCharge, BoundsAssumption
       DEF Rests, CapturedOf, RowsOf, RowIds, vars, locals, tables
  <2>2. \A d \in RefundCalls : RefundSound(d)'
    BY <1>5, RestingRefund DEF vars
  <2> QED
    BY <2>1, <2>2
<1> QED
  BY <1>1, <1>2, <1>3, <1>4, <1>5 DEF Next, AllAnswered

(* No request has an answer.                                               *)
LEMMA AnswersInit == Init => AnswersSound
<1> SUFFICES ASSUME Init PROVE AnswersSound
  OBVIOUS
<1>1. ASSUME NEW c \in ChargeCalls PROVE ChargeSound(c)
  <2>1. KeptOf(c) = {} /\ CapturedOf(c) = {} /\ CapturedOf(c) \ {<<c, attempt[c]>>} = {}
    BY <1>1 DEF Init, KeptOf, CapturedOf, RowsOf
  <2>2. Cardinality({}) = 0 /\ dbErrors = 0 /\ pc[c] = "idle"
    BY <1>1, PcTypes, FS_EmptySet DEF Init
  <2> QED
    BY <2>1, <2>2 DEF ChargeSound, CapturesCounted
<1>2. ASSUME NEW c \in RefundCalls PROVE RefundSound(c)
  BY <1>2, PcTypes DEF Init, RefundSound
<1> QED
  BY <1>1, <1>2 DEF AnswersSound

(* Together with the inductive invariant of PaymentServiceProofs.          *)
LEMMA AnswersInvariant == Spec => [](IInv /\ AnswersSound)
<1>1. Init => IInv /\ AnswersSound
  BY InitInv, AnswersInit
<1>2. IInv /\ AnswersSound /\ [Next]_vars => (IInv /\ AnswersSound)'
  BY NextInv, AnswersStep
<1> QED
  BY <1>1, <1>2, PTL DEF Spec
-----------------------------------------------------------------------------
(* A RefundByOrderId answered without an error is final: whatever charges  *)
(* were with the gateway by then, or come later, nothing is kept.          *)
THEOREM RefundIsFinal == Spec => []RefundAnswerIsFinal
<1>1. IInv /\ AnswersSound => RefundAnswerIsFinal
  BY DEF IInv, RefundIntentHonoured, RefundableRows, AnswersSound, RefundSound,
         RefundAnswerIsFinal
<1> QED
  BY <1>1, AnswersInvariant, PTL

(* The answers agree with the tables, from the moment they are given on.   *)
THEOREM AnswersMatch == Spec => []AnswerMatchesTables
<1>1. AnswersSound => AnswerMatchesTables
  BY DEF AnswersSound, ChargeSound, ChargeAnswered, RefundSound, AnswerMatchesTables
<1> QED
  BY <1>1, AnswersInvariant, PTL

(* Each capture beyond the first of a request, and each one an answered    *)
(* request has no row of, was paid for by a failure of the database, for   *)
(* any retry limit and any number of failures and crashes.                 *)
THEOREM ExtraChargesCaused == Spec => []ExtraChargesHaveACause
<1>1. IInv /\ AnswersSound => ExtraChargesHaveACause
  <2>1. SUFFICES ASSUME IInv, AnswersSound, NEW c \in ChargeCalls, OrderOf[c] \notin Oversized
                 PROVE  /\ Cardinality(CapturedOf(c)) <= 1 + dbErrors
                        /\ pc[c] = "done" =>
                             Cardinality(CapturedOf(c) \ KeptOf(c)) <= dbErrors
    BY DEF ExtraChargesHaveACause
  <2> DEFINE cur == <<c, attempt[c]>>
  <2>2. CapturesCounted(c)
    BY <2>1 DEF AnswersSound, ChargeSound
  <2>3. /\ CapturedOf(c) \ {cur} \in SUBSET RowsOf(c)
        /\ CapturedOf(c) \in SUBSET ((CapturedOf(c) \ {cur}) \cup {cur})
    BY DEF CapturedOf
  <2>4. /\ Cardinality(CapturedOf(c)) <= Cardinality(CapturedOf(c) \ {cur}) + 1
        /\ Cardinality(CapturedOf(c) \ {cur}) \in Nat /\ Cardinality(CapturedOf(c)) \in Nat
    BY <2>3, RowsCounted
  <2>5. dbErrors \in Nat
    BY <2>1, BoundsAssumption DEF IInv, TypeOK
  <2> QED
    BY <2>2, <2>4, <2>5 DEF CapturesCounted
<1> QED
  BY <1>1, AnswersInvariant, PTL
-----------------------------------------------------------------------------
(* Who writes refunded_at of a payment that was refunded already.          *)
LEMMA RefundedAgain ==
  ASSUME IInv, [Next]_vars, NEW r \in RowIds, rows[r] = "REFUNDED",
         refundedAt'[r] # refundedAt[r]
  PROVE  \E c \in IdRefundCalls : MarkRefunded(c) /\ target[c] = r
<1> USE DEF IInv, TypeOK
<1>1. ~\E c \in ChargeCalls : StartCharge(c) \/ ChargeStep(c)
  <2>1. SUFFICES ASSUME NEW c \in ChargeCalls, StartCharge(c) \/ ChargeStep(c) PROVE FALSE
    OBVIOUS
  <2>2. CASE RecordCharge(c) /\ pc[c] = "commit"
    BY <2>2 DEF RecordCharge, AttemptIsNew
  <2>3. CASE UNCHANGED refundedAt
    BY <2>3
  <2> QED
    BY <2>1, <2>2, <2>3
       DEF StartCharge, ChargeStep, GatewayCaptures, GatewayDeclines, BeginTxn,
           AcquireOrderLock, CheckIntent, InsertPayment, CommitCharge, ChargeTxnFails,
           ChargeCommitUnknown, RecordFailed, RecordFails, tables
<1>2. ~\E c \in RefundCalls : StartRefund(c) \/ RefundStep(c)
  <2>1. SUFFICES ASSUME NEW c \in RefundCalls, StartRefund(c) \/ RefundStep(c) PROVE FALSE
    OBVIOUS
  <2>2. CASE ApplyRefund(c) /\ pc[c] = "commit"
    BY <2>2 DEF ApplyRefund, MarkRows, MatchedIsCurrent, RefundableRows
  <2>3. CASE UNCHANGED refundedAt
    BY <2>3
  <2> QED
    BY <2>1, <2>2, <2>3
       DEF StartRefund, RefundStep, BeginTxn, AcquireOrderLock, WriteIntent, UpdateRows,
           CommitRefund, RefundTxnFails, RefundCommitUnknown, FindByOrder, QueryFails, tables
<1>3. ASSUME NEW c \in IdRefundCalls, StartRefundById(c) \/ IdRefundStep(c)
      PROVE  MarkRefunded(c) /\ target[c] = r
  <2>1. ~UNCHANGED refundedAt
    OBVIOUS
  <2>2. MarkRefunded(c)
    BY <1>3, <2>1 DEF StartRefundById, IdRefundStep, FindById, Settle, QueryFails, tables
  <2> QED
    BY <2>2 DEF MarkRefunded, MarkRows
<1>4. ~Crash /\ ~UNCHANGED vars
  BY DEF Crash, vars, tables
<1> QED
  BY <1>1, <1>2, <1>3, <1>4 DEF Next, AllAnswered

(* refunded_at is written again only by a RefundPayment, the call by       *)
(* payment id, whose UPDATE does not look at the status.                   *)
THEOREM RefundedAgainById ==
  Spec => [][\A r \in RowIds : rows[r] = "REFUNDED" /\ refundedAt'[r] # refundedAt[r] =>
               \E c \in IdRefundCalls : MarkRefunded(c) /\ target[c] = r]_vars
<1>1. IInv /\ [Next]_vars =>
        [\A r \in RowIds : rows[r] = "REFUNDED" /\ refundedAt'[r] # refundedAt[r] =>
           \E c \in IdRefundCalls : MarkRefunded(c) /\ target[c] = r]_vars
  BY RefundedAgain
<1> QED
  BY <1>1, Invariant, PTL DEF Spec

(* So RefundByOrderId, the saga's compensation, may be repeated: alone it  *)
(* never refunds a payment twice.                                          *)
THEOREM RefundsOnce == ASSUME IdRefundCalls = {} PROVE Spec => RefundedOnce
<1>1. IInv /\ [Next]_vars =>
        [\A r \in RowIds : rows[r] = "REFUNDED" => refundedAt'[r] = refundedAt[r]]_vars
  BY RefundedAgain
<1> QED
  BY <1>1, Invariant, PTL DEF Spec, RefundedOnce
=============================================================================
