------------------------ MODULE CreateOrderSagaProofs ------------------------
(***************************************************************************)
(* Proofs about CreateOrderSaga for every number of sagas and of charges   *)
(* payment-service records for one request.                                *)
(***************************************************************************)
EXTENDS CreateOrderSaga, SequenceTheorems, TLAPS

(* Sequences of one and two elements.                                      *)
LEMMA ShortSequences ==
  ASSUME NEW a, NEW b, NEW q \in Seq({a, b})
  PROVE  /\ Len(q) = 1 /\ q[1] = a => q = <<a>>
         /\ Len(q) = 2 /\ q[1] = a /\ q[2] = b => q = <<a, b>>
OBVIOUS

(* What append and the removal of the last member do to them.              *)
LEMMA ShortenAndExtend ==
  ASSUME NEW a, NEW b
  PROVE  /\ Append(<<a>>, b) = <<a, b>>
         /\ SubSeq(<<a, b>>, 1, 1) = <<a>>
         /\ <<>> # <<a>> /\ <<>> # <<a, b>> /\ <<a>> # <<a, b>>
<1>1. <<a, b>> \in Seq({a, b}) /\ <<a>> \in Seq({a, b}) /\ b \in {a, b}
  OBVIOUS
<1>2. /\ Append(<<a>>, b) \in Seq({a, b})
      /\ Len(Append(<<a>>, b)) = 2
      /\ Append(<<a>>, b)[1] = a /\ Append(<<a>>, b)[2] = b
  BY <1>1, AppendProperties
<1>3. /\ SubSeq(<<a, b>>, 1, 1) \in Seq({a, b})
      /\ Len(SubSeq(<<a, b>>, 1, 1)) = 1
      /\ SubSeq(<<a, b>>, 1, 1)[1] = a
  BY <1>1, SubSeqProperties
<1>4. Len(<<>>) = 0 /\ Len(<<a>>) = 1 /\ Len(<<a, b>>) = 2
  OBVIOUS
<1>5. <<>> # <<a>> /\ <<>> # <<a, b>> /\ <<a>> # <<a, b>>
  BY <1>4
<1> QED
  BY <1>2, <1>3, <1>5, ShortSequences

(* The array of compensations, as it grows and as it is worked off.        *)
LEMMA ArrayFacts ==
  /\ Append(<<>>, "refund") = <<"refund">>
  /\ Append(<<"refund">>, "cancel") = Full
  /\ LatestFirst(<<"refund">>) = [next |-> "refund", rest |-> <<>>]
  /\ LatestFirst(Full) = [next |-> "cancel", rest |-> <<"refund">>]
  /\ <<>> # <<"refund">> /\ <<>> # Full /\ <<"refund">> # Full
<1>1. \A a : Append(<<>>, a) = <<a>> /\ SubSeq(<<a>>, 1, 0) = <<>>
  OBVIOUS
<1>2. \A a : Len(<<a>>) = 1 /\ <<a>>[1] = a
  OBVIOUS
<1>3. \A a, b : Len(<<a, b>>) = 2 /\ <<a, b>>[2] = b
  OBVIOUS
<1>4. LatestFirst(<<"refund">>) = [next |-> "refund", rest |-> <<>>]
  BY <1>1, <1>2 DEF LatestFirst
<1>5. SubSeq(Full, 1, 1) = <<"refund">> /\ Len(Full) = 2 /\ Full[2] = "cancel"
  BY <1>3, ShortenAndExtend DEF Full
<1>6. LatestFirst(Full) = [next |-> "cancel", rest |-> <<"refund">>]
  <2>1. Len(Full) - 1 = 1
    BY <1>5
  <2>2. Full[Len(Full)] = "cancel"
    BY <1>5, Zenon
  <2>3. SubSeq(Full, 1, Len(Full) - 1) = <<"refund">>
    BY <1>5, <2>1, Zenon
  <2> QED
    BY <2>2, <2>3, Zenon DEF LatestFirst
<1> QED
  BY <1>1, <1>4, <1>6, ShortenAndExtend DEF Full

(* Each charge is of one order.                                            *)
LEMMA ChargesApart ==
  ASSUME NEW s \in Sagas, NEW t \in Sagas, s # t
  PROVE  ChargesOf(s) \cap ChargesOf(t) = {}
BY DEF ChargesOf

(* The order of a charge is that of its saga.                              *)
LEMMA ChargeOrders ==
  ASSUME NEW s \in Sagas, NEW r \in ChargesOf(s)
  PROVE  r \in Charges /\ [q \in Charges |-> q[1]][r] = s
BY DEF ChargesOf

(* What registering a compensation and running the latest one do.          *)
LEMMA RegisterEffect ==
  ASSUME TypeOK, NEW s \in Sagas, RegisteredAsFarAsDone(s)
  PROVE  /\ pc[s] = "product" /\ Register(s, "refund") =>
              compensations' = [compensations EXCEPT ![s] = <<"refund">>]
         /\ pc[s] = "payment" /\ Register(s, "cancel") =>
              compensations' = [compensations EXCEPT ![s] = Full]
BY ArrayFacts DEF TypeOK, RegisteredAsFarAsDone, Register

(* What runs next is the latest compensation that is registered.           *)
LEMMA MustRunRegistered ==
  ASSUME TypeOK, NEW s \in Sagas
  PROVE  /\ MustRun(s, "cancel") => compensations[s] = Full
         /\ MustRun(s, "refund") => compensations[s] = <<"refund">>
<1>1. compensations[s] \in {<<>>, <<"refund">>, Full}
  BY DEF TypeOK, Full
<1>2. /\ LatestFirst(<<"refund">>).next = "refund"
      /\ LatestFirst(Full).next = "cancel"
  BY ArrayFacts
<1> QED
  BY <1>1, <1>2 DEF MustRun

(* A compensation that ran is no longer registered.                        *)
LEMMA DoneEffect ==
  ASSUME NEW s \in Sagas, NEW name, NEW threw, Done(s, name, threw)
  PROVE  /\ compensations[s] = Full =>
              compensations' = [compensations EXCEPT ![s] = <<"refund">>]
         /\ compensations[s] = <<"refund">> =>
              compensations' = [compensations EXCEPT ![s] = <<>>]
         /\ failed' = [failed EXCEPT ![s] = IF threw THEN @ \cup {name} ELSE @]
<1>1. Remaining(Full, threw) = <<"refund">> /\ Remaining(<<"refund">>, threw) = <<>>
  BY ArrayFacts DEF Remaining
<1> QED
  BY <1>1 DEF Done
-----------------------------------------------------------------------------
(* What the calls of payment-service do to the money of their own saga and *)
(* of the others.                                                          *)
LEMMA RecordEffect ==
  ASSUME TypeOK, NEW s \in Sagas, NEW status, Record(s, status)
  PROVE  /\ Ledger!TypeOK'
         /\ UNCHANGED cancelled
         /\ \A t \in Sagas \ {s} : kept' \cap ChargesOf(t) = kept \cap ChargesOf(t)
         /\ \/ status = "SUCCESS" /\ s \notin cancelled /\ kept' \cap ChargesOf(s) # {}
            \/ status = "REFUNDED" /\ s \in cancelled /\ UNCHANGED kept
<1>1. PICK r \in ChargesOf(s) : \/ Ledger!Take(r) /\ status = "SUCCESS"
                                \/ Ledger!TakeCancelled(r) /\ status = "REFUNDED"
  BY DEF Record
<1>2. r \in Charges /\ [q \in Charges |-> q[1]][r] = s
  BY ChargeOrders
<1>3. \A t \in Sagas \ {s} : r \notin ChargesOf(t)
  BY ChargesApart
<1>4. CASE Ledger!Take(r) /\ status = "SUCCESS"
  BY <1>2, <1>3, <1>4 DEF TypeOK, Ledger!TypeOK, Ledger!Take
<1>5. CASE Ledger!TakeCancelled(r) /\ status = "REFUNDED"
  BY <1>2, <1>3, <1>5 DEF TypeOK, Ledger!TypeOK, Ledger!TakeCancelled
<1> QED
  BY <1>1, <1>4, <1>5

(* The refund touches the charges of its own order only.                   *)
LEMMA CancelEffect ==
  ASSUME TypeOK, NEW s \in Sagas, Ledger!Cancel(s)
  PROVE  /\ Ledger!TypeOK'
         /\ cancelled' = cancelled \cup {s}
         /\ kept' \cap ChargesOf(s) = {}
         /\ \A t \in Sagas \ {s} : kept' \cap ChargesOf(t) = kept \cap ChargesOf(t)
<1>1. Ledger!ChargesOf(kept, s) = kept \cap ChargesOf(s)
  BY DEF TypeOK, Ledger!TypeOK, Ledger!ChargesOf, ChargesOf
<1> QED
  BY <1>1, ChargesApart DEF TypeOK, Ledger!TypeOK, Ledger!Cancel
-----------------------------------------------------------------------------
(* What belongs to one saga: an action of another leaves it alone, and     *)
(* the invariant speaks of nothing else.                                   *)
Same(t) ==
  /\ pc'[t] = pc[t] /\ compensations'[t] = compensations[t] /\ failed'[t] = failed[t]
  /\ payCall'[t] = payCall[t] /\ payAnswer'[t] = payAnswer[t]
  /\ refundCall'[t] = refundCall[t] /\ refundAnswer'[t] = refundAnswer[t]
  /\ orders'[t] = orders[t]
  /\ t \in lateInserts' <=> t \in lateInserts
  /\ t \in abandoned' <=> t \in abandoned
  /\ wire'[t] = wire[t] /\ delivered'[t] = delivered[t]
  /\ settled'[t] = settled[t] /\ rejected'[t] = rejected[t]
  /\ t \in cancelled' <=> t \in cancelled
  /\ kept' \cap ChargesOf(t) = kept \cap ChargesOf(t)

Others(s) == \A t \in Sagas \ {s} : Same(t)

(* A saga nothing happens to stays sound.                                  *)
LEMMA SameIsSound ==
  ASSUME NEW t \in Sagas, Sound(t), Same(t)
  PROVE  Sound(t)'
<1>1. \A m : Sent(t, m)' <=> Sent(t, m)
  BY DEF Same, Sent
<1>2. ChargesOf(t)' = ChargesOf(t)
  BY DEF ChargesOf, Charges
<1> USE DEF Same, Sound
<1>3. RegisteredAsFarAsDone(t)' /\ CalledAsRegistered(t)'
  BY DEF RegisteredAsFarAsDone, CalledAsRegistered
<1>4. MoneyMatchesCalls(t)'
  BY <1>2 DEF MoneyMatchesCalls
<1>5. RowMatchesStage(t)'
  BY DEF RowMatchesStage
<1>6. SentAtItsStage(t)'
  BY <1>1 DEF SentAtItsStage
<1> QED
  BY <1>3, <1>4, <1>5, <1>6

(* So a step of one saga has to be looked at for that saga only.           *)
LEMMA OneSaga ==
  ASSUME IInv, TypeOK', NEW s \in Sagas, Sound(s)', Others(s)
  PROVE  IInv'
BY SameIsSound DEF IInv, Others
-----------------------------------------------------------------------------
(* One lemma per action of a saga or on its behalf: the invariant holds    *)
(* after it, and the other sagas are as they were.  Where the action goes  *)
(* through the array or the wire, its first step says what it assigns.     *)
LEMMA ProcessPaymentInv ==
  ASSUME IInv, NEW s \in Sagas, ProcessPayment(s)
  PROVE  IInv' /\ Others(s)
<1> USE DEF IInv, saga, payment, store, brokers
<1>1. PICK status \in {"SUCCESS", "REFUNDED"} :
        Record(s, status) /\ payAnswer' = [payAnswer EXCEPT ![s] = status]
  BY DEF ProcessPayment
<1>2. TypeOK'
  BY <1>1, RecordEffect DEF TypeOK, ProcessPayment
<1>3. Others(s)
  BY <1>1, RecordEffect DEF TypeOK, ProcessPayment, Same, Others
<1>4. Sound(s)'
  <2>1. RegisteredAsFarAsDone(s)'
    BY <1>1, SagaAssumption
       DEF TypeOK, Sound, ProcessPayment, RegisteredAsFarAsDone, CalledAsRegistered
  <2>2. CalledAsRegistered(s)'
    BY <1>1 DEF TypeOK, Sound, ProcessPayment, CalledAsRegistered
  <2>3. MoneyMatchesCalls(s)'
    BY <1>1, RecordEffect DEF TypeOK, Sound, ProcessPayment, MoneyMatchesCalls, ChargesOf
  <2>4. RowMatchesStage(s)' /\ SentAtItsStage(s)'
    BY <1>1 DEF TypeOK, Sound, ProcessPayment, RowMatchesStage, SentAtItsStage, Sent
  <2> QED
    BY <2>1, <2>2, <2>3, <2>4 DEF Sound
<1> QED
  BY <1>2, <1>3, <1>4, OneSaga

(* The refund is registered before the charge is asked for.                *)
LEMMA GetProductInv ==
  ASSUME IInv, NEW s \in Sagas, GetProduct(s)
  PROVE  IInv' /\ Others(s)
<1> USE ArrayFacts, SagaAssumption DEF IInv, saga, payment, store, brokers
<1>0. /\ pc[s] = "product"
      /\ \/ /\ compensations' = [compensations EXCEPT ![s] = <<"refund">>]
            /\ payCall' = [payCall EXCEPT ![s] = "running"]
            /\ pc' = [pc EXCEPT ![s] = "payment"]
         \/ /\ pc' = [pc EXCEPT ![s] = "compensate"]
            /\ UNCHANGED <<compensations, payCall>>
      /\ UNCHANGED <<failed, payAnswer, refundCall, refundAnswer, kept, returned,
                     cancelled, store, brokers>>
  BY RegisterEffect DEF Sound, GetProduct, Goto
<1>1. TypeOK'
  <2>1. /\ pc' \in [Sagas -> Pcs]
        /\ compensations' \in [Sagas -> {<<>>, <<"refund">>, <<"refund", "cancel">>}]
        /\ payCall' \in [Sagas -> {"none", "running", "ended"}]
    <3>1. /\ compensations' = [compensations EXCEPT ![s] = <<"refund">>] \/ UNCHANGED compensations
          /\ payCall' = [payCall EXCEPT ![s] = "running"] \/ UNCHANGED payCall
          /\ \E l \in {"payment", "compensate"} : pc' = [pc EXCEPT ![s] = l]
      BY <1>0
    <3> QED
      BY <3>1 DEF TypeOK, Pcs
  <2>2. Ledger!TypeOK'
    BY <1>0 DEF TypeOK, Ledger!TypeOK
  <2> QED
    BY <1>0, <2>1, <2>2 DEF TypeOK
<1>2. Others(s)
  BY <1>0 DEF TypeOK, Same, Others
<1>3. RegisteredAsFarAsDone(s)'
  BY <1>0 DEF TypeOK, Sound, RegisteredAsFarAsDone, CalledAsRegistered
<1>4. CalledAsRegistered(s)'
  BY <1>0 DEF TypeOK, Sound, RegisteredAsFarAsDone, CalledAsRegistered
<1>5. MoneyMatchesCalls(s)'
  BY <1>0 DEF TypeOK, Sound, MoneyMatchesCalls, RegisteredAsFarAsDone, CalledAsRegistered, ChargesOf
<1>6. RowMatchesStage(s)'
  BY <1>0 DEF TypeOK, Sound, RegisteredAsFarAsDone, RowMatchesStage
<1>7. SentAtItsStage(s)'
  BY <1>0 DEF TypeOK, Sound, RegisteredAsFarAsDone, RowMatchesStage, SentAtItsStage, Sent, Announcements, Messages
<1> QED
  BY <1>1, <1>2, <1>3, <1>4, <1>5, <1>6, <1>7, OneSaga DEF Sound

(* The charge succeeded, or the rollback begins.                           *)
LEMMA PaymentAnsweredInv ==
  ASSUME IInv, NEW s \in Sagas, PaymentAnswered(s)
  PROVE  IInv' /\ Others(s)
<1> USE ArrayFacts DEF IInv, saga, payment, store, brokers
<1>0. /\ pc[s] = "payment" /\ compensations[s] = <<"refund">> /\ refundCall[s] = "none"
      /\ \/ /\ payAnswer[s] = "SUCCESS"
            /\ compensations' = [compensations EXCEPT ![s] = Full]
            /\ pc' = [pc EXCEPT ![s] = "insert"]
         \/ /\ pc' = [pc EXCEPT ![s] = "compensate"]
            /\ UNCHANGED compensations
      /\ UNCHANGED <<failed, payment, store, brokers>>
  BY RegisterEffect DEF Sound, PaymentAnswered, Goto, RegisteredAsFarAsDone, CalledAsRegistered
<1>1. TypeOK'
  BY <1>0 DEF TypeOK, Ledger!TypeOK, Pcs, Messages, Announcements, Full
<1>2. Others(s)
  BY <1>0 DEF TypeOK, Same, Others
<1>3. RegisteredAsFarAsDone(s)'
  BY <1>0 DEF TypeOK, Sound, RegisteredAsFarAsDone, CalledAsRegistered
<1>4. CalledAsRegistered(s)'
  BY <1>0 DEF TypeOK, Sound, RegisteredAsFarAsDone, CalledAsRegistered
<1>5. MoneyMatchesCalls(s)'
  BY <1>0 DEF TypeOK, Sound, MoneyMatchesCalls, RegisteredAsFarAsDone, CalledAsRegistered, ChargesOf
<1>6. RowMatchesStage(s)'
  BY <1>0 DEF TypeOK, Sound, RegisteredAsFarAsDone, RowMatchesStage
<1>7. SentAtItsStage(s)'
  BY <1>0 DEF TypeOK, Sound, RegisteredAsFarAsDone, RowMatchesStage, SentAtItsStage, Sent, Announcements, Messages
<1> QED
  BY <1>1, <1>2, <1>3, <1>4, <1>5, <1>6, <1>7, OneSaga DEF Sound

(* The order is cancelled while its money is still there.                  *)
LEMMA CancelOrderInv ==
  ASSUME IInv, NEW s \in Sagas, CancelOrder(s)
  PROVE  IInv' /\ Others(s)
<1> USE ArrayFacts DEF IInv, saga, payment, store, brokers
<1>0. /\ pc[s] = "compensate" /\ compensations[s] = Full
      /\ compensations' = [compensations EXCEPT ![s] = <<"refund">>]
      /\ failed' \in [Sagas -> SUBSET {"refund", "cancel"}] /\ failed'[s] \subseteq {"cancel"}
      /\ \A t \in Sagas \ {s} : failed'[t] = failed[t]
      /\ orders' = [orders EXCEPT ![s] = IF @ = "none" THEN @ ELSE "CANCELLED"]
      /\ UNCHANGED <<pc, payment, lateInserts, abandoned, brokers>>
  <2>1. pc[s] = "compensate" /\ compensations[s] = Full /\ failed[s] = {}
    BY MustRunRegistered DEF CancelOrder, MustRun, Sound, RegisteredAsFarAsDone
  <2>2. PICK threw \in BOOLEAN : Done(s, "cancel", threw)
    BY DEF CancelOrder
  <2> QED
    BY <2>1, <2>2, DoneEffect DEF CancelOrder, TypeOK
<1>1. TypeOK'
  BY <1>0 DEF TypeOK, Ledger!TypeOK, Pcs, Messages, Announcements, Full
<1>2. Others(s)
  BY <1>0 DEF TypeOK, Same, Others
<1>3. RegisteredAsFarAsDone(s)'
  <2>1. RegisteredAsFarAsDone(s)
    BY DEF Sound
  <2>2. /\ pc[s] = "compensate" /\ pc'[s] = "compensate"
        /\ compensations'[s] = <<"refund">> /\ "refund" \notin failed'[s]
    BY <1>0, <2>1 DEF TypeOK, RegisteredAsFarAsDone
  <2> QED
    BY <2>2 DEF RegisteredAsFarAsDone
<1>4. CalledAsRegistered(s)'
  BY <1>0 DEF TypeOK, Sound, RegisteredAsFarAsDone, CalledAsRegistered
<1>5. MoneyMatchesCalls(s)'
  BY <1>0 DEF TypeOK, Sound, MoneyMatchesCalls, RegisteredAsFarAsDone, CalledAsRegistered, ChargesOf
<1>6. RowMatchesStage(s)'
  BY <1>0 DEF TypeOK, Sound, RegisteredAsFarAsDone, RowMatchesStage
<1>7. SentAtItsStage(s)'
  BY <1>0 DEF TypeOK, Sound, RegisteredAsFarAsDone, RowMatchesStage, SentAtItsStage, Sent, Announcements, Messages
<1> QED
  BY <1>1, <1>2, <1>3, <1>4, <1>5, <1>6, <1>7, OneSaga DEF Sound

(* It is not, and the refund is tried all the same.                        *)
LEMMA CancelFailsInv ==
  ASSUME IInv, NEW s \in Sagas, CancelFails(s)
  PROVE  IInv' /\ Others(s)
<1> USE ArrayFacts DEF IInv, saga, payment, store, brokers
<1>0. /\ pc[s] = "compensate" /\ compensations[s] = Full
      /\ compensations' = [compensations EXCEPT ![s] = <<"refund">>]
      /\ failed' = [failed EXCEPT ![s] = @ \cup {"cancel"}]
      /\ UNCHANGED orders
      /\ UNCHANGED <<pc, payment, lateInserts, abandoned, brokers>>
  BY MustRunRegistered, DoneEffect DEF CancelFails, MustRun, TypeOK
<1>1. TypeOK'
  BY <1>0 DEF TypeOK, Ledger!TypeOK, Pcs, Messages, Announcements, Full
<1>2. Others(s)
  BY <1>0 DEF TypeOK, Same, Others
<1>3. RegisteredAsFarAsDone(s)'
  BY <1>0 DEF TypeOK, Sound, RegisteredAsFarAsDone, CalledAsRegistered
<1>4. CalledAsRegistered(s)'
  BY <1>0 DEF TypeOK, Sound, RegisteredAsFarAsDone, CalledAsRegistered
<1>5. MoneyMatchesCalls(s)'
  BY <1>0 DEF TypeOK, Sound, MoneyMatchesCalls, RegisteredAsFarAsDone, CalledAsRegistered, ChargesOf
<1>6. RowMatchesStage(s)'
  BY <1>0 DEF TypeOK, Sound, RegisteredAsFarAsDone, RowMatchesStage
<1>7. SentAtItsStage(s)'
  BY <1>0 DEF TypeOK, Sound, RegisteredAsFarAsDone, RowMatchesStage, SentAtItsStage, Sent, Announcements, Messages
<1> QED
  BY <1>1, <1>2, <1>3, <1>4, <1>5, <1>6, <1>7, OneSaga DEF Sound

(* RefundByOrderId is called when only the refund is left.                 *)
LEMMA CallRefundInv ==
  ASSUME IInv, NEW s \in Sagas, CallRefund(s)
  PROVE  IInv' /\ Others(s)
<1> USE ArrayFacts DEF IInv, saga, payment, store, brokers
<1>0. /\ pc[s] = "compensate" /\ compensations[s] = <<"refund">>
      /\ refundCall' = [refundCall EXCEPT ![s] = "running"]
      /\ pc' = [pc EXCEPT ![s] = "refunding"]
      /\ UNCHANGED <<compensations, failed, payCall, payAnswer, refundAnswer, kept,
                     returned, cancelled, store, brokers>>
  BY MustRunRegistered DEF CallRefund, MustRun, Goto
<1>1. TypeOK'
  BY <1>0 DEF TypeOK, Ledger!TypeOK, Pcs, Messages, Announcements, Full
<1>2. Others(s)
  BY <1>0 DEF TypeOK, Same, Others
<1>3. RegisteredAsFarAsDone(s)'
  BY <1>0 DEF TypeOK, Sound, RegisteredAsFarAsDone, CalledAsRegistered
<1>4. CalledAsRegistered(s)'
  BY <1>0 DEF TypeOK, Sound, RegisteredAsFarAsDone, CalledAsRegistered
<1>5. MoneyMatchesCalls(s)'
  BY <1>0 DEF TypeOK, Sound, MoneyMatchesCalls, RegisteredAsFarAsDone, CalledAsRegistered, ChargesOf
<1>6. RowMatchesStage(s)'
  BY <1>0 DEF TypeOK, Sound, RegisteredAsFarAsDone, RowMatchesStage
<1>7. SentAtItsStage(s)'
  BY <1>0 DEF TypeOK, Sound, RegisteredAsFarAsDone, RowMatchesStage, SentAtItsStage, Sent, Announcements, Messages
<1> QED
  BY <1>1, <1>2, <1>3, <1>4, <1>5, <1>6, <1>7, OneSaga DEF Sound

(* It answers: the intent is on record, or nothing is.                     *)
LEMMA RefundAnsweredInv ==
  ASSUME IInv, NEW s \in Sagas, RefundAnswered(s)
  PROVE  IInv' /\ Others(s)
<1> USE ArrayFacts DEF IInv, saga, payment, store, brokers
<1>0. /\ pc[s] = "refunding" /\ compensations[s] = <<"refund">>
      /\ compensations' = [compensations EXCEPT ![s] = <<>>]
      /\ refundAnswer[s] \in {"OK", "INTERNAL"}
      /\ failed' = [failed EXCEPT ![s] = IF refundAnswer[s] = "INTERNAL"
                                         THEN @ \cup {"refund"} ELSE @]
      /\ pc' = [pc EXCEPT ![s] = "compensate"]
      /\ UNCHANGED <<payment, store, brokers>>
  <2>1. compensations[s] = <<"refund">>
    BY DEF RefundAnswered, Sound, RegisteredAsFarAsDone
  <2>2. refundAnswer[s] \in {"OK", "INTERNAL"}
    BY DEF RefundAnswered, TypeOK
  <2> QED
    BY <2>1, <2>2, DoneEffect DEF RefundAnswered, Goto, TypeOK
<1>1. TypeOK'
  BY <1>0 DEF TypeOK, Ledger!TypeOK, Pcs, Messages, Announcements, Full
<1>2. Others(s)
  BY <1>0 DEF TypeOK, Same, Others
<1>3. RegisteredAsFarAsDone(s)'
  BY <1>0 DEF TypeOK, Sound, RegisteredAsFarAsDone, CalledAsRegistered
<1>4. CalledAsRegistered(s)'
  BY <1>0 DEF TypeOK, Sound, RegisteredAsFarAsDone, CalledAsRegistered
<1>5. MoneyMatchesCalls(s)'
  BY <1>0 DEF TypeOK, Sound, MoneyMatchesCalls, RegisteredAsFarAsDone, CalledAsRegistered, ChargesOf
<1>6. RowMatchesStage(s)'
  BY <1>0 DEF TypeOK, Sound, RegisteredAsFarAsDone, RowMatchesStage
<1>7. SentAtItsStage(s)'
  BY <1>0 DEF TypeOK, Sound, RegisteredAsFarAsDone, RowMatchesStage, SentAtItsStage, Sent, Announcements, Messages
<1> QED
  BY <1>1, <1>2, <1>3, <1>4, <1>5, <1>6, <1>7, OneSaga DEF Sound

(* It does not, which counts as a compensation that threw.                 *)
LEMMA RefundTimesOutInv ==
  ASSUME IInv, NEW s \in Sagas, RefundTimesOut(s)
  PROVE  IInv' /\ Others(s)
<1> USE ArrayFacts DEF IInv, saga, payment, store, brokers
<1>0. /\ pc[s] = "refunding" /\ compensations[s] = <<"refund">>
      /\ compensations' = [compensations EXCEPT ![s] = <<>>]
      /\ failed' = [failed EXCEPT ![s] = @ \cup {"refund"}]
      /\ pc' = [pc EXCEPT ![s] = "compensate"]
      /\ UNCHANGED <<payment, store, brokers>>
  BY DoneEffect DEF RefundTimesOut, Goto, TypeOK, Sound, RegisteredAsFarAsDone
<1>1. TypeOK'
  BY <1>0 DEF TypeOK, Ledger!TypeOK, Pcs, Messages, Announcements, Full
<1>2. Others(s)
  BY <1>0 DEF TypeOK, Same, Others
<1>3. RegisteredAsFarAsDone(s)'
  BY <1>0 DEF TypeOK, Sound, RegisteredAsFarAsDone, CalledAsRegistered
<1>4. CalledAsRegistered(s)'
  BY <1>0 DEF TypeOK, Sound, RegisteredAsFarAsDone, CalledAsRegistered
<1>5. MoneyMatchesCalls(s)'
  BY <1>0 DEF TypeOK, Sound, MoneyMatchesCalls, RegisteredAsFarAsDone, CalledAsRegistered, ChargesOf
<1>6. RowMatchesStage(s)'
  BY <1>0 DEF TypeOK, Sound, RegisteredAsFarAsDone, RowMatchesStage
<1>7. SentAtItsStage(s)'
  BY <1>0 DEF TypeOK, Sound, RegisteredAsFarAsDone, RowMatchesStage, SentAtItsStage, Sent, Announcements, Messages
<1> QED
  BY <1>1, <1>2, <1>3, <1>4, <1>5, <1>6, <1>7, OneSaga DEF Sound

(* The row is there, CONFIRMED, and the events are published.              *)
LEMMA InsertOrderInv ==
  ASSUME IInv, NEW s \in Sagas, InsertOrder(s)
  PROVE  IInv' /\ Others(s)
<1> USE ArrayFacts DEF IInv, saga, payment, store, brokers
<1>0. /\ pc[s] = "insert"
      /\ orders' = [orders EXCEPT ![s] = "CONFIRMED"]
      /\ wire' \in [Sagas -> SUBSET Messages]
      /\ \A t \in Sagas \ {s} : wire'[t] = wire[t]
      /\ \/ pc' = [pc EXCEPT ![s] = "publish"] /\ wire'[s] \subseteq wire[s] \cup Announcements
         \/ pc' = [pc EXCEPT ![s] = "compensate"] /\ UNCHANGED wire
      /\ UNCHANGED <<compensations, failed, payment, lateInserts, abandoned, delivered,
                     settled, rejected>>
  <2>1. CASE /\ pc' = [pc EXCEPT ![s] = "publish"]
             /\ \E sent \in SUBSET Announcements : Send(s, sent)
    <3>1. PICK sent \in SUBSET Announcements : Send(s, sent)
      BY <2>1
    <3>2. wire \in [Sagas -> SUBSET Messages] /\ sent \subseteq Messages
      BY DEF TypeOK, Messages
    <3> QED
      BY <2>1, <3>1, <3>2 DEF InsertOrder, Send
  <2>2. CASE pc' = [pc EXCEPT ![s] = "compensate"] /\ UNCHANGED wire
    BY <2>2 DEF InsertOrder, TypeOK
  <2> QED
    BY <2>1, <2>2 DEF InsertOrder, Goto
<1>1. TypeOK'
  BY <1>0 DEF TypeOK, Ledger!TypeOK, Pcs, Messages, Announcements, Full
<1>2. Others(s)
  BY <1>0 DEF TypeOK, Same, Others
<1>3. RegisteredAsFarAsDone(s)'
  BY <1>0 DEF TypeOK, Sound, RegisteredAsFarAsDone, CalledAsRegistered
<1>4. CalledAsRegistered(s)'
  BY <1>0 DEF TypeOK, Sound, RegisteredAsFarAsDone, CalledAsRegistered
<1>5. MoneyMatchesCalls(s)'
  BY <1>0 DEF TypeOK, Sound, MoneyMatchesCalls, RegisteredAsFarAsDone, CalledAsRegistered, ChargesOf
<1>6. RowMatchesStage(s)'
  BY <1>0 DEF TypeOK, Sound, RegisteredAsFarAsDone, RowMatchesStage
<1>7. SentAtItsStage(s)'
  BY <1>0 DEF TypeOK, Sound, RegisteredAsFarAsDone, RowMatchesStage, SentAtItsStage, Sent, Announcements, Messages
<1> QED
  BY <1>1, <1>2, <1>3, <1>4, <1>5, <1>6, <1>7, OneSaga DEF Sound

(* ORDER_FAILED goes out after the rollback.                               *)
LEMMA PublishFailedInv ==
  ASSUME IInv, NEW s \in Sagas, PublishFailed(s)
  PROVE  IInv' /\ Others(s)
<1> USE ArrayFacts DEF IInv, saga, payment, store, brokers
<1>0. /\ pc[s] = "compensate" /\ compensations[s] = <<>>
      /\ wire' \in [Sagas -> SUBSET Messages]
      /\ \A t \in Sagas \ {s} : wire'[t] = wire[t]
      /\ wire'[s] \subseteq wire[s] \cup {"ORDER_FAILED"}
      /\ pc' = [pc EXCEPT ![s] = "announce"]
      /\ UNCHANGED <<compensations, failed, payment, store, delivered, settled, rejected>>
  <2>1. PICK sent \in SUBSET {"ORDER_FAILED"} : Send(s, sent)
    BY DEF PublishFailed
  <2>2. wire' = [wire EXCEPT ![s] = @ \cup sent] /\ sent \subseteq Messages
    BY <2>1 DEF Send, Messages
  <2> QED
    BY <2>2 DEF PublishFailed, Goto, TypeOK
<1>1. TypeOK'
  BY <1>0 DEF TypeOK, Ledger!TypeOK, Pcs, Messages, Announcements, Full
<1>2. Others(s)
  BY <1>0 DEF TypeOK, Same, Others
<1>3. RegisteredAsFarAsDone(s)'
  BY <1>0 DEF TypeOK, Sound, RegisteredAsFarAsDone, CalledAsRegistered
<1>4. CalledAsRegistered(s)'
  BY <1>0 DEF TypeOK, Sound, RegisteredAsFarAsDone, CalledAsRegistered
<1>5. MoneyMatchesCalls(s)'
  BY <1>0 DEF TypeOK, Sound, MoneyMatchesCalls, RegisteredAsFarAsDone, CalledAsRegistered, ChargesOf
<1>6. RowMatchesStage(s)'
  BY <1>0 DEF TypeOK, Sound, RegisteredAsFarAsDone, RowMatchesStage
<1>7. SentAtItsStage(s)'
  BY <1>0 DEF TypeOK, Sound, RegisteredAsFarAsDone, RowMatchesStage, SentAtItsStage, Sent, Announcements, Messages
<1> QED
  BY <1>1, <1>2, <1>3, <1>4, <1>5, <1>6, <1>7, OneSaga DEF Sound

(* payment-service gives up a charge.                                      *)
LEMMA PaymentFailsInv ==
  ASSUME IInv, NEW s \in Sagas, PaymentFails(s)
  PROVE  IInv' /\ Others(s)
<1> USE SagaAssumption DEF IInv, saga, payment, store, brokers, PaymentFails
<1>1. TypeOK'
  BY DEF TypeOK, Ledger!TypeOK, Pcs, Messages, Announcements, Full
<1>2. Others(s)
  BY DEF TypeOK, Same, Others
<1>3. RegisteredAsFarAsDone(s)'
  BY DEF TypeOK, Sound, RegisteredAsFarAsDone, CalledAsRegistered
<1>4. CalledAsRegistered(s)'
  BY DEF TypeOK, Sound, RegisteredAsFarAsDone, CalledAsRegistered
<1>5. MoneyMatchesCalls(s)'
  BY DEF TypeOK, Sound, MoneyMatchesCalls, RegisteredAsFarAsDone, CalledAsRegistered, ChargesOf
<1>6. RowMatchesStage(s)'
  BY DEF TypeOK, Sound, RegisteredAsFarAsDone, RowMatchesStage
<1>7. SentAtItsStage(s)'
  BY DEF TypeOK, Sound, RegisteredAsFarAsDone, RowMatchesStage, SentAtItsStage, Sent, Announcements, Messages
<1> QED
  BY <1>1, <1>2, <1>3, <1>4, <1>5, <1>6, <1>7, OneSaga DEF Sound

(* payment-service fails a refund.                                         *)
LEMMA RefundFailsInv ==
  ASSUME IInv, NEW s \in Sagas, RefundFails(s)
  PROVE  IInv' /\ Others(s)
<1> USE SagaAssumption DEF IInv, saga, payment, store, brokers, RefundFails
<1>1. TypeOK'
  BY DEF TypeOK, Ledger!TypeOK, Pcs, Messages, Announcements, Full
<1>2. Others(s)
  BY DEF TypeOK, Same, Others
<1>3. RegisteredAsFarAsDone(s)'
  BY DEF TypeOK, Sound, RegisteredAsFarAsDone, CalledAsRegistered
<1>4. CalledAsRegistered(s)'
  BY DEF TypeOK, Sound, RegisteredAsFarAsDone, CalledAsRegistered
<1>5. MoneyMatchesCalls(s)'
  BY DEF TypeOK, Sound, MoneyMatchesCalls, RegisteredAsFarAsDone, CalledAsRegistered, ChargesOf
<1>6. RowMatchesStage(s)'
  BY DEF TypeOK, Sound, RegisteredAsFarAsDone, RowMatchesStage
<1>7. SentAtItsStage(s)'
  BY DEF TypeOK, Sound, RegisteredAsFarAsDone, RowMatchesStage, SentAtItsStage, Sent, Announcements, Messages
<1> QED
  BY <1>1, <1>2, <1>3, <1>4, <1>5, <1>6, <1>7, OneSaga DEF Sound

(* A client calls CreateOrder.                                             *)
LEMMA CreateOrderInv ==
  ASSUME IInv, NEW s \in Sagas, CreateOrder(s)
  PROVE  IInv' /\ Others(s)
<1> USE DEF IInv, saga, payment, store, brokers, CreateOrder, Goto
<1>1. TypeOK'
  BY DEF TypeOK, Ledger!TypeOK, Pcs, Messages, Announcements, Full
<1>2. Others(s)
  BY DEF TypeOK, Same, Others
<1>3. RegisteredAsFarAsDone(s)'
  BY DEF TypeOK, Sound, RegisteredAsFarAsDone, CalledAsRegistered
<1>4. CalledAsRegistered(s)'
  BY DEF TypeOK, Sound, RegisteredAsFarAsDone, CalledAsRegistered
<1>5. MoneyMatchesCalls(s)'
  BY DEF TypeOK, Sound, MoneyMatchesCalls, RegisteredAsFarAsDone, CalledAsRegistered, ChargesOf
<1>6. RowMatchesStage(s)'
  BY DEF TypeOK, Sound, RegisteredAsFarAsDone, RowMatchesStage
<1>7. SentAtItsStage(s)'
  BY DEF TypeOK, Sound, RegisteredAsFarAsDone, RowMatchesStage, SentAtItsStage, Sent, Announcements, Messages
<1> QED
  BY <1>1, <1>2, <1>3, <1>4, <1>5, <1>6, <1>7, OneSaga DEF Sound

(* user-service answers, or the saga fails with nothing to undo.           *)
LEMMA GetUserInv ==
  ASSUME IInv, NEW s \in Sagas, GetUser(s)
  PROVE  IInv' /\ Others(s)
<1> USE DEF IInv, saga, payment, store, brokers, GetUser, Goto
<1>1. TypeOK'
  BY DEF TypeOK, Ledger!TypeOK, Pcs, Messages, Announcements, Full
<1>2. Others(s)
  BY DEF TypeOK, Same, Others
<1>3. RegisteredAsFarAsDone(s)'
  BY DEF TypeOK, Sound, RegisteredAsFarAsDone, CalledAsRegistered
<1>4. CalledAsRegistered(s)'
  BY DEF TypeOK, Sound, RegisteredAsFarAsDone, CalledAsRegistered
<1>5. MoneyMatchesCalls(s)'
  BY DEF TypeOK, Sound, MoneyMatchesCalls, RegisteredAsFarAsDone, CalledAsRegistered, ChargesOf
<1>6. RowMatchesStage(s)'
  BY DEF TypeOK, Sound, RegisteredAsFarAsDone, RowMatchesStage
<1>7. SentAtItsStage(s)'
  BY DEF TypeOK, Sound, RegisteredAsFarAsDone, RowMatchesStage, SentAtItsStage, Sent, Announcements, Messages
<1> QED
  BY <1>1, <1>2, <1>3, <1>4, <1>5, <1>6, <1>7, OneSaga DEF Sound

(* The deadline of the charge: it may still happen.                        *)
LEMMA PaymentTimesOutInv ==
  ASSUME IInv, NEW s \in Sagas, PaymentTimesOut(s)
  PROVE  IInv' /\ Others(s)
<1> USE DEF IInv, saga, payment, store, brokers, PaymentTimesOut, Goto
<1>1. TypeOK'
  BY DEF TypeOK, Ledger!TypeOK, Pcs, Messages, Announcements, Full
<1>2. Others(s)
  BY DEF TypeOK, Same, Others
<1>3. RegisteredAsFarAsDone(s)'
  BY DEF TypeOK, Sound, RegisteredAsFarAsDone, CalledAsRegistered
<1>4. CalledAsRegistered(s)'
  BY DEF TypeOK, Sound, RegisteredAsFarAsDone, CalledAsRegistered
<1>5. MoneyMatchesCalls(s)'
  <2>1. pc[s] = "payment" /\ compensations[s] = <<"refund">> /\ MoneyMatchesCalls(s)
    BY DEF Sound, RegisteredAsFarAsDone
  <2>2. <<"refund">> # <<>>
    BY ArrayFacts
  <2> QED
    BY <2>1, <2>2 DEF TypeOK, MoneyMatchesCalls, ChargesOf
<1>6. RowMatchesStage(s)'
  BY DEF TypeOK, Sound, RegisteredAsFarAsDone, RowMatchesStage
<1>7. SentAtItsStage(s)'
  BY DEF TypeOK, Sound, RegisteredAsFarAsDone, RowMatchesStage, SentAtItsStage, Sent, Announcements, Messages
<1> QED
  BY <1>1, <1>2, <1>3, <1>4, <1>5, <1>6, <1>7, OneSaga DEF Sound

(* The INSERT reports an error, applied or not.                            *)
LEMMA InsertFailsInv ==
  ASSUME IInv, NEW s \in Sagas, InsertFails(s)
  PROVE  IInv' /\ Others(s)
<1> USE ArrayFacts DEF IInv, saga, payment, store, brokers, InsertFails, Goto
<1>1. TypeOK'
  BY DEF TypeOK, Ledger!TypeOK, Pcs, Messages, Announcements, Full
<1>2. Others(s)
  BY DEF TypeOK, Same, Others
<1>3. RegisteredAsFarAsDone(s)'
  BY DEF TypeOK, Sound, RegisteredAsFarAsDone, CalledAsRegistered
<1>4. CalledAsRegistered(s)'
  BY DEF TypeOK, Sound, RegisteredAsFarAsDone, CalledAsRegistered
<1>5. MoneyMatchesCalls(s)'
  BY DEF TypeOK, Sound, MoneyMatchesCalls, RegisteredAsFarAsDone, CalledAsRegistered, ChargesOf
<1>6. RowMatchesStage(s)'
  BY DEF TypeOK, Sound, RegisteredAsFarAsDone, RowMatchesStage
<1>7. SentAtItsStage(s)'
  BY DEF TypeOK, Sound, RegisteredAsFarAsDone, RowMatchesStage, SentAtItsStage, Sent, Announcements, Messages
<1> QED
  BY <1>1, <1>2, <1>3, <1>4, <1>5, <1>6, <1>7, OneSaga DEF Sound

(* An INSERT that was left behind is applied.                              *)
LEMMA LateInsertInv ==
  ASSUME IInv, NEW s \in Sagas, LateInsert(s)
  PROVE  IInv' /\ Others(s)
<1> USE DEF IInv, saga, payment, store, brokers, LateInsert
<1>1. TypeOK'
  BY DEF TypeOK, Ledger!TypeOK, Pcs, Messages, Announcements, Full
<1>2. Others(s)
  BY DEF TypeOK, Same, Others
<1>3. RegisteredAsFarAsDone(s)'
  BY DEF TypeOK, Sound, RegisteredAsFarAsDone, CalledAsRegistered
<1>4. CalledAsRegistered(s)'
  BY DEF TypeOK, Sound, RegisteredAsFarAsDone, CalledAsRegistered
<1>5. MoneyMatchesCalls(s)'
  BY DEF TypeOK, Sound, MoneyMatchesCalls, RegisteredAsFarAsDone, CalledAsRegistered, ChargesOf
<1>6. RowMatchesStage(s)'
  BY DEF TypeOK, Sound, RegisteredAsFarAsDone, RowMatchesStage
<1>7. SentAtItsStage(s)'
  BY DEF TypeOK, Sound, RegisteredAsFarAsDone, RowMatchesStage, SentAtItsStage, Sent, Announcements, Messages
<1> QED
  BY <1>1, <1>2, <1>3, <1>4, <1>5, <1>6, <1>7, OneSaga DEF Sound

(* The caller is told that the order failed.                               *)
LEMMA FailInv ==
  ASSUME IInv, NEW s \in Sagas, Fail(s)
  PROVE  IInv' /\ Others(s)
<1> USE DEF IInv, saga, payment, store, brokers, Fail, Goto
<1>1. TypeOK'
  BY DEF TypeOK, Ledger!TypeOK, Pcs, Messages, Announcements, Full
<1>2. Others(s)
  BY DEF TypeOK, Same, Others
<1>3. RegisteredAsFarAsDone(s)'
  BY DEF TypeOK, Sound, RegisteredAsFarAsDone, CalledAsRegistered
<1>4. CalledAsRegistered(s)'
  BY DEF TypeOK, Sound, RegisteredAsFarAsDone, CalledAsRegistered
<1>5. MoneyMatchesCalls(s)'
  BY DEF TypeOK, Sound, MoneyMatchesCalls, RegisteredAsFarAsDone, CalledAsRegistered, ChargesOf
<1>6. RowMatchesStage(s)'
  BY DEF TypeOK, Sound, RegisteredAsFarAsDone, RowMatchesStage
<1>7. SentAtItsStage(s)'
  BY DEF TypeOK, Sound, RegisteredAsFarAsDone, RowMatchesStage, SentAtItsStage, Sent, Announcements, Messages
<1> QED
  BY <1>1, <1>2, <1>3, <1>4, <1>5, <1>6, <1>7, OneSaga DEF Sound

(* The caller is told that it is placed.                                   *)
LEMMA RespondInv ==
  ASSUME IInv, NEW s \in Sagas, Respond(s)
  PROVE  IInv' /\ Others(s)
<1> USE DEF IInv, saga, payment, store, brokers, Respond, Conclude, Goto
<1>1. TypeOK'
  BY DEF TypeOK, Ledger!TypeOK, Pcs, Messages, Announcements, Full
<1>2. Others(s)
  BY DEF TypeOK, Same, Others
<1>3. RegisteredAsFarAsDone(s)'
  BY DEF TypeOK, Sound, RegisteredAsFarAsDone, CalledAsRegistered
<1>4. CalledAsRegistered(s)'
  BY DEF TypeOK, Sound, RegisteredAsFarAsDone, CalledAsRegistered
<1>5. MoneyMatchesCalls(s)'
  BY DEF TypeOK, Sound, MoneyMatchesCalls, RegisteredAsFarAsDone, CalledAsRegistered, ChargesOf
<1>6. RowMatchesStage(s)'
  BY DEF TypeOK, Sound, RegisteredAsFarAsDone, RowMatchesStage
<1>7. SentAtItsStage(s)'
  BY DEF TypeOK, Sound, RegisteredAsFarAsDone, RowMatchesStage, SentAtItsStage, Sent, Announcements, Messages
<1> QED
  BY <1>1, <1>2, <1>3, <1>4, <1>5, <1>6, <1>7, OneSaga DEF Sound

(* The broker has a message.                                               *)
LEMMA DeliverInv ==
  ASSUME IInv, NEW s \in Sagas, Deliver(s)
  PROVE  IInv' /\ Others(s)
<1> USE ArrayFacts DEF IInv, saga, payment, store, brokers, Deliver
<1>1. TypeOK'
  BY DEF TypeOK, Ledger!TypeOK, Pcs, Messages, Announcements, Full
<1>2. Others(s)
  BY DEF TypeOK, Same, Others
<1>3. RegisteredAsFarAsDone(s)'
  BY DEF TypeOK, Sound, RegisteredAsFarAsDone, CalledAsRegistered
<1>4. CalledAsRegistered(s)'
  BY DEF TypeOK, Sound, RegisteredAsFarAsDone, CalledAsRegistered
<1>5. MoneyMatchesCalls(s)'
  BY DEF TypeOK, Sound, MoneyMatchesCalls, RegisteredAsFarAsDone, CalledAsRegistered, ChargesOf
<1>6. RowMatchesStage(s)'
  BY DEF TypeOK, Sound, RegisteredAsFarAsDone, RowMatchesStage
<1>7. SentAtItsStage(s)'
  BY DEF TypeOK, Sound, RegisteredAsFarAsDone, RowMatchesStage, SentAtItsStage, Sent, Announcements, Messages
<1> QED
  BY <1>1, <1>2, <1>3, <1>4, <1>5, <1>6, <1>7, OneSaga DEF Sound

(* payment-service refunds, maybe after the deadline.                      *)
LEMMA RefundByOrderIdInv ==
  ASSUME IInv, NEW s \in Sagas, RefundByOrderId(s)
  PROVE  IInv' /\ Others(s)
<1> USE CancelEffect, SagaAssumption DEF IInv, saga, payment, store, brokers, RefundByOrderId
<1>1. TypeOK'
  BY DEF TypeOK, Ledger!TypeOK, Pcs, Messages, Announcements, Full
<1>2. Others(s)
  BY DEF TypeOK, Same, Others
<1>3. RegisteredAsFarAsDone(s)'
  BY DEF TypeOK, Sound, RegisteredAsFarAsDone, CalledAsRegistered
<1>4. CalledAsRegistered(s)'
  BY DEF TypeOK, Sound, RegisteredAsFarAsDone, CalledAsRegistered
<1>5. MoneyMatchesCalls(s)'
  BY DEF TypeOK, Sound, MoneyMatchesCalls, RegisteredAsFarAsDone, CalledAsRegistered, ChargesOf
<1>6. RowMatchesStage(s)'
  BY DEF TypeOK, Sound, RegisteredAsFarAsDone, RowMatchesStage
<1>7. SentAtItsStage(s)'
  BY DEF TypeOK, Sound, RegisteredAsFarAsDone, RowMatchesStage, SentAtItsStage, Sent, Announcements, Messages
<1> QED
  BY <1>1, <1>2, <1>3, <1>4, <1>5, <1>6, <1>7, OneSaga DEF Sound

(* A charge whose commit the handler does not learn of changes the money only. *)
LEMMA ChargeUnnoticedInv ==
  ASSUME IInv, NEW s \in Sagas, ChargeUnnoticed(s)
  PROVE  IInv' /\ Others(s)
<1> USE DEF IInv, saga, payment, store, brokers
<1>1. PICK status \in {"SUCCESS", "REFUNDED"} : Record(s, status)
  BY DEF ChargeUnnoticed
<1>2. TypeOK'
  BY <1>1, RecordEffect DEF TypeOK, ChargeUnnoticed
<1>3. Others(s)
  BY <1>1, RecordEffect DEF TypeOK, ChargeUnnoticed, Same, Others
<1>4. RegisteredAsFarAsDone(s)' /\ CalledAsRegistered(s)'
  BY DEF Sound, ChargeUnnoticed, RegisteredAsFarAsDone, CalledAsRegistered
<1>5. MoneyMatchesCalls(s)'
  BY <1>1, RecordEffect DEF TypeOK, Sound, ChargeUnnoticed, MoneyMatchesCalls, ChargesOf
<1>6. RowMatchesStage(s)' /\ SentAtItsStage(s)'
  BY DEF Sound, ChargeUnnoticed, RowMatchesStage, SentAtItsStage, Sent
<1> QED
  BY <1>2, <1>3, <1>4, <1>5, <1>6, OneSaga DEF Sound

(* A promise that settles changes nothing the invariant speaks of.         *)
LEMMA SettleInv ==
  ASSUME IInv, NEW s \in Sagas, NEW m \in Announcements,
         Published(s, m) \/ NotPublished(s, m)
  PROVE  IInv' /\ Others(s)
<1> USE DEF IInv, saga, payment, store, brokers
<1>1. /\ settled' = [settled EXCEPT ![s] = @ \cup {m}]
      /\ rejected' = rejected \/ rejected' = [rejected EXCEPT ![s] = @ \cup {m}]
      /\ UNCHANGED <<saga, payment, store, wire, delivered>>
  BY DEF Published, NotPublished, Settle
<1>2. settled' \in [Sagas -> SUBSET Announcements] /\ rejected' \in [Sagas -> SUBSET Announcements]
  BY <1>1 DEF TypeOK
<1>3. TypeOK'
  BY <1>1, <1>2 DEF TypeOK, Ledger!TypeOK
<1>4. Others(s)
  BY <1>1 DEF Same, Others, TypeOK
<1>5. Sound(s)'
  BY <1>1 DEF Sound, RegisteredAsFarAsDone, CalledAsRegistered, MoneyMatchesCalls, ChargesOf,
              RowMatchesStage, SentAtItsStage, Sent
<1> QED
  BY <1>3, <1>4, <1>5, OneSaga

(* The process dies with every saga in it.                                 *)
LEMMA AllDieInv ==
  ASSUME IInv, AllDie
  PROVE  IInv'
<1> USE DEF IInv, saga, payment, store, brokers
<1>1. TypeOK'
  BY DEF TypeOK, AllDie, Ledger!TypeOK, Pcs
<1>2. ASSUME NEW s \in Sagas PROVE Sound(s)'
  <2>1. /\ pc'[s] = IF Active(s) THEN "dead" ELSE pc[s]
        /\ s \in lateInserts' <=> s \in lateInserts \/ pc[s] = "insert"
        /\ pc[s] \in Pcs
        /\ UNCHANGED <<compensations, failed, payment, orders, abandoned, brokers>>
    BY DEF AllDie, TypeOK
  <2> USE <2>1 DEF Sound, Active, Ended, Pcs
  <2>2. RegisteredAsFarAsDone(s)'
    BY DEF RegisteredAsFarAsDone
  <2>3. CalledAsRegistered(s)'
    BY DEF CalledAsRegistered
  <2>4. MoneyMatchesCalls(s)'
    BY DEF MoneyMatchesCalls, ChargesOf
  <2>5. RowMatchesStage(s)'
    BY DEF RowMatchesStage, RegisteredAsFarAsDone
  <2>6. SentAtItsStage(s)'
    BY DEF SentAtItsStage, Sent
  <2> QED
    BY <2>2, <2>3, <2>4, <2>5, <2>6
<1> QED
  BY <1>1, <1>2

(* Nothing happens.                                                        *)
LEMMA UnchangedInv ==
  ASSUME IInv, UNCHANGED vars
  PROVE  IInv'
<1>1. TypeOK'
  BY DEF IInv, TypeOK, Ledger!TypeOK, vars, saga, payment, store, brokers
<1>2. \A t \in Sagas : Same(t)
  BY DEF Same, vars, saga, payment, store, brokers
<1> QED
  BY <1>1, <1>2, SameIsSound DEF IInv
-----------------------------------------------------------------------------
(* The invariant is inductive.                                             *)
LEMMA InitInv == Init => IInv
<1> SUFFICES ASSUME Init PROVE IInv
  OBVIOUS
<1>1. TypeOK
  BY SagaAssumption DEF Init, TypeOK, Pcs, Ledger!Init, Ledger!TypeOK
<1>2. ASSUME NEW s \in Sagas PROVE Sound(s)
  BY ArrayFacts, SagaAssumption
     DEF Init, Ledger!Init, Sound, RegisteredAsFarAsDone, CalledAsRegistered,
         MoneyMatchesCalls, RowMatchesStage, SentAtItsStage, Sent
<1> QED
  BY <1>1, <1>2 DEF IInv

(* Every action of a saga, together.                                       *)
LEMMA StepInv ==
  ASSUME IInv, NEW s \in Sagas, CreateOrder(s) \/ SagaStep(s) \/ Confirm(s) \/ OtherStep(s)
  PROVE  IInv' /\ Others(s)
<1>1. CASE SagaStep(s)
  BY <1>1, GetUserInv, GetProductInv, PaymentAnsweredInv, PaymentTimesOutInv, InsertOrderInv,
     InsertFailsInv, CancelOrderInv, CancelFailsInv, CallRefundInv, RefundAnsweredInv,
     RefundTimesOutInv, PublishFailedInv, FailInv, SettleInv, RespondInv
     DEF SagaStep, Announcements
<1>2. CASE Confirm(s)
  BY <1>2, SettleInv DEF Confirm, Announcements
<1>3. CASE OtherStep(s)
  BY <1>3, ProcessPaymentInv, ChargeUnnoticedInv, PaymentFailsInv, RefundByOrderIdInv,
     RefundFailsInv, LateInsertInv, DeliverInv
     DEF OtherStep, PaymentStep
<1> QED
  BY <1>1, <1>2, <1>3, CreateOrderInv

(* Every step of the system.                                               *)
LEMMA NextInv == IInv /\ [Next]_vars => IInv'
<1> SUFFICES ASSUME IInv, [Next]_vars PROVE IInv'
  OBVIOUS
<1>1. ASSUME NEW s \in Sagas, CreateOrder(s) \/ SagaStep(s) \/ Confirm(s) \/ OtherStep(s)
      PROVE  IInv'
  BY <1>1, StepInv
<1>2. CASE Crash
  BY <1>2, AllDieInv DEF Crash
<1>3. CASE Quiet \/ UNCHANGED vars
  BY <1>3, UnchangedInv DEF Quiet
<1> QED
  BY <1>1, <1>2, <1>3 DEF Next
-----------------------------------------------------------------------------
(* The inductive invariant holds in every behaviour of the sagas, and with *)
(* it the type invariant.                                                  *)
THEOREM Invariant == Spec => []IInv
BY InitInv, NextInv, PTL DEF Spec

(* Every variable of the saga keeps its type.                              *)
THEOREM TypeCorrect == Spec => []TypeOK
<1>1. IInv => TypeOK
  BY DEF IInv
<1> QED
  BY <1>1, Invariant, PTL

(* The invariant rules out an orphan charge ...                            *)
LEMMA OrphanFree == IInv => NoOrphanCharge
BY DEF IInv, TypeOK, Sound, NoOrphanCharge, RegisteredAsFarAsDone, MoneyMatchesCalls

(* A saga that gave up, and whose refund did not throw, keeps no money,    *)
(* whenever payment-service gets to its charge (create-order.saga.js, rule *)
(* (a): the refund is registered before the charge is asked for).          *)
THEOREM NoOrphan == Spec => []NoOrphanCharge
BY OrphanFree, Invariant, PTL

(* ... an unpaid order ...                                                 *)
LEMMA PaidFor == IInv => ConfirmedIsPaid
BY DEF IInv, Sound, ConfirmedIsPaid, RegisteredAsFarAsDone, CalledAsRegistered,
       MoneyMatchesCalls, RowMatchesStage

(* An order that reads CONFIRMED is paid for, at every moment of the       *)
(* rollback and after any crash, unless its cancellation threw or came     *)
(* before its INSERT.                                                      *)
THEOREM Paid == Spec => []ConfirmedIsPaid
BY PaidFor, Invariant, PTL

(* A saga that still has both compensations registered has been charged.   *)
LEMMA FullIsPaid ==
  ASSUME IInv, NEW s \in Sagas, compensations[s] = Full
  PROVE  kept \cap ChargesOf(s) # {}
<1>1. payAnswer[s] = "SUCCESS" /\ s \notin cancelled
  BY DEF IInv, Sound, RegisteredAsFarAsDone, CalledAsRegistered, MoneyMatchesCalls
<1> QED
  BY <1>1 DEF IInv, Sound, MoneyMatchesCalls

(* ... and an announcement that is taken back.                             *)
LEMMA Announced == IInv => AnnouncedIsFinal
<1> SUFFICES ASSUME IInv, NEW s \in Sagas,
                    pc[s] = "placed" \/ \E m \in Announcements : Sent(s, m)
             PROVE  /\ orders[s] = "CONFIRMED"
                    /\ kept \cap ChargesOf(s) # {}
                    /\ ~Sent(s, "ORDER_FAILED")
  BY DEF AnnouncedIsFinal
<1>1. compensations[s] = Full /\ orders[s] = "CONFIRMED"
  BY DEF IInv, Sound, RegisteredAsFarAsDone, RowMatchesStage, SentAtItsStage
<1> QED
  BY <1>1, FullIsPaid, ArrayFacts DEF IInv, Sound, SentAtItsStage

(* Once an announcement or the answer is out, the order stays CONFIRMED    *)
(* and paid, and no ORDER_FAILED contradicts it (rule (b): publishing is   *)
(* outside the rollback).                                                  *)
THEOREM Final == Spec => []AnnouncedIsFinal
BY Announced, Invariant, PTL
-----------------------------------------------------------------------------
(* The refinement.  What a step of a saga other than its two answers may   *)
(* do to its row and to what calls an operator.                            *)
Forward(s) ==
  /\ pc[s] = "dead" => pc'[s] = "dead"
  /\ failed[s] \subseteq failed'[s]
  /\ s \in abandoned => s \in abandoned'
  /\ orders'[s] \in {orders[s], "CANCELLED"} \/ (orders[s] = "none" /\ orders'[s] = "CONFIRMED")
  /\ pc'[s] = pc[s] \/ pc'[s] \notin {"placed", "failed"}

(* No step takes any of it back.                                           *)
LEMMA StepForward ==
  ASSUME IInv, NEW s \in Sagas, CreateOrder(s) \/ SagaStep(s) \/ Confirm(s) \/ OtherStep(s),
         ~Respond(s), ~Fail(s)
  PROVE  Forward(s)
<1> USE DEF IInv, TypeOK, Forward, saga, payment, store, brokers
<1>1. CASE CreateOrder(s) \/ GetUser(s) \/ GetProduct(s) \/ PaymentAnswered(s)
           \/ PaymentTimesOut(s) \/ CallRefund(s) \/ PublishFailed(s)
  BY <1>1 DEF CreateOrder, GetUser, GetProduct, PaymentAnswered, PaymentTimesOut, CallRefund,
              PublishFailed, MustRun, Goto
<1>2. CASE InsertOrder(s) \/ InsertFails(s) \/ LateInsert(s)
  <2>1. pc[s] = "insert" \/ s \in lateInserts => orders[s] = "none"
    BY DEF Sound, RowMatchesStage
  <2>2. InsertOrder(s) => Forward(s)
    BY <2>1 DEF InsertOrder, Goto
  <2>3. InsertFails(s) => Forward(s)
    BY DEF InsertFails, Goto
  <2>4. LateInsert(s) => Forward(s)
    BY <2>1 DEF LateInsert
  <2> QED
    BY <1>2, <2>2, <2>3, <2>4
<1>3. CASE CancelOrder(s) \/ CancelFails(s) \/ RefundAnswered(s) \/ RefundTimesOut(s)
  <2>1. ASSUME NEW name, NEW threw, Done(s, name, threw) PROVE failed[s] \subseteq failed'[s]
    BY <2>1 DEF Done
  <2>2. failed[s] \subseteq failed'[s]
    BY <1>3, <2>1 DEF CancelOrder, CancelFails, RefundAnswered, RefundTimesOut
  <2>3. CASE CancelOrder(s)
    BY <2>2, <2>3 DEF CancelOrder
  <2>4. CASE CancelFails(s) \/ RefundAnswered(s) \/ RefundTimesOut(s)
    BY <2>2, <2>4 DEF CancelFails, RefundAnswered, RefundTimesOut, Goto
  <2> QED
    BY <1>3, <2>3, <2>4
<1>4. CASE PaymentStep(s) \/ Deliver(s)
  BY <1>4 DEF PaymentStep, ProcessPayment, ChargeUnnoticed, PaymentFails, RefundByOrderId,
              RefundFails, Deliver
<1>5. ASSUME NEW m, Published(s, m) \/ NotPublished(s, m) PROVE Forward(s)
  BY <1>5 DEF Published, NotPublished, Settle
<1> QED
  BY <1>1, <1>2, <1>3, <1>4, <1>5 DEF SagaStep, Confirm, OtherStep

(* After its answer a saga does nothing more, and what it left behind      *)
(* changes neither row nor money, unless an operator is called for.        *)
LEMMA AnswerStands ==
  ASSUME IInv, NEW s \in Sagas, CreateOrder(s) \/ SagaStep(s) \/ Confirm(s) \/ OtherStep(s),
         pc[s] \in {"placed", "failed"}
  PROVE  /\ UNCHANGED saga /\ UNCHANGED abandoned
         /\ pc[s] = "placed" \/ ~NeedsOperator(s) =>
              /\ orders'[s] = orders[s]
              /\ kept' \cap ChargesOf(s) = {} <=> kept \cap ChargesOf(s) = {}
<1> USE DEF IInv, TypeOK, saga, payment, store, brokers
<1>1. OtherStep(s)
  BY DEF CreateOrder, SagaStep, Confirm, OtherStep, GetUser, GetProduct, PaymentAnswered,
         PaymentTimesOut, InsertOrder, InsertFails, CancelOrder, CancelFails, MustRun,
         CallRefund, RefundAnswered, RefundTimesOut, PublishFailed, Fail, Published,
         NotPublished, Settle, Respond
<1>2. UNCHANGED saga /\ UNCHANGED abandoned
  BY <1>1 DEF OtherStep, PaymentStep, ProcessPayment, ChargeUnnoticed, PaymentFails,
              RefundByOrderId, RefundFails, LateInsert, Deliver
<1>3. ASSUME pc[s] = "placed" \/ ~NeedsOperator(s)
      PROVE  /\ orders'[s] = orders[s]
             /\ kept' \cap ChargesOf(s) = {} <=> kept \cap ChargesOf(s) = {}
  <2>1. /\ pc[s] = "placed" => payCall[s] = "ended" /\ refundCall[s] = "none"
        /\ pc[s] = "failed" => kept \cap ChargesOf(s) = {} /\ (payCall[s] = "none" \/ s \in cancelled)
        /\ s \notin lateInserts
    <3>1. CASE pc[s] = "placed"
      BY <3>1, SagaAssumption, ArrayFacts
         DEF Sound, RegisteredAsFarAsDone, CalledAsRegistered, RowMatchesStage
    <3>2. CASE pc[s] = "failed"
      BY <1>3, <3>2
         DEF Sound, RegisteredAsFarAsDone, MoneyMatchesCalls, RowMatchesStage, NeedsOperator
    <3> QED
      BY <3>1, <3>2
  <2>2. CASE ProcessPayment(s) \/ ChargeUnnoticed(s)
    BY <2>1, <2>2, RecordEffect DEF ProcessPayment, ChargeUnnoticed
  <2>3. CASE RefundByOrderId(s)
    BY <2>1, <2>3, CancelEffect DEF RefundByOrderId
  <2>4. CASE PaymentFails(s) \/ RefundFails(s) \/ LateInsert(s) \/ Deliver(s)
    BY <2>1, <2>4 DEF PaymentFails, RefundFails, LateInsert, Deliver
  <2> QED
    BY <1>1, <2>2, <2>3, <2>4 DEF OtherStep, PaymentStep
<1> QED
  BY <1>2, <1>3

(* A saga may say that it failed only when nothing is left of its order.   *)
LEMMA FailedIsGone ==
  ASSUME IInv, NEW s \in Sagas, pc[s] = "announce", ~NeedsOperator(s)
  PROVE  orders[s] # "CONFIRMED" /\ kept \cap ChargesOf(s) = {}
BY ArrayFacts DEF IInv, Sound, NeedsOperator, RegisteredAsFarAsDone, MoneyMatchesCalls,
                  RowMatchesStage

(* The abstract state of the other orders stays.                           *)
LEMMA MappedState ==
  ASSUME IInv, IInv', NEW s \in Sagas, Others(s)
  PROVE  /\ told' = [told EXCEPT ![s] = told'[s]]
         /\ orders' = [orders EXCEPT ![s] = orders'[s]]
         /\ paid' = [paid EXCEPT ![s] = paid'[s]]
         /\ alarm' = [alarm EXCEPT ![s] = alarm'[s]]
<1> USE DEF Others, Same
<1>1. told' = [told EXCEPT ![s] = told'[s]]
  BY DEF told
<1>2. orders' = [orders EXCEPT ![s] = orders'[s]]
  BY DEF IInv, TypeOK
<1>3. \A t \in Sagas : ChargesOf(t)' = ChargesOf(t)
  BY DEF ChargesOf, Charges
<1>4. paid' = [paid EXCEPT ![s] = paid'[s]]
  BY <1>3 DEF paid
<1>5. \A t \in Sagas \ {s} : NeedsOperator(t)' = NeedsOperator(t)
  BY DEF NeedsOperator
<1>6. alarm' = [alarm EXCEPT ![s] = alarm'[s]]
  <2>1. \A t \in Sagas \ {s} : alarm'[t] = alarm[t]
    BY <1>5, Zenon DEF alarm
  <2>2. alarm = [t \in Sagas |-> alarm[t]] /\ alarm' = [t \in Sagas |-> alarm'[t]]
    BY Zenon DEF alarm
  <2>3. alarm' = [t \in Sagas |-> IF t = s THEN alarm'[s] ELSE alarm[t]]
    BY <2>1, <2>2
  <2> QED
    BY <2>2, <2>3
<1> QED
  BY <1>1, <1>2, <1>4, <1>6

(* ... and of this one, whatever the step leaves alone.                    *)
LEMMA MappedSame ==
  ASSUME IInv, IInv', NEW s \in Sagas, Others(s)
  PROVE  /\ told'[s] = told[s] => told' = told
         /\ orders'[s] = orders[s] => orders' = orders
         /\ paid'[s] = paid[s] => paid' = paid
         /\ alarm'[s] = alarm[s] => alarm' = alarm
<1>1. told = [t \in Sagas |-> told[t]] /\ paid = [t \in Sagas |-> paid[t]]
      /\ alarm = [t \in Sagas |-> alarm[t]] /\ orders = [t \in Sagas |-> orders[t]]
  BY DEF told, paid, alarm, IInv, TypeOK
<1> QED
  BY <1>1, MappedState

(* A step of a saga is Place, Fail, Late, Work or a stutter.               *)
LEMMA MappedStep ==
  ASSUME IInv, IInv', NEW s \in Sagas, Others(s),
         CreateOrder(s) \/ SagaStep(s) \/ Confirm(s) \/ OtherStep(s)
  PROVE  [Contract!Next]_(Contract!vars)
<1>1. /\ told[s] = IF pc[s] \in {"placed", "failed"} THEN pc[s] ELSE "nothing"
      /\ told'[s] = IF pc'[s] \in {"placed", "failed"} THEN pc'[s] ELSE "nothing"
  BY DEF told
<1>2. /\ paid[s] = (kept \cap ChargesOf(s) # {})
      /\ paid'[s] = (kept' \cap ChargesOf(s) # {})
  BY DEF paid, ChargesOf, Charges
<1>3. alarm[s] = NeedsOperator(s) /\ alarm'[s] = NeedsOperator(s)'
  BY DEF alarm
<1>4. CASE Respond(s)
  <2>1. told[s] = "nothing" /\ told'[s] = "placed"
    BY <1>1, <1>4 DEF Respond, Conclude, Goto, IInv, TypeOK
  <2>2. UNCHANGED <<orders, kept, failed, abandoned>> /\ pc[s] # "dead" /\ pc'[s] # "dead"
    BY <1>4 DEF Respond, Conclude, Goto, IInv, TypeOK, payment, store
  <2>3. orders[s] = "CONFIRMED" /\ paid[s]
    <3>1. compensations[s] = Full /\ orders[s] = "CONFIRMED"
      BY <1>4 DEF Respond, IInv, Sound, RegisteredAsFarAsDone, RowMatchesStage
    <3> QED
      BY <1>2, <3>1, FullIsPaid
  <2>4. paid'[s] = paid[s]
    BY <1>2, <2>2
  <2>5. alarm'[s] = alarm[s]
    BY <1>3, <2>2 DEF NeedsOperator
  <2>6. UNCHANGED <<orders, paid, alarm>>
    BY <2>2, <2>4, <2>5, MappedSame
  <2>7. Contract!Place(s)
    BY <2>1, <2>3, <2>6, MappedState DEF Contract!Place, Contract!Placed
  <2> QED
    BY <2>7 DEF Contract!Next
<1>5. CASE Fail(s)
  <2>1. told[s] = "nothing" /\ told'[s] = "failed"
    BY <1>1, <1>5 DEF Fail, Goto, IInv, TypeOK
  <2>2. (orders[s] # "CONFIRMED" /\ ~paid[s]) \/ alarm[s]
    BY <1>2, <1>3, <1>5, FailedIsGone DEF Fail
  <2>3. UNCHANGED <<orders, paid, alarm>>
    <3>1. UNCHANGED <<orders, kept, failed, abandoned>> /\ pc[s] # "dead" /\ pc'[s] # "dead"
      BY <1>5 DEF Fail, Goto, IInv, TypeOK, payment, store
    <3>2. paid'[s] = paid[s]
      BY <1>2, <3>1
    <3>3. alarm'[s] = alarm[s]
      BY <1>3, <3>1 DEF NeedsOperator
    <3> QED
      BY <3>1, <3>2, <3>3, MappedSame
  <2>4. Contract!Fail(s)
    BY <2>1, <2>2, <2>3, MappedState DEF Contract!Fail, Contract!Gone
  <2> QED
    BY <2>4 DEF Contract!Next
<1>6. CASE pc[s] \in {"placed", "failed"}
  <2>1. UNCHANGED <<pc, failed, abandoned>>
    BY <1>6, AnswerStands DEF saga
  <2>2. told' = told /\ alarm' = alarm
    BY <1>1, <1>3, <2>1, MappedSame DEF NeedsOperator
  <2>3. CASE pc[s] = "placed" \/ ~NeedsOperator(s)
    <3>1. orders'[s] = orders[s] /\ paid'[s] = paid[s]
      BY <1>2, <1>6, <2>3, AnswerStands
    <3> QED
      BY <2>2, <3>1, MappedSame DEF Contract!vars
  <2>4. CASE pc[s] = "failed" /\ NeedsOperator(s)
    <3>1. orders'[s] \in {"none", "CONFIRMED", "CANCELLED"} /\ paid'[s] \in BOOLEAN
      BY <1>2 DEF IInv, TypeOK
    <3>2. told[s] = "failed" /\ alarm[s]
      BY <1>1, <1>3, <2>4
    <3>3. Contract!Late(s)
      BY <2>2, <3>1, <3>2, MappedState DEF Contract!Late
    <3> QED
      BY <3>3 DEF Contract!Next
  <2> QED
    BY <1>6, <2>3, <2>4
<1>7. CASE ~Respond(s) /\ ~Fail(s) /\ pc[s] \notin {"placed", "failed"}
  <2>1. Forward(s)
    BY <1>7, StepForward
  <2>2. told[s] = "nothing" /\ told'[s] = told[s]
    BY <1>1, <1>7, <2>1 DEF Forward
  <2>3. alarm[s] => alarm'[s]
    BY <1>3, <2>1 DEF Forward, NeedsOperator
  <2>4. orders'[s] = "CONFIRMED" => paid'[s] \/ alarm'[s]
    <3>1. Sound(s)'
      BY DEF IInv
    <3>2. ASSUME orders'[s] = "CONFIRMED", ~NeedsOperator(s)'
          PROVE  kept' \cap ChargesOf(s)' # {}
      BY <3>1, <3>2 DEF NeedsOperator, Sound, RegisteredAsFarAsDone, CalledAsRegistered,
                        MoneyMatchesCalls, RowMatchesStage
    <3> QED
      BY <1>2, <1>3, <3>2 DEF ChargesOf, Charges
  <2>5. orders'[s] \in {"none", "CONFIRMED", "CANCELLED"} /\ paid'[s] \in BOOLEAN
        /\ alarm'[s] \in BOOLEAN
    BY <1>2, <1>3 DEF IInv, TypeOK, NeedsOperator
  <2>6. Contract!Work(s)
    BY <2>1, <2>2, <2>3, <2>4, <2>5, MappedState, MappedSame DEF Contract!Work, Forward
  <2> QED
    BY <2>6 DEF Contract!Next
<1> QED
  BY <1>4, <1>5, <1>6, <1>7

(* Sagas that die raise the alarm, and nothing else.                       *)
LEMMA MappedDeath ==
  ASSUME IInv, AllDie
  PROVE  Contract!Die
<1> DEFINE dead == {s \in Sagas : Active(s)}
<1>1. dead \in SUBSET {s \in Sagas : told[s] = "nothing"}
  BY DEF told, Active, Ended
<1>2. told' = told
  BY DEF AllDie, told, Active, Ended
<1>3. paid' = paid /\ orders' = orders
  BY DEF AllDie, paid, payment, ChargesOf, Charges
<1>4. ASSUME NEW s \in Sagas PROVE alarm'[s] = (alarm[s] \/ s \in dead)
  BY DEF AllDie, alarm, NeedsOperator, Active, Ended
<1>5. alarm' = [s \in Sagas |-> alarm[s] \/ s \in dead]
  <2>1. alarm' = [s \in Sagas |-> alarm'[s]]
    BY Zenon DEF alarm
  <2> QED
    BY <1>4, <2>1, Zenon
<1> QED
  BY <1>1, <1>2, <1>3, <1>5 DEF Contract!Die

(* Initial states and steps of the sagas are those of the contract.        *)
LEMMA MappedInit == Init => Contract!Init
BY DEF Init, Ledger!Init, Contract!Init, told, paid, alarm, NeedsOperator

(* Every step is one of the contract, or a stutter.                        *)
LEMMA MappedNext == IInv /\ IInv' /\ [Next]_vars => [Contract!Next]_(Contract!vars)
<1> SUFFICES ASSUME IInv, IInv', [Next]_vars
             PROVE  [Contract!Next]_(Contract!vars)
  OBVIOUS
<1>1. ASSUME NEW s \in Sagas, CreateOrder(s) \/ SagaStep(s) \/ Confirm(s) \/ OtherStep(s)
      PROVE  [Contract!Next]_(Contract!vars)
  BY <1>1, StepInv, MappedStep
<1>2. CASE Crash
  BY <1>2, MappedDeath DEF Crash, Contract!Next
<1>3. CASE Quiet \/ UNCHANGED vars
  BY <1>3 DEF Quiet, vars, saga, payment, store, Contract!vars, told, paid, alarm,
              NeedsOperator, ChargesOf, Charges
<1> QED
  BY <1>1, <1>2, <1>3 DEF Next

(* The saga keeps OrderContract, from every state and through every        *)
(* failure: who is told placed has an order that stands, who is told       *)
(* failed has lost no money, then or later, unless an operator is called   *)
(* for.                                                                    *)
THEOREM ContractKept == Spec => KeepsContract
BY MappedInit, MappedNext, Invariant, PTL DEF Spec, KeepsContract, Contract!Spec

=============================================================================
