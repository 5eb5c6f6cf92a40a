--------------------------- MODULE OrderServiceProofs ---------------------------
(***************************************************************************)
(* Proofs about OrderService: its process runs the sagas as                *)
(* CreateOrderSaga lets them run, so all that is proved of them holds      *)
(* here; and what the process adds, its shutdown and its publishers.       *)
(***************************************************************************)
EXTENDS OrderService, CreateOrderSagaProofs

(* A step of one saga.                                                     *)
Moves(s) == CreateOrder(s) \/ SagaStep(s) \/ Confirm(s) \/ OtherStep(s)

(* What such a step does to the announcements, and where it may lead.      *)
Onward(s) ==
  /\ delivered[s] \subseteq delivered'[s] /\ rejected[s] \subseteq rejected'[s]
  /\ wire[s] \cup delivered[s] \subseteq wire'[s] \cup delivered'[s]
  /\ \A m \in settled'[s] \ settled[s] :
       /\ pc[s] = "publish"
       /\ m \in delivered[s] \cup rejected'[s] \/ (m = "ORDER_CREATED" /\ ~Sent(s, m))
  /\ pc'[s] = "publish" => pc[s] \in {"publish", "insert"}
  /\ pc'[s] = "placed" => settled'[s] = settled[s] /\ (pc[s] = "placed" \/ settled[s] = Announcements)
  /\ pc'[s] = "dead" => pc[s] = "dead"

(* A publish that settles belongs to a saga that goes on.                  *)
LEMMA SettleOnward ==
  ASSUME IInv, NEW s \in Sagas, NEW m \in Announcements, Published(s, m) \/ NotPublished(s, m)
  PROVE  Onward(s)
<1> USE DEF IInv, TypeOK, Onward, saga, payment, store
<1>1. CASE Published(s, m)
  BY <1>1 DEF Published, Settle
<1>2. CASE NotPublished(s, m)
  BY <1>2 DEF NotPublished, Settle
<1> QED
  BY <1>1, <1>2

(* Every step the process lets a saga take is such a one.                  *)
LEMMA StepOnward ==
  ASSUME IInv, NEW s \in Sagas, Moves(s)
  PROVE  Onward(s)
<1> USE DEF IInv, TypeOK, Onward, saga, payment, store, brokers
<1>1. CASE CreateOrder(s) \/ GetUser(s) \/ GetProduct(s) \/ PaymentAnswered(s)
           \/ PaymentTimesOut(s) \/ InsertFails(s) \/ CallRefund(s) \/ Fail(s) \/ Respond(s)
  BY <1>1 DEF CreateOrder, GetUser, GetProduct, PaymentAnswered, PaymentTimesOut, InsertFails,
              CallRefund, MustRun, Fail, Respond, Conclude, Goto
<1>2. CASE InsertOrder(s) \/ PublishFailed(s)
  BY <1>2 DEF InsertOrder, PublishFailed, Send, Goto
<1>3. CASE CancelOrder(s) \/ CancelFails(s) \/ RefundAnswered(s) \/ RefundTimesOut(s)
  BY <1>3 DEF CancelOrder, CancelFails, RefundAnswered, RefundTimesOut, MustRun, Goto
<1>4. CASE PaymentStep(s) \/ LateInsert(s)
  BY <1>4 DEF PaymentStep, ProcessPayment, ChargeUnnoticed, PaymentFails, RefundByOrderId,
              RefundFails, LateInsert
<1>5. CASE Deliver(s)
  BY <1>5 DEF Deliver
<1> QED
  BY <1>1, <1>2, <1>3, <1>4, <1>5, SettleOnward
     DEF Moves, SagaStep, Confirm, OtherStep, Announcements

(* Only a saga that runs, or is accepted, moves.                           *)
LEMMA MovesWhileActive ==
  ASSUME NEW s \in Sagas
  PROVE  /\ SagaStep(s) => Active(s)
         /\ Confirm(s) \/ OtherStep(s) => UNCHANGED pc
<1>1. SagaStep(s) => Active(s)
  BY DEF SagaStep, GetUser, GetProduct, PaymentAnswered, PaymentTimesOut, InsertOrder,
         InsertFails, CancelOrder, CancelFails, MustRun, CallRefund, RefundAnswered,
         RefundTimesOut, PublishFailed, Fail, Published, NotPublished, Settle, Respond,
         Active, Ended
<1>2. Confirm(s) \/ OtherStep(s) => UNCHANGED pc
  BY DEF Confirm, Published, NotPublished, Settle, OtherStep, PaymentStep, ProcessPayment,
         ChargeUnnoticed, PaymentFails, RefundByOrderId, RefundFails, LateInsert, Deliver, saga
<1> QED
  BY <1>1, <1>2
-----------------------------------------------------------------------------
(* The end of the process is the crash of CreateOrderSaga, or, when no     *)
(* saga runs, no step of it at all.                                        *)
LEMMA DeathIsCrash ==
  ASSUME IInv, AllDie
  PROVE  [Next]_vars
<1>1. CASE \E s \in Sagas : Active(s)
  BY <1>1 DEF Crash, Next
<1>2. CASE \A s \in Sagas : ~Active(s)
  <2>1. pc' = pc
    BY <1>2 DEF AllDie, IInv, TypeOK
  <2>2. lateInserts' = lateInserts
    BY <1>2 DEF AllDie, Active, Ended
  <2> QED
    BY <2>1, <2>2 DEF AllDie, vars, saga, store
<1> QED
  BY <1>1, <1>2

(* Every step of the process is a step of the sagas or leaves them alone.  *)
LEMMA ServiceIsSaga == IInv /\ [ServiceNext]_allVars => [Next]_vars
<1> SUFFICES ASSUME IInv, [ServiceNext]_allVars PROVE [Next]_vars
  OBVIOUS
<1>1. ASSUME NEW s \in Sagas, Accept(s) \/ Run(s) \/ Elsewhere(s) PROVE [Next]_vars
  BY <1>1 DEF Accept, Run, Elsewhere, Next
<1>2. CASE ExitGracefully \/ ForceExit \/ Die
  BY <1>2, DeathIsCrash DEF ExitGracefully, ForceExit, Die, Exit
<1>3. CASE ConnectKafka \/ ConnectRabbit \/ ConnectionClosed \/ Signal \/ Drained
           \/ DisconnectKafka \/ DisconnectRabbit \/ Restart \/ Stopped \/ UNCHANGED allVars
  BY <1>3 DEF ConnectKafka, ConnectRabbit, ConnectionClosed, Signal, Drained, DisconnectKafka,
              DisconnectRabbit, Restart, Stopped, allVars
<1>4. ASSUME NEW s \in Sagas, CallerLeaves(s) PROVE [Next]_vars
  BY <1>4 DEF CallerLeaves
<1> QED
  BY <1>1, <1>2, <1>3, <1>4 DEF ServiceNext, Shutdown
-----------------------------------------------------------------------------
(* A step of a saga under this process keeps what links the two.           *)
LEMMA SagaMoves ==
  ASSUME ServiceInv, NEW s \in Sagas, Accept(s) \/ Run(s) \/ Elsewhere(s)
  PROVE  ServiceInv'
<1> USE DEF ServiceInv
<1>1. Moves(s) /\ UNCHANGED service
  BY DEF Accept, Run, Elsewhere, Moves
<1>2. IInv' /\ Others(s) /\ Onward(s)
  BY <1>1, StepInv, StepOnward DEF Moves
<1>3. \A t \in Sagas : Active(t)' => Active(t) \/ process = "serving"
  <2>1. \A t \in Sagas \ {s} : Active(t)' => Active(t)
    BY <1>2 DEF Others, Same, Active, Ended
  <2>2. Active(s) \/ process = "serving" \/ UNCHANGED pc
    BY MovesWhileActive DEF Accept, Run, Elsewhere
  <2> QED
    BY <2>1, <2>2 DEF Active, Ended
<1>4. ServiceTypeOK'
  <2>1. TypeOK'
    BY <1>2 DEF IInv
  <2> QED
    BY <1>1, <1>3, <2>1 DEF ServiceTypeOK, service
<1>5. process' \in Closing => NoCallsOpen'
  BY <1>1, <1>3 DEF NoCallsOpen, service, Closing
<1>6. ASSUME NEW t \in Sagas \ {s} PROVE SettledIsReported(t)'
  BY <1>1, <1>2 DEF Others, Same, SettledIsReported, Sent, service
<1>7. SettledIsReported(s)'
  <2>1. pc'[s] = "publish" /\ ~Sent(s, "ORDER_CREATED")' => s \in gone'
    <3>1. CASE pc[s] = "publish"
      BY <1>1, <1>2, <3>1 DEF Onward, SettledIsReported, Sent, service
    <3>2. CASE pc[s] = "insert"
      <4>1. SUFFICES ASSUME pc'[s] = "publish", ~Sent(s, "ORDER_CREATED")' PROVE s \in gone'
        OBVIOUS
      <4>2. Run(s)
        BY <3>2, <4>1, MovesWhileActive DEF Accept, CreateOrder, Run, Elsewhere
      <4>3. wire'[s] = wire[s] \cup (Reachable \cap Announcements)
        BY <3>2, <4>1, <4>2 DEF Run, Publishers
      <4>4. ~connected
        BY <4>1, <4>3 DEF Sent, Reachable, Announcements
      <4>5. process \in Closing
        BY <3>2, <4>4 DEF ServiceTypeOK, Active, Ended, Closing
      <4>6. Active(s)
        BY <3>2 DEF Active, Ended
      <4> QED
        BY <1>1, <4>5, <4>6 DEF NoCallsOpen, service
    <3> QED
      BY <1>2, <3>1, <3>2 DEF Onward
  <2>2. pc'[s] = "placed" => settled'[s] = Announcements
    BY <1>2 DEF Onward, SettledIsReported
  <2>3. ASSUME NEW m \in settled'[s]
        PROVE  m \in delivered'[s] \cup rejected'[s] \/ (m = "ORDER_CREATED" /\ s \in gone')
    <3>1. CASE m \in settled[s]
      BY <1>1, <1>2, <3>1 DEF Onward, SettledIsReported, service
    <3>2. CASE m \notin settled[s]
      BY <1>1, <1>2, <3>2 DEF Onward, SettledIsReported, service
    <3> QED
      BY <3>1, <3>2
  <2> QED
    BY <2>1, <2>2, <2>3 DEF SettledIsReported, Announcements
<1> QED
  BY <1>2, <1>4, <1>5, <1>6, <1>7

(* A step of the process that leaves the sagas alone.                      *)
LEMMA ProcessMoves ==
  ASSUME ServiceInv, UNCHANGED vars, gone \subseteq gone', ServiceTypeOK',
         process' \in Closing => process \in Closing \/ NoCallsOpen
  PROVE  ServiceInv'
<1>1. IInv'
  BY UnchangedInv DEF ServiceInv
<1>2. process' \in Closing => NoCallsOpen'
  BY DEF ServiceInv, NoCallsOpen, vars, saga, Active, Ended
<1>3. ASSUME NEW s \in Sagas PROVE SettledIsReported(s)'
  BY DEF ServiceInv, SettledIsReported, Sent, vars, saga, brokers
<1> QED
  BY <1>1, <1>2, <1>3 DEF ServiceInv

(* However the process ends, its sagas end with it.                        *)
LEMMA ProcessEnds ==
  ASSUME ServiceInv, NEW how \in Over, Exit(how)
  PROVE  ServiceInv'
<1> USE DEF ServiceInv
<1>1. IInv'
  BY AllDieInv DEF Exit
<1>2. \A s \in Sagas : ~Active(s)'
  BY DEF Exit, AllDie, Active, Ended
<1>3. ServiceTypeOK'
  BY <1>1, <1>2 DEF IInv, ServiceTypeOK, Exit, Over, Closing
<1>4. NoCallsOpen'
  BY <1>2 DEF NoCallsOpen
<1>5. ASSUME NEW s \in Sagas PROVE SettledIsReported(s)'
  <2>1. pc'[s] = (IF Active(s) THEN "dead" ELSE pc[s])
    BY DEF Exit, AllDie
  <2> QED
    BY <2>1 DEF SettledIsReported, Sent, Exit, AllDie, brokers, Active, Ended
<1> QED
  BY <1>1, <1>3, <1>4, <1>5

(* No saga has begun.                                                      *)
LEMMA ServiceInitInv == ServiceInit => ServiceInv
<1> SUFFICES ASSUME ServiceInit PROVE ServiceInv
  OBVIOUS
<1>1. IInv
  BY InitInv DEF ServiceInit
<1>2. ServiceTypeOK
  <2>1. \A s \in Sagas : ~Active(s)
    BY DEF ServiceInit, Init, Active
  <2>2. restarts \in 0 .. MaxRestarts
    BY ServiceAssumption DEF ServiceInit
  <2> QED
    BY <1>1, <2>1, <2>2 DEF IInv, ServiceInit, ServiceTypeOK
<1>3. process \notin Closing /\ \A s \in Sagas : SettledIsReported(s)
  BY DEF ServiceInit, Init, SettledIsReported, Closing
<1> QED
  BY <1>1, <1>2, <1>3 DEF ServiceInv

(* Every step of a saga, the process or its brokers.                       *)
LEMMA ServiceNextInv == ServiceInv /\ [ServiceNext]_allVars => ServiceInv'
<1> SUFFICES ASSUME ServiceInv, [ServiceNext]_allVars PROVE ServiceInv'
  OBVIOUS
<1>1. ASSUME NEW s \in Sagas, Accept(s) \/ Run(s) \/ Elsewhere(s) PROVE ServiceInv'
  BY <1>1, SagaMoves
<1>2. CASE ExitGracefully \/ ForceExit \/ Die
  BY <1>2, ProcessEnds DEF ExitGracefully, ForceExit, Die, Over
<1>3. ASSUME ConnectKafka \/ ConnectRabbit \/ ConnectionClosed \/ Signal \/ Drained
             \/ DisconnectKafka \/ DisconnectRabbit \/ Restart \/ Stopped \/ UNCHANGED allVars
             \/ \E s \in Sagas : CallerLeaves(s)
      PROVE  ServiceInv'
  <2> USE DEF ConnectKafka, ConnectRabbit, ConnectionClosed, Signal, Drained, DisconnectKafka,
              DisconnectRabbit, Restart, Stopped, CallerLeaves, allVars, service
  <2>1. UNCHANGED vars /\ gone \subseteq gone'
    BY <1>3
  <2>2. process' \in Closing => process \in Closing \/ NoCallsOpen
    BY <1>3 DEF Closing
  <2>3. TypeOK' /\ \A s \in Sagas : Active(s)' => Active(s)
    BY <2>1, UnchangedInv DEF ServiceInv, IInv, vars, saga, Active, Ended
  <2>4. ServiceTypeOK'
    <3> USE <2>3 DEF ServiceInv, ServiceTypeOK, Closing, Over
    <3>1. CASE ConnectKafka \/ ConnectRabbit \/ ConnectionClosed
      BY <3>1
    <3>2. CASE Signal \/ Drained \/ DisconnectKafka \/ DisconnectRabbit
      BY <3>2
    <3>3. CASE Restart
      BY <3>3, ServiceAssumption
    <3>4. CASE Stopped \/ UNCHANGED allVars \/ \E s \in Sagas : CallerLeaves(s)
      BY <3>4
    <3> QED
      BY <1>3, <3>1, <3>2, <3>3, <3>4
  <2> QED
    BY <2>1, <2>2, <2>4, ProcessMoves
<1> QED
  BY <1>1, <1>2, <1>3 DEF ServiceNext, Shutdown
-----------------------------------------------------------------------------
(* The inductive invariant holds in every behaviour of the process,        *)
(* through restarts.                                                       *)
THEOREM ServiceInvariant == ServiceSpec => []ServiceInv
BY ServiceInitInv, ServiceNextInv, PTL DEF ServiceSpec

(* Of a placed order every announcement arrived or its loss was logged,    *)
(* but for the ORDER_CREATED of an order whose caller had left: whatever   *)
(* the connections do, and at whatever point of the shutdown it was sent.  *)
THEOREM LossesReported == ServiceSpec => []EveryLossReported
<1>1. ServiceInv => EveryLossReported
  BY DEF ServiceInv, SettledIsReported, EveryLossReported
<1> QED
  BY <1>1, ServiceInvariant, PTL

(* A graceful exit cuts off no saga whose caller waits for its answer.     *)
THEOREM NobodyDropped == ServiceSpec => GracefulExitDropsNobody
<1>1. ASSUME ServiceInv, [ServiceNext]_allVars, process' = "exit0",
             NEW s \in Sagas, pc'[s] = "dead", pc[s] # "dead"
      PROVE  s \in gone
  <2>1. CASE ExitGracefully
    BY <1>1, <2>1 DEF ExitGracefully, Exit, AllDie, ServiceInv, NoCallsOpen
  <2>2. ASSUME NEW t \in Sagas, Accept(t) \/ Run(t) \/ Elsewhere(t) PROVE FALSE
    <3>1. Moves(t)
      BY <2>2 DEF Accept, Run, Elsewhere, Moves
    <3>2. Others(t) /\ Onward(t)
      BY <1>1, <3>1, StepInv, StepOnward DEF Moves, ServiceInv
    <3> QED
      BY <1>1, <3>2 DEF Others, Same, Onward
  <2>3. CASE ForceExit \/ Die
    BY <1>1, <2>3 DEF ForceExit, Die, Exit
  <2>4. ASSUME UNCHANGED vars PROVE FALSE
    BY <1>1, <2>4 DEF vars, saga
  <2> QED
    BY <1>1, <2>1, <2>2, <2>3, <2>4
       DEF ServiceNext, ConnectKafka, ConnectRabbit, ConnectionClosed, CallerLeaves, Signal,
           Shutdown, Drained, DisconnectKafka, DisconnectRabbit, Restart, Stopped, allVars
<1>2. ServiceInv /\ [ServiceNext]_allVars =>
        [process' = "exit0" =>
           \A s \in Sagas : pc'[s] = "dead" /\ pc[s] # "dead" => s \in gone]_allVars
  BY <1>1
<1> QED
  BY <1>2, ServiceInvariant, PTL DEF ServiceSpec, GracefulExitDropsNobody

(* What is proved of the sagas holds of the process that runs them: no     *)
(* orphan charge, a CONFIRMED order is paid for, an announcement is final. *)
THEOREM SagasHold == ServiceSpec => [](NoOrphanCharge /\ ConfirmedIsPaid /\ AnnouncedIsFinal)
<1>1. ServiceInv => NoOrphanCharge /\ ConfirmedIsPaid /\ AnnouncedIsFinal
  BY OrphanFree, PaidFor, Announced DEF ServiceInv
<1> QED
  BY <1>1, ServiceInvariant, PTL

(* The process keeps OrderContract, through its shutdowns and restarts.    *)
THEOREM ServiceKeepsContract == ServiceSpec => KeepsContract
<1>1. ServiceInit => Contract!Init
  BY MappedInit DEF ServiceInit
<1>2. ServiceInv /\ ServiceInv' /\ [ServiceNext]_allVars => [Contract!Next]_(Contract!vars)
  BY ServiceIsSaga, MappedNext DEF ServiceInv
<1> QED
  BY <1>1, <1>2, ServiceInvariant, PTL DEF ServiceSpec, KeepsContract, Contract!Spec
=============================================================================
