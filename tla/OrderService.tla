------------------------------ MODULE OrderService ------------------------------
(***************************************************************************)
(* The process of order-service (src/order-service/src/server.js): it      *)
(* connects to the brokers, serves, drains at a signal, disconnects and    *)
(* exits, or dies, and is restarted.  CreateOrderSaga is what it serves;   *)
(* the state of the two publishers decides what a saga's publish does.     *)
(*                                                                         *)
(* Draining waits for the calls gRPC still has open, which are not the     *)
(* sagas still running: a saga goes on when its caller has left.           *)
(***************************************************************************)
EXTENDS CreateOrderSaga

CONSTANT MaxRestarts  \* bound: restarts by Docker in a behaviour

ASSUME ServiceAssumption == MaxRestarts \in Nat

VARIABLES
  process,    \* where start and shutdown are; how the process ended
  connected,  \* kafka.producer.js
  channel,    \* rabbitmq.publisher.js: "null", "open"
  gone,       \* sagas whose caller timed out or hung up
  restarts

service == <<process, connected, channel, gone, restarts>>
allVars == <<vars, service>>

Closing == {"closeKafka", "closeRabbit", "closePool"}
Over == {"exit0", "down"}

ServiceTypeOK ==
  /\ TypeOK
  /\ process \in {"starting", "serving", "draining"} \cup Closing \cup Over
  /\ connected \in BOOLEAN
  /\ channel \in {"null", "open"}
  /\ gone \subseteq Sagas
  /\ restarts \in 0 .. MaxRestarts
  /\ process \notin {"serving", "draining"} \cup Closing => \A s \in Sagas : ~Active(s)
  /\ process \in {"serving", "draining", "closeKafka"} => connected

ServiceInit ==
  /\ Init
  /\ process = "starting"
  /\ connected = FALSE
  /\ channel = "null"
  /\ gone = {}
  /\ restarts = 0
-----------------------------------------------------------------------------
(* connectBrokersWithRetry: Kafka, then RabbitMQ and its queue.  A failure *)
(* of either changes nothing here, both are tried again after 5 s.         *)
ConnectKafka ==
  /\ process = "starting"
  /\ connected' = TRUE
  /\ UNCHANGED <<vars, process, channel, gone, restarts>>

(* checkQueue has found the queue; the server binds its port and serves.   *)
ConnectRabbit ==
  /\ process = "starting"
  /\ connected
  /\ channel' = "open"
  /\ process' = "serving"
  /\ UNCHANGED <<vars, connected, gone, restarts>>

(* The connection's close event.  Only connect sets channel again.         *)
ConnectionClosed ==
  /\ process \notin Over
  /\ channel = "open"
  /\ channel' = "null"
  /\ UNCHANGED <<vars, process, connected, gone, restarts>>
-----------------------------------------------------------------------------
(* What the publishers put on the wire in a step of saga s.                *)
Reachable == (IF connected THEN {"ORDER_CREATED", "ORDER_FAILED"} ELSE {})
             \cup (IF channel = "open" THEN {"NOTIFICATION"} ELSE {})

Publishers(s) ==
  wire'[s] = wire[s] \cup
    (CASE pc[s] = "insert" /\ pc'[s] = "publish" -> Reachable \cap Announcements
       [] pc[s] = "compensate" /\ pc'[s] = "announce" -> Reachable \cap {"ORDER_FAILED"}
       [] OTHER -> {})

Accept(s) ==
  /\ process = "serving"
  /\ CreateOrder(s)
  /\ UNCHANGED service

Run(s) == SagaStep(s) /\ Publishers(s) /\ UNCHANGED service

Elsewhere(s) == (Confirm(s) \/ OtherStep(s)) /\ UNCHANGED service

(* The caller's deadline passes, or it disconnects: the call is over for   *)
(* gRPC, the handler does not notice.                                      *)
CallerLeaves(s) ==
  /\ Active(s)
  /\ s \notin gone
  /\ gone' = gone \cup {s}
  /\ UNCHANGED <<vars, process, connected, channel, restarts>>
-----------------------------------------------------------------------------
(* SIGTERM or SIGINT: tryShutdown, and the timer of 10 s is set.           *)
Signal ==
  /\ process = "serving"
  /\ process' = "draining"
  /\ UNCHANGED <<vars, connected, channel, gone, restarts>>

(* Mutant: forceShutdown instead of tryShutdown. *)
NoCallsWaitedFor == TRUE
NoCallsOpen == \A s \in Sagas : Active(s) => s \in gone

Drained ==
  /\ process = "draining"
  /\ NoCallsOpen
  /\ process' = "closeKafka"
  /\ UNCHANGED <<vars, connected, channel, gone, restarts>>

DisconnectKafka ==
  /\ process = "closeKafka"
  /\ process' = "closeRabbit"
  /\ connected' = FALSE
  /\ UNCHANGED <<vars, channel, gone, restarts>>

DisconnectRabbit ==
  /\ process = "closeRabbit"
  /\ process' = "closePool"
  /\ channel' = "null"
  /\ UNCHANGED <<vars, connected, gone, restarts>>

Exit(how) ==
  /\ process' = how
  /\ AllDie
  /\ connected' = FALSE
  /\ channel' = "null"
  /\ UNCHANGED <<gone, restarts>>

(* The pool is closed, or a disconnect threw and the rest is skipped: to   *)
(* close a connection that is closed throws (rabbitmq.publisher.js:81).    *)
ExitGracefully == process \in Closing /\ Exit("exit0")

(* Mutant: no timer is set. *)
NoTimer == FALSE
TimerSet == process = "draining" \/ process \in Closing

ForceExit == TimerSet /\ Exit("down")

(* The process is killed, or start throws.                                 *)
Die == process \notin Over /\ Exit("down")

(* restart: on-failure, for exit 1 and a crash and not for exit 0.         *)
Restart ==
  /\ process = "down"
  /\ restarts < MaxRestarts
  /\ restarts' = restarts + 1
  /\ process' = "starting"
  /\ UNCHANGED <<vars, connected, channel, gone>>

Stopped == process \in Over /\ UNCHANGED allVars

Shutdown == Drained \/ DisconnectKafka \/ DisconnectRabbit \/ ExitGracefully

ServiceNext ==
  \/ ConnectKafka \/ ConnectRabbit \/ ConnectionClosed
  \/ \E s \in Sagas : Accept(s) \/ Run(s) \/ Elsewhere(s) \/ CallerLeaves(s)
  \/ Signal \/ Shutdown \/ ForceExit
  \/ Die \/ Restart \/ Stopped

(* The event loop runs the sagas and the shutdown, and fires the timer.    *)
(* Nobody has to connect, signal or restart, and no caller has to leave.   *)
ServiceSpec ==
  /\ ServiceInit /\ [][ServiceNext]_allVars
  /\ \A s \in Sagas : WF_allVars(Run(s))
  /\ WF_allVars(ForceExit)
-----------------------------------------------------------------------------
(* Rule (b) and the error log of publishEventsBestEffort: of a placed      *)
(* order every announcement arrived, or its loss was logged.  Except that  *)
(* an order whose caller had left by then may lose its ORDER_CREATED       *)
(* without an error: publishOrderEvent returns silently once the producer  *)
(* is disconnected, which happens only when every open call was answered.  *)
(* That a lost RabbitMQ channel stays lost until the restart never makes a *)
(* notification vanish unreported.                                         *)
EveryLossReported ==
  \A s \in Sagas, m \in Announcements :
    pc[s] = "placed" =>
      m \in delivered[s] \cup rejected[s] \/ (m = "ORDER_CREATED" /\ s \in gone)

(* Rule (b) without that exception, as create-order.saga.js:34 has it: a   *)
(* failed publish is logged at error level, so of a placed order every     *)
(* announcement arrived or its loss was logged.                            *)
LossIsLogged ==
  \A s \in Sagas : pc[s] = "placed" => Announcements \subseteq delivered[s] \cup rejected[s]

(* A graceful exit cuts off no saga whose caller waits for its answer; it  *)
(* may cut off one whose caller has left, and nothing compensates it.      *)
GracefulExitDropsNobody ==
  [][process' = "exit0" =>
       \A s \in Sagas : pc'[s] = "dead" /\ pc[s] # "dead" => s \in gone]_allVars

(* A shutdown ends, though a saga may wait for a confirm that never comes: *)
(* after 10 s the timer ends the process (server.js:70).                   *)
EveryShutdownEnds == process = "draining" ~> process \in Over
-----------------------------------------------------------------------------
(* The inductive invariant of OrderServiceProofs: that of the sagas, and   *)
(* what links a saga to its process.  An announcement a saga waits for was *)
(* sent, unless its caller has left; one that settled arrived or was       *)
(* rejected, with the same exception.                                      *)
SettledIsReported(s) ==
  /\ pc[s] = "publish" /\ ~Sent(s, "ORDER_CREATED") => s \in gone
  /\ pc[s] = "placed" => settled[s] = Announcements
  /\ \A m \in settled[s] :
       m \in delivered[s] \cup rejected[s] \/ (m = "ORDER_CREATED" /\ s \in gone)

ServiceInv ==
  /\ ServiceTypeOK
  /\ IInv
  /\ process \in Closing => NoCallsOpen
  /\ \A s \in Sagas : SettledIsReported(s)
=============================================================================
