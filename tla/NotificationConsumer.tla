------------------------- MODULE NotificationConsumer -------------------------
(***************************************************************************)
(* notification-service (src/notification-service) and the three queues    *)
(* infra/rabbitmq/init-topology.sh declares for it: order_notifications,   *)
(* its retry queue with a TTL, and its dead letter queue.                  *)
(*                                                                         *)
(* The consumer and the broker share one connection.  What the consumer    *)
(* sends travels on it in order and is lost from some point on when the    *)
(* connection breaks; the broker then puts every delivery it has no answer *)
(* to back at the head of the queue.                                       *)
(***************************************************************************)
EXTENDS Integers, Sequences, FiniteSets, SequencesExt

CONSTANTS
  Ids,         \* the notifications order-service publishes
  Bad,         \* those whose payload does not parse: processing always fails
  MaxRetries,  \* config.rabbitmq.maxRetries
  Prefetch,    \* config.rabbitmq.prefetch
  MaxLosses,   \* bound: channels closed (stops, crashes, breaks) in a behaviour
  None

ASSUME NotificationAssumption ==
  /\ Bad \subseteq Ids
  /\ MaxRetries \in Nat
  /\ Prefetch \in Nat \ {0}
  /\ MaxLosses \in Nat

(* A copy of a message; deaths is the count of its x-death entry for the    *)
(* retry queue with reason "expired".                                      *)
Copies == [id : Ids, deaths : 0 .. MaxRetries]

ASSUME NoneAssumption == None \notin Copies

Tags == 1 .. Prefetch

(* Bound on the count of failures: it stands for any number above 1 +      *)
(* MaxRetries, the most that is ever due.                                  *)
FailuresCap == MaxRetries + 2
Frames == [op : {"publish"}, copy : Copies] \cup [op : {"ack", "nack"}, tag : Tags]

VARIABLES
  main,       \* order_notifications
  retry,      \* order_notifications_retry
  dlq,        \* order_notifications_dlq: nobody consumes it
  delivered,  \* per tag: the delivery the broker has no answer to
  working,    \* the tags whose handleMessage is still running
  wire,       \* what the consumer has sent and the broker has not read
  consumer,   \* "up", "down" (Docker restarts it) or "gone" (it exited 0)
  published,  \* the notifications published so far
  emailed,    \* the notifications whose email went out
  failures,   \* per notification: runs of handler.process that threw
  losses

queues == <<main, retry, dlq>>
channel == <<delivered, working, wire>>
vars == <<queues, channel, consumer, published, emailed, failures, losses>>

TypeOK ==
  /\ main \in Seq(Copies)
  /\ retry \in Seq(Copies)
  /\ dlq \subseteq Copies
  /\ delivered \in [Tags -> Copies \cup {None}]
  /\ working \subseteq Tags
  /\ wire \in Seq(Frames)
  /\ consumer \in {"up", "down", "gone"}
  /\ published \subseteq Ids
  /\ emailed \subseteq published
  /\ failures \in [Ids -> 0 .. FailuresCap]
  /\ losses \in 0 .. MaxLosses

Init ==
  /\ main = <<>>
  /\ retry = <<>>
  /\ dlq = {}
  /\ delivered = [t \in Tags |-> None]
  /\ working = {}
  /\ wire = <<>>
  /\ consumer = "up"
  /\ published = {}
  /\ emailed = {}
  /\ failures = [i \in Ids |-> 0]
  /\ losses = 0
-----------------------------------------------------------------------------
(* order-service: publishNotification, once per order. *)
Publish(i) ==
  /\ i \notin published
  /\ published' = published \cup {i}
  /\ main' = Append(main, [id |-> i, deaths |-> 0])
  /\ UNCHANGED <<retry, dlq, channel, consumer, emailed, failures, losses>>

(* consumeMainQueue: at most Prefetch deliveries without an answer. *)
Deliver(t) ==
  /\ consumer = "up"
  /\ main # <<>>
  /\ delivered[t] = None
  /\ delivered' = [delivered EXCEPT ![t] = Head(main)]
  /\ working' = working \cup {t}
  /\ main' = Tail(main)
  /\ UNCHANGED <<retry, dlq, wire, consumer, published, emailed, failures, losses>>

Ack(t) == [op |-> "ack", tag |-> t]
Nack(t) == [op |-> "nack", tag |-> t]
Send(copy) == [op |-> "publish", copy |-> copy]

(* Mutant: the original is acknowledged before its retry is published. *)
AckThenPublish(t) == <<Ack(t), Send(delivered[t])>>
(* scheduleRetry: publish to the retry queue, with the headers, then ack.  *)
ScheduleRetry(t) == <<Send(delivered[t]), Ack(t)>>

(* handleMessage: handler.process resolves. *)
ProcessSucceeds(t) ==
  /\ t \in working
  /\ delivered[t].id \notin Bad
  /\ emailed' = emailed \cup {delivered[t].id}
  /\ wire' = Append(wire, Ack(t))
  /\ working' = working \ {t}
  /\ UNCHANGED <<queues, delivered, consumer, published, failures, losses>>

(* Mutant: > for >=. *)
OneRetryMore(t) == delivered[t].deaths > MaxRetries
(* Mutant: the last retry is not used. *)
OneRetryFewer(t) == delivered[t].deaths + 1 >= MaxRetries
(* retryCountOf(msg) >= maxRetries. *)
Exhausted(t) == delivered[t].deaths >= MaxRetries

(* handleMessage: handler.process throws. *)
ProcessFails(t) ==
  /\ t \in working
  /\ failures' = [failures EXCEPT ![delivered[t].id] = IF @ < FailuresCap THEN @ + 1 ELSE @]
  /\ \/ Exhausted(t) /\ wire' = Append(wire, Nack(t))
     \/ ~Exhausted(t) /\ wire' = wire \o ScheduleRetry(t)
  /\ working' = working \ {t}
  /\ UNCHANGED <<queues, delivered, consumer, published, emailed, losses>>
-----------------------------------------------------------------------------
(* The broker, as init-topology.sh configures it. *)
ReadPublish ==
  /\ wire # <<>> /\ Head(wire).op = "publish"
  /\ retry' = Append(retry, Head(wire).copy)
  /\ wire' = Tail(wire)
  /\ UNCHANGED <<main, dlq, delivered, working, consumer, published, emailed, failures, losses>>

ReadAck ==
  /\ wire # <<>> /\ Head(wire).op = "ack"
  /\ delivered' = [delivered EXCEPT ![Head(wire).tag] = None]
  /\ wire' = Tail(wire)
  /\ UNCHANGED <<queues, working, consumer, published, emailed, failures, losses>>

(* Mutant: nack(msg, false, true) puts the message back in its queue. *)
Requeue(copy) == main' = <<copy>> \o main /\ UNCHANGED dlq
(* nack(msg, false, false): x-dead-letter-routing-key of the main queue.   *)
DeadLetter(copy) == dlq' = dlq \cup {copy} /\ UNCHANGED main

ReadNack ==
  /\ wire # <<>> /\ Head(wire).op = "nack"
  /\ DeadLetter(delivered[Head(wire).tag])
  /\ delivered' = [delivered EXCEPT ![Head(wire).tag] = None]
  /\ wire' = Tail(wire)
  /\ UNCHANGED <<retry, working, consumer, published, emailed, failures, losses>>

(* Mutant: the broker starts a new x-death, because the headers of the     *)
(* original were not passed on.                                            *)
HeadersDropped(copy) == [copy EXCEPT !.deaths = 1]
Expired(copy) == [copy EXCEPT !.deaths = @ + 1]

(* x-message-ttl ran out: the retry queue dead-letters into the main one.  *)
ExpireRetry ==
  /\ retry # <<>>
  /\ main' = Append(main, Expired(Head(retry)))
  /\ retry' = Tail(retry)
  /\ UNCHANGED <<dlq, channel, consumer, published, emailed, failures, losses>>

(* The deliveries the broker takes back when their channel closes.  Tags   *)
(* do not tell their order, so it is any.                                  *)
Held == {t \in Tags : delivered[t] # None}
Orders == {o \in [1 .. Cardinality(Held) -> Held] : ToSet(o) = Held}
Unanswered(o) == [k \in DOMAIN o |-> delivered[o[k]]]

(* The channel is gone, whoever closed it.  Of the messages in progress an  *)
(* email may still go out.                                                 *)
CloseChannel ==
  /\ consumer = "up"
  /\ losses < MaxLosses
  /\ losses' = losses + 1
  /\ \E sent \in SUBSET {delivered[t].id : t \in working} : emailed' = emailed \cup (sent \ Bad)
  /\ \E o \in Orders : main' = Unanswered(o) \o main
  /\ delivered' = [t \in Tags |-> None]
  /\ working' = {}
  /\ wire' = <<>>
  /\ UNCHANGED <<retry, dlq, published, failures>>

(* The connection breaks or the process dies.  The ack of a message in     *)
(* progress throws, which kills the process.  With none in progress the    *)
(* process only loses its last socket and ends with status 0, which        *)
(* restart: on-failure ignores.                                            *)
LoseConnection ==
  /\ CloseChannel
  /\ \/ consumer' = "down"
     \/ working = {} /\ consumer' = "gone"

(* SIGTERM or SIGINT: stop waits for the broker to confirm the close, which *)
(* it reads after all that was sent before, and for no message in progress. *)
Stop ==
  /\ wire = <<>>
  /\ CloseChannel
  /\ consumer' = "gone"

(* connectWithRetry of the restarted process, once start finds the queues. *)
Connect ==
  /\ consumer' = "up"
  /\ UNCHANGED <<queues, channel, published, emailed, failures, losses>>

Restart == consumer = "down" /\ Connect

(* An operator starts the service again.                                   *)
Launch == consumer = "gone" /\ Connect

Idle ==
  /\ published = Ids /\ retry = <<>> /\ wire = <<>> /\ working = {}
  /\ main = <<>> \/ consumer = "gone"
  /\ UNCHANGED vars

Broker == ReadPublish \/ ReadAck \/ ReadNack \/ ExpireRetry

Next ==
  \/ \E i \in Ids : Publish(i)
  \/ \E t \in Tags : Deliver(t) \/ ProcessSucceeds(t) \/ ProcessFails(t)
  \/ Broker
  \/ LoseConnection \/ Stop \/ Restart \/ Launch
  \/ Idle

(* The broker works, the event loop runs every handler to its end, and     *)
(* Docker restarts a process that failed; nobody has to start one that     *)
(* exited with status 0.                                                   *)
Fairness ==
  /\ WF_vars(ReadPublish \/ ReadAck \/ ReadNack)
  /\ WF_vars(ExpireRetry)
  /\ WF_vars(Restart)
  /\ \A t \in Tags : /\ WF_vars(Deliver(t))
                     /\ WF_vars(ProcessSucceeds(t) \/ ProcessFails(t))

Spec == Init /\ [][Next]_vars /\ Fairness
-----------------------------------------------------------------------------
CopiesHeld ==
  ToSet(main) \cup ToSet(retry) \cup dlq \cup ({delivered[t] : t \in Tags} \ {None})

(* A notification that was published is never lost: until its email has    *)
(* gone out the broker holds a copy of it (consumer.js:125, publish before *)
(* ack).                                                                   *)
NoMessageLost ==
  \A i \in published : i \in emailed \/ \E copy \in CopiesHeld : copy.id = i

(* A message is given up only after 1 + MaxRetries runs that threw, across *)
(* every restart of the consumer: the count travels with the message.      *)
DlqMeansExhausted ==
  \A copy \in dlq : failures[copy.id] > MaxRetries

(* ... and it is not retried more often than that: each round trip through *)
(* the retry queue answers to a run that threw.                            *)
RetriesAreCounted ==
  \A copy \in CopiesHeld : copy.deaths <= failures[copy.id] /\ copy.deaths <= MaxRetries

(* With no connection lost, a notification is handled at most 1 + MaxRetries *)
(* times, and never again once its email went out.                         *)
NoLossNoDuplicate ==
  losses = 0 => \A i \in Ids :
    /\ failures[i] <= MaxRetries + 1
    /\ i \in emailed => \A copy \in ToSet(main) \cup ToSet(retry) \cup dlq : copy.id # i

(* Every notification is eventually emailed or in the DLQ, unless the      *)
(* consumer exited with status 0: stopped, or idle when it lost its        *)
(* connection.                                                             *)
EveryMessageSettled ==
  \A i \in Ids :
    i \in published ~> (i \in emailed \/ (\E copy \in dlq : copy.id = i) \/ consumer = "gone")
-----------------------------------------------------------------------------
(* The inductive invariant of NotificationProofs.  An answer on the wire   *)
(* is the only one to its delivery, and what is published for a delivery   *)
(* is right before its ack.                                                *)
AnswersMatch ==
  /\ \A t \in working : delivered[t] # None
  /\ \A k \in DOMAIN wire : wire[k].op # "publish" =>
       /\ wire[k].tag \notin working
       /\ delivered[wire[k].tag] # None
       /\ \A j \in DOMAIN wire :
            wire[j].op # "publish" /\ wire[j].tag = wire[k].tag => j = k
  /\ \A k \in DOMAIN wire : wire[k].op = "publish" =>
       /\ k + 1 \in DOMAIN wire
       /\ wire[k + 1].op = "ack"
       /\ delivered[wire[k + 1].tag] = wire[k].copy

(* Where a notification is that is still to be handled or was given up.    *)
(* The copy of a delivery that was acknowledged is not one of these.       *)
InMain(i) == \E copy \in ToSet(main) : copy.id = i
InRetry(i) == \E copy \in ToSet(retry) : copy.id = i
InDlq(i) == \E copy \in dlq : copy.id = i
InWork(i) == \E t \in working : delivered[t].id = i
Republished(i) == \E k \in DOMAIN wire : wire[k].op = "publish" /\ wire[k].copy.id = i
Rejected(i) == \E k \in DOMAIN wire : wire[k].op = "nack" /\ delivered[wire[k].tag].id = i

NobodyForgotten ==
  \A i \in published :
    i \in emailed \/ InMain(i) \/ InRetry(i) \/ InDlq(i) \/ InWork(i) \/ Republished(i) \/ Rejected(i)

(* What waits for another try was tried once more than its deaths say and  *)
(* has one left, and what was rejected has none.                           *)
Waiting == ToSet(retry) \cup {wire[k].copy : k \in {j \in DOMAIN wire : wire[j].op = "publish"}}
TriesAreCounted ==
  /\ \A copy \in Waiting : copy.deaths < failures[copy.id] /\ copy.deaths < MaxRetries
  /\ \A k \in DOMAIN wire : wire[k].op = "nack" => failures[delivered[wire[k].tag].id] > MaxRetries

OnlyPublished == \A copy \in CopiesHeld : copy.id \in published

IInv ==
  /\ TypeOK
  /\ OnlyPublished
  /\ AnswersMatch
  /\ NobodyForgotten
  /\ TriesAreCounted
  /\ RetriesAreCounted
  /\ DlqMeansExhausted

(* While no channel closed, a notification is in one of these places, once, *)
(* and its failures are the deaths of its copy, or one more when the last  *)
(* try is over.                                                            *)
Places == {"emailed", "main", "retry", "dlq", "work", "wire", "rejected"}
InPlace(p, i) ==
  \/ p = "emailed" /\ i \in emailed
  \/ p = "main" /\ InMain(i)
  \/ p = "retry" /\ InRetry(i)
  \/ p = "dlq" /\ InDlq(i)
  \/ p = "work" /\ InWork(i)
  \/ p = "wire" /\ Republished(i)
  \/ p = "rejected" /\ Rejected(i)
OnePlace == \A i \in Ids : \A p, q \in Places : InPlace(p, i) /\ InPlace(q, i) => p = q

Distinct(queue) == \A j, k \in DOMAIN queue : queue[j].id = queue[k].id => j = k
OnceInPlace ==
  /\ Distinct(main)
  /\ Distinct(retry)
  /\ \A t, u \in working : delivered[t].id = delivered[u].id => t = u
  /\ \A j, k \in DOMAIN wire :
       wire[j].op = "publish" /\ wire[k].op = "publish" /\ wire[j].copy.id = wire[k].copy.id => j = k
  /\ \A j, k \in DOMAIN wire :
       /\ wire[j].op = "nack" /\ wire[k].op = "nack"
       /\ delivered[wire[j].tag].id = delivered[wire[k].tag].id
       => j = k

FailuresAreDeaths ==
  /\ \A copy \in ToSet(main) : failures[copy.id] = copy.deaths
  /\ \A t \in working : failures[delivered[t].id] = delivered[t].deaths
  /\ \A copy \in Waiting : failures[copy.id] = copy.deaths + 1
  /\ \A i \in Ids : failures[i] <= IF i \in published THEN MaxRetries + 1 ELSE 0

Sole == OnePlace /\ OnceInPlace /\ FailuresAreDeaths
SoleCopy == losses = 0 => Sole
=============================================================================
