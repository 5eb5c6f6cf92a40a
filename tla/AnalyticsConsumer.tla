-------------------------- MODULE AnalyticsConsumer --------------------------
(***************************************************************************)
(* analytics-service (src/analytics-service): the kafkajs consumer of the  *)
(* topic order-events, the rows it inserts into order_metrics, and the     *)
(* topic order-events-dlq it publishes to.                                 *)
(*                                                                         *)
(* eachMessage runs for one message at a time.  kafkajs resolves the       *)
(* message when it returns, and commits what is resolved later.            *)
(***************************************************************************)
EXTENDS Integers, Sequences, FiniteSets

CONSTANTS
  Events,       \* the events order-service publishes
  Malformed,    \* those that JSON.parse rejects
  Unknown,      \* those with an eventType handleEvent does not know
  Poison,       \* those whose handling always throws before its INSERT
  Partitions,   \* of the topic order-events
  PartitionOf,  \* the hash of an event's key, its orderId
  RetryLimits,  \* the values KAFKA_MAX_RETRIES may have: nothing validates it
  MaxFaults,    \* bound: failed queries and sends in a behaviour
  MaxCrashes,   \* bound: crashes, and rejoins of the group, in a behaviour
  None

ASSUME AnalyticsAssumption ==
  /\ Malformed \cup Unknown \cup Poison \subseteq Events
  /\ PartitionOf \in [Events -> Partitions]
  /\ RetryLimits \subseteq Nat
  /\ MaxFaults \in Nat
  /\ MaxCrashes \in Nat

VARIABLES
  maxRetries,  \* config.kafka.maxRetries
  log,         \* per partition: the events in the topic
  committed,   \* per partition: the offset the group has committed
  position,    \* per partition: how many messages are resolved
  job,         \* the message eachMessage is running for
  rows,        \* per event: its rows in order_metrics
  dlq,         \* the events in order-events-dlq
  dropped,     \* the events whose DLQ publish failed: only a log line is left
  faults,
  crashes

topic == <<log, committed, position>>
tables == <<rows, dlq, dropped>>
vars == <<maxRetries, topic, job, tables, faults, crashes>>

Stages == {"handle", "summary", "dlq", "throw"}
Jobs == [part : Partitions, event : Events, attempt : Nat, pc : Stages]

ASSUME NoneAssumption == None \notin Jobs

TypeOK ==
  /\ maxRetries \in RetryLimits
  /\ log \in [Partitions -> Seq(Events)]
  /\ {position, committed} \subseteq [Partitions -> Nat]
  /\ \A p \in Partitions : committed[p] <= position[p] /\ position[p] <= Len(log[p])
  /\ job # None => job \in Jobs /\ job.attempt \in {1} \cup 1 .. maxRetries
  /\ rows \in [Events -> Nat]
  /\ dlq \cup dropped \subseteq Events
  /\ faults \in 0 .. MaxFaults
  /\ crashes \in 0 .. MaxCrashes

Init ==
  /\ maxRetries \in RetryLimits
  /\ log = [p \in Partitions |-> <<>>]
  /\ committed = [p \in Partitions |-> 0]
  /\ position = [p \in Partitions |-> 0]
  /\ job = None
  /\ rows = [e \in Events |-> 0]
  /\ dlq = {}
  /\ dropped = {}
  /\ faults = 0
  /\ crashes = 0

Published(e) == \E i \in DOMAIN log[PartitionOf[e]] : log[PartitionOf[e]][i] = e
-----------------------------------------------------------------------------
(* publishOrderEvent of order-service, which creates the events of         *)
(* concurrent sagas in any order.                                          *)
Produce(e) ==
  /\ ~Published(e)
  /\ log' = [log EXCEPT ![PartitionOf[e]] = Append(@, e)]
  /\ UNCHANGED <<maxRetries, committed, position, job, tables, faults, crashes>>

(* processMessage up to the first run of its loop.  With maxRetries = 0    *)
(* the loop does not run and lastError.message throws a TypeError.         *)
FirstStage(e) ==
  CASE e \in Malformed -> "dlq"
    [] e \notin Malformed /\ maxRetries = 0 -> "throw"
    [] OTHER -> "handle"

Fetch(p) ==
  /\ job = None
  /\ position[p] < Len(log[p])
  /\ LET e == log[p][position[p] + 1]
     IN job' = [part |-> p, event |-> e, attempt |-> 1, pc |-> FirstStage(e)]
  /\ UNCHANGED <<maxRetries, topic, tables, faults, crashes>>

At(pc) == job # None /\ job.pc = pc

(* eachMessage returned: kafkajs resolves the message. *)
Resolve ==
  /\ job' = None
  /\ position' = [position EXCEPT ![job.part] = @ + 1]

(* Mutant: the loop goes on after handleEvent resolved. *)
NoReturn ==
  /\ \/ job.attempt < maxRetries
        /\ job' = [job EXCEPT !.attempt = @ + 1, !.pc = "handle"]
        /\ UNCHANGED position
     \/ job.attempt >= maxRetries /\ Resolve
(* handleEvent resolved: processMessage returns. *)
Handled == Resolve

(* Mutant: attempt <= maxRetries at the end of the loop's body. *)
OneAttemptTooMany == job.attempt <= maxRetries
(* Mutant: the last attempt is not made. *)
OneAttemptFewer == job.attempt + 1 < maxRetries
AttemptsLeft == job.attempt < maxRetries

(* Mutant: as it was before the DLQ, the error is logged and swallowed. *)
Swallow == Resolve
(* Mutant: the last error is thrown out of eachMessage. *)
Rethrow == job' = [job EXCEPT !.pc = "throw"] /\ UNCHANGED position
GiveUp == job' = [job EXCEPT !.pc = "dlq"] /\ UNCHANGED position

(* The catch block of the loop. *)
AttemptFailed ==
  \/ /\ AttemptsLeft
     /\ job' = [job EXCEPT !.attempt = @ + 1, !.pc = "handle"]
     /\ UNCHANGED position
  \/ ~AttemptsLeft /\ GiveUp

(* handleEvent: an unknown eventType. *)
Ignore ==
  /\ At("handle") /\ job.event \in Unknown
  /\ Handled
  /\ UNCHANGED <<maxRetries, log, committed, tables, faults, crashes>>

Recordable(e) == e \notin Unknown \cup Poison

(* recordOrderCreated or recordOrderFailed. *)
Record ==
  /\ At("handle") /\ Recordable(job.event)
  /\ rows' = [rows EXCEPT ![job.event] = @ + 1]
  /\ job' = [job EXCEPT !.pc = "summary"]
  /\ UNCHANGED <<maxRetries, topic, dlq, dropped, faults, crashes>>

(* The INSERT fails; when the connection broke, it may have been done. *)
RecordFails ==
  /\ At("handle") /\ Recordable(job.event)
  /\ faults < MaxFaults
  /\ faults' = faults + 1
  /\ \/ UNCHANGED rows
     \/ rows' = [rows EXCEPT ![job.event] = @ + 1]
  /\ AttemptFailed
  /\ UNCHANGED <<maxRetries, log, committed, dlq, dropped, crashes>>

PoisonThrows ==
  /\ At("handle") /\ job.event \in Poison
  /\ AttemptFailed
  /\ UNCHANGED <<maxRetries, log, committed, tables, faults, crashes>>

(* logDashboard: two queries, inside the same try as the INSERT. *)
Summarise ==
  /\ At("summary")
  /\ Handled
  /\ UNCHANGED <<maxRetries, log, committed, tables, faults, crashes>>

SummariseFails ==
  /\ At("summary")
  /\ faults < MaxFaults
  /\ faults' = faults + 1
  /\ AttemptFailed
  /\ UNCHANGED <<maxRetries, log, committed, tables, crashes>>

SendToDlq ==
  /\ At("dlq")
  /\ dlq' = dlq \cup {job.event}
  /\ Resolve
  /\ UNCHANGED <<maxRetries, log, committed, rows, dropped, faults, crashes>>

(* publishFailed rejects, written or not: sendToDlq logs it and returns. *)
SendToDlqFails ==
  /\ At("dlq")
  /\ faults < MaxFaults
  /\ faults' = faults + 1
  /\ \/ dlq' = dlq \cup {job.event} /\ UNCHANGED dropped
     \/ dropped' = dropped \cup {job.event} /\ UNCHANGED dlq
  /\ Resolve
  /\ UNCHANGED <<maxRetries, log, committed, rows, crashes>>

(* eachMessage threw: kafkajs fetches from the same offset again. *)
ThrowOut ==
  /\ At("throw")
  /\ job' = None
  /\ UNCHANGED <<maxRetries, topic, tables, faults, crashes>>

(* autoCommit: at the end of a batch, of what is resolved. *)
CommitOffset(p) ==
  /\ committed[p] < position[p]
  /\ committed' = [committed EXCEPT ![p] = position[p]]
  /\ UNCHANGED <<maxRetries, log, position, job, tables, faults, crashes>>

(* Mutant: the new member starts at the end of each partition. *)
FromLatest == position' = [p \in Partitions |-> Len(log[p])]
(* The group's committed offset, or with none the beginning of the log. *)
FromCommitted == position' = committed

(* The process dies and is restarted, or it rejoins the group. *)
Crash ==
  /\ crashes < MaxCrashes
  /\ crashes' = crashes + 1
  /\ job' = None
  /\ FromCommitted
  /\ UNCHANGED <<maxRetries, log, committed, tables, faults>>

CaughtUp ==
  /\ job = None
  /\ \A e \in Events : Published(e)
  /\ \A p \in Partitions : committed[p] = Len(log[p])
  /\ UNCHANGED vars

Handling ==
  \/ Ignore \/ Record \/ RecordFails \/ PoisonThrows
  \/ Summarise \/ SummariseFails
  \/ SendToDlq \/ SendToDlqFails \/ ThrowOut

Next ==
  \/ \E e \in Events : Produce(e)
  \/ \E p \in Partitions : Fetch(p) \/ CommitOffset(p)
  \/ Handling
  \/ Crash
  \/ CaughtUp

(* kafkajs fetches every assigned partition in turn, the event loop runs a *)
(* handler to its end, and a batch that ended is committed.                *)
Fairness ==
  /\ WF_vars(Handling)
  /\ \A p \in Partitions : SF_vars(Fetch(p)) /\ WF_vars(CommitOffset(p))

Spec == Init /\ [][Next]_vars /\ Fairness
-----------------------------------------------------------------------------
Accounted(e) == rows[e] > 0 \/ e \in dlq \cup dropped \cup Unknown

(* No event is skipped: whatever the group has moved past has a row, is in *)
(* the DLQ, was of an unknown type, or failed to reach the DLQ with the    *)
(* loud log line of consumer.js:91-95, across crashes and redeliveries.    *)
NothingSkipped ==
  \A p \in Partitions : \A i \in 1 .. position[p] : Accounted(log[p][i])

(* The events of a partition take effect in the order of its log, which is *)
(* what the key orderId is for (infra/kafka/init-topics.sh:9-11): none has *)
(* a row or is in the DLQ before all those ahead of it are accounted for.  *)
OrderKept ==
  \A p \in Partitions : \A i, j \in DOMAIN log[p] :
    i < j /\ (rows[log[p][j]] > 0 \/ log[p][j] \in dlq) => Accounted(log[p][i])

(* An event gets a second row only by a failed query or a redelivery, and  *)
(* each of these costs at most one row: the loop ends when handleEvent did *)
(* (consumer.js:60-61), and each attempt inserts once.  It does get one    *)
(* then: the INSERT has no key to conflict on.                             *)
ExtraRowsHaveACause ==
  \A e \in Events : rows[e] <= 1 + faults + crashes

(* Giving up has its price: an event that can be handled leaves the loop   *)
(* for the DLQ only when each of its maxRetries attempts failed            *)
(* (consumer.js:58-78), and an event is lost only when its publish to the  *)
(* DLQ failed as well (consumer.js:83-97).  No failure pays for two events. *)
GivenUp == (dlq \cup dropped) \ (Malformed \cup Poison)
PriceOfGivingUp == maxRetries * Cardinality(GivenUp) + Cardinality(dropped)
GivenUpWhenExhausted == PriceOfGivingUp <= faults

(* No event blocks its partition, poison or not, when at least one attempt *)
(* is configured (consumer.js:40-44): what is published is eventually      *)
(* behind the committed offset.                                            *)
EveryEventCommitted ==
  \A e \in Events :
    (maxRetries > 0 /\ Published(e))
      ~> LET p == PartitionOf[e] IN \E i \in 1 .. committed[p] : log[p][i] = e
-----------------------------------------------------------------------------
(* The inductive invariant of AnalyticsProofs.  An event is in its log     *)
(* once, and takes no effect before it is there.                           *)
LogIsSound ==
  /\ \A p \in Partitions : \A i, j \in DOMAIN log[p] :
       PartitionOf[log[p][i]] = p /\ (log[p][i] = log[p][j] => i = j)
  /\ \A e \in Events : rows[e] > 0 \/ e \in dlq => Published(e)

(* The message in hand is the next one of its partition, and has its row   *)
(* when only the dashboard is left.                                        *)
JobIsNext ==
  job # None =>
    /\ position[job.part] < Len(log[job.part])
    /\ job.event = log[job.part][position[job.part] + 1]
    /\ job.pc = "summary" => rows[job.event] > 0

(* It has cost a fault for each attempt that failed, unless it is poison,  *)
(* on top of what the events given up have cost.                           *)
PaidInHand ==
  IF job = None \/ job.event \in Malformed \cup Poison \/ job.pc = "throw" THEN 0
  ELSE IF job.pc = "dlq" THEN maxRetries ELSE job.attempt - 1
FailuresCounted ==
  /\ IsFiniteSet(dlq \cup dropped)
  /\ PriceOfGivingUp + PaidInHand <= faults

(* What is still to be handled has one row less than what has been.        *)
InHand(e) == job # None /\ job.event = e /\ job.pc = "summary"
RowsCounted ==
  \A p \in Partitions : \A i \in DOMAIN log[p] :
    i > position[p] /\ ~InHand(log[p][i]) => rows[log[p][i]] <= faults + crashes

IInv ==
  /\ TypeOK
  /\ LogIsSound
  /\ JobIsNext
  /\ FailuresCounted
  /\ RowsCounted
  /\ NothingSkipped
  /\ OrderKept
  /\ ExtraRowsHaveACause
  /\ GivenUpWhenExhausted
=============================================================================
