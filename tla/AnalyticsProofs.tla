---------------------------- MODULE AnalyticsProofs ----------------------------
(***************************************************************************)
(* Proofs about AnalyticsConsumer for every number of events, partitions,  *)
(* faults and crashes, and every retry limit: IInv is inductive, and the   *)
(* safety invariants of the consumer are conjuncts of it.                  *)
(*                                                                         *)
(* The handling actions end in one of two ways, and one lemma serves each: *)
(* the message is resolved (ResolvedInv), or it stays in hand (KeptInv).   *)
(***************************************************************************)
EXTENDS AnalyticsConsumer, SequenceTheorems, FiniteSetTheorems, TLAPS

(* The message in hand. *)
LEMMA JobType ==
  ASSUME TypeOK, job # None
  PROVE  /\ job \in Jobs
         /\ job.part \in Partitions /\ job.event \in Events
         /\ job.attempt \in Nat \ {0} /\ job.pc \in Stages
         /\ job.attempt = 1 \/ job.attempt <= maxRetries
BY AnalyticsAssumption DEF TypeOK, Jobs

(* The positions of the log and its events. *)
LEMMA LogType ==
  ASSUME TypeOK, NEW p \in Partitions
  PROVE  /\ Len(log[p]) \in Nat /\ position[p] \in Nat /\ committed[p] \in Nat
         /\ position[p] <= Len(log[p]) /\ committed[p] <= position[p]
         /\ log[p] \in Seq(Events)
         /\ DOMAIN log[p] = 1 .. Len(log[p])
         /\ \A i \in 1 .. Len(log[p]) : log[p][i] \in Events
BY DEF TypeOK

(* The counters are naturals. *)
LEMMA CounterType ==
  ASSUME TypeOK
  PROVE  /\ maxRetries \in Nat /\ faults \in Nat /\ crashes \in Nat
         /\ \A e \in Events : rows[e] \in Nat
BY AnalyticsAssumption DEF TypeOK

(* The message in hand is in its log, right behind the position, and has   *)
(* been counted unless its row was just inserted.                          *)
LEMMA HandIsNext ==
  ASSUME IInv, job # None
  PROVE  /\ position[job.part] + 1 \in 1 .. Len(log[job.part])
         /\ job.event = log[job.part][position[job.part] + 1]
         /\ PartitionOf[job.event] = job.part
         /\ Published(job.event)
         /\ job.pc # "summary" => rows[job.event] <= faults + crashes
<1>1. /\ job.part \in Partitions
      /\ Len(log[job.part]) \in Nat /\ position[job.part] \in Nat
      /\ DOMAIN log[job.part] = 1 .. Len(log[job.part])
  BY JobType, LogType DEF IInv
<1>2. /\ position[job.part] + 1 \in 1 .. Len(log[job.part])
      /\ job.event = log[job.part][position[job.part] + 1]
  BY <1>1 DEF IInv, JobIsNext
<1>3. PartitionOf[job.event] = job.part
  BY <1>1, <1>2 DEF IInv, LogIsSound
<1>4. Published(job.event)
  BY <1>1, <1>2, <1>3 DEF Published
<1>5. ASSUME job.pc # "summary" PROVE rows[job.event] <= faults + crashes
  BY <1>1, <1>2, <1>5 DEF IInv, RowsCounted, InHand
<1> QED
  BY <1>2, <1>3, <1>4, <1>5

(* What the message in hand has been paid for.                             *)
LEMMA PaidType ==
  ASSUME TypeOK
  PROVE  PaidInHand \in Nat
<1>1. job # None => job.attempt \in Nat \ {0}
  BY JobType
<1>2. maxRetries \in Nat
  BY CounterType
<1> QED
  BY <1>1, <1>2 DEF PaidInHand

(* A set of events at most one of which is new.                            *)
LEMMA OneMore ==
  ASSUME NEW S, NEW T, NEW e, IsFiniteSet(S), S \subseteq T, T \subseteq S \cup {e}
  PROVE  /\ IsFiniteSet(T) /\ Cardinality(S) \in Nat
         /\ Cardinality(T) \in {Cardinality(S), Cardinality(S) + 1}
<1>1. T = S \/ T = S \cup {e}
  OBVIOUS
<1> QED
  BY <1>1, FS_AddElement, FS_CardinalityType

(* The price is a number.                                                  *)
LEMMA PriceType ==
  ASSUME TypeOK, IsFiniteSet(dlq \cup dropped)
  PROVE  /\ IsFiniteSet(GivenUp) /\ IsFiniteSet(dropped)
         /\ Cardinality(GivenUp) \in Nat /\ Cardinality(dropped) \in Nat
         /\ PriceOfGivingUp \in Nat
<1>1. IsFiniteSet(GivenUp) /\ IsFiniteSet(dropped)
  BY FS_Subset DEF GivenUp
<1>2. Cardinality(GivenUp) \in Nat /\ Cardinality(dropped) \in Nat
  BY <1>1, FS_CardinalityType
<1>3. maxRetries \in Nat
  BY CounterType
<1>4. \A m, n, k \in Nat : m * n + k \in Nat
  OBVIOUS
<1> QED
  BY <1>1, <1>2, <1>3, <1>4 DEF PriceOfGivingUp

(* The price of one event more: its attempts, and the lost publish.        *)
LEMMA PriceRises ==
  ASSUME TypeOK, IsFiniteSet(dlq \cup dropped), NEW e, maxRetries' = maxRetries,
         dlq \subseteq dlq', dlq' \subseteq dlq \cup {e},
         dropped \subseteq dropped', dropped' \subseteq dropped \cup {e}
  PROVE  /\ IsFiniteSet(dlq' \cup dropped')
         /\ PriceOfGivingUp' \in Nat
         /\ PriceOfGivingUp' <= PriceOfGivingUp
               + (IF e \in Malformed \cup Poison THEN 0 ELSE maxRetries)
               + (IF dropped' = dropped THEN 0 ELSE 1)
<1> DEFINE n == Cardinality(GivenUp)
           k == Cardinality(dropped)
<1>1. IsFiniteSet(dlq' \cup dropped')
  BY OneMore
<1>2. /\ IsFiniteSet(GivenUp) /\ IsFiniteSet(dropped) /\ n \in Nat /\ k \in Nat
      /\ maxRetries \in Nat
  BY PriceType, CounterType
<1>3. GivenUp' = (dlq' \cup dropped') \ (Malformed \cup Poison)
  BY DEF GivenUp
<1>4. /\ GivenUp \subseteq GivenUp' /\ GivenUp' \subseteq GivenUp \cup {e}
      /\ e \in Malformed \cup Poison => GivenUp' = GivenUp
  BY <1>3 DEF GivenUp
<1>5. Cardinality(GivenUp') \in {n, n + 1}
  BY <1>2, <1>4, OneMore
<1>6. Cardinality(dropped') \in {k, k + 1}
  BY <1>2, OneMore
<1>7. e \in Malformed \cup Poison => Cardinality(GivenUp') = n
  BY <1>4
<1>8. dropped' = dropped => Cardinality(dropped') = k
  OBVIOUS
<1>9. PriceOfGivingUp = maxRetries * n + k
  BY DEF PriceOfGivingUp
<1>10. PriceOfGivingUp' = maxRetries * Cardinality(GivenUp') + Cardinality(dropped')
  BY DEF PriceOfGivingUp
<1> HIDE DEF n, k
<1>11. /\ maxRetries * (n + 1) = maxRetries * n + maxRetries
       /\ maxRetries * n \in Nat
  BY <1>2
<1>12. /\ maxRetries * Cardinality(GivenUp') \in Nat
       /\ maxRetries * Cardinality(GivenUp') <= maxRetries * n
             + (IF e \in Malformed \cup Poison THEN 0 ELSE maxRetries)
  BY <1>2, <1>5, <1>7, <1>11
<1>13. /\ Cardinality(dropped') \in Nat
       /\ Cardinality(dropped') <= k + (IF dropped' = dropped THEN 0 ELSE 1)
  BY <1>2, <1>6, <1>8
<1> HIDE DEF n, k
<1> QED
  BY <1>1, <1>2, <1>9, <1>10, <1>11, <1>12, <1>13

(* Nobody was given up, and what the message in hand was paid for is kept  *)
(* or forgotten.                                                           *)
LEMMA PriceStays ==
  ASSUME TypeOK, FailuresCounted, UNCHANGED <<maxRetries, dlq, dropped, faults>>,
         PaidInHand' \in {0, PaidInHand}
  PROVE  FailuresCounted' /\ GivenUpWhenExhausted'
<1>1. PriceOfGivingUp' = PriceOfGivingUp /\ dlq' \cup dropped' = dlq \cup dropped
  BY DEF PriceOfGivingUp, GivenUp
<1>2. PriceOfGivingUp \in Nat /\ PaidInHand \in Nat /\ faults \in Nat
  BY PriceType, PaidType, CounterType DEF FailuresCounted
<1>3. PriceOfGivingUp + PaidInHand <= faults /\ IsFiniteSet(dlq \cup dropped)
  BY DEF FailuresCounted
<1>4. PriceOfGivingUp + PaidInHand' <= faults /\ PriceOfGivingUp <= faults
  <2>1. \A m, n, k \in Nat : m + n <= k => m + 0 <= k /\ m <= k
    OBVIOUS
  <2>2. PriceOfGivingUp + 0 <= faults /\ PriceOfGivingUp <= faults
    BY <1>2, <1>3, <2>1
  <2>3. CASE PaidInHand' = 0
    BY <2>2, <2>3
  <2>4. CASE PaidInHand' = PaidInHand
    BY <2>2, <1>3, <2>4
  <2> QED
    BY <2>3, <2>4
<1>5. IsFiniteSet(dlq' \cup dropped')
  BY <1>1, <1>3
<1> QED
  BY <1>1, <1>4, <1>5 DEF FailuresCounted, GivenUpWhenExhausted

-----------------------------------------------------------------------------
(* The message in hand is resolved: it is accounted for now, and joins the *)
(* events behind the position.                                             *)
LEMMA ResolvedInv ==
  ASSUME IInv, NEW done, job # None, job.event = done, Resolve,
         maxRetries' = maxRetries, log' = log, committed' = committed, rows' = rows,
         crashes' = crashes, faults' \in faults .. MaxFaults,
         dlq \subseteq dlq', dlq' \subseteq dlq \cup {job.event},
         dropped \subseteq dropped', dropped' \subseteq dropped \cup {job.event},
         Accounted(done)',
         job.pc = "dlq" \/ (dlq' = dlq /\ dropped' = dropped),
         dropped' = dropped \/ faults' > faults
  PROVE  IInv'
<1> USE DEF IInv
<1> DEFINE P == job.part
<1>1. /\ P \in Partitions /\ job.event \in Events
      /\ position' = [position EXCEPT ![P] = position[P] + 1] /\ job' = None
  BY JobType DEF Resolve
<1>2. /\ position[P] + 1 \in 1 .. Len(log[P]) /\ job.event = log[P][position[P] + 1]
      /\ PartitionOf[job.event] = P /\ Published(job.event)
      /\ job.pc # "summary" => rows[job.event] <= faults + crashes
  BY HandIsNext
<1>3. /\ maxRetries \in Nat /\ faults \in Nat /\ crashes \in Nat /\ faults' \in Nat
      /\ faults <= faults' /\ \A e \in Events : rows[e] \in Nat
  BY CounterType, AnalyticsAssumption
<1>4. \A p \in Partitions :
        /\ position[p] \in Nat /\ Len(log[p]) \in Nat /\ committed[p] \in Nat
        /\ position'[p] = IF p = P THEN position[p] + 1 ELSE position[p]
        /\ DOMAIN log[p] = 1 .. Len(log[p])
        /\ \A i \in 1 .. Len(log[p]) : log[p][i] \in Events
  BY <1>1, LogType DEF TypeOK
<1>5. \A e \in Events : Accounted(e) => Accounted(e)'
  BY <1>3 DEF Accounted
<1>6. TypeOK'
  <2>1. position' \in [Partitions -> Nat]
    BY <1>1, <1>4 DEF TypeOK
  <2>2. \A p \in Partitions : committed[p] <= position'[p] /\ position'[p] <= Len(log[p])
    BY <1>2, <1>4, LogType
  <2>3. dlq' \cup dropped' \subseteq Events
    BY <1>1 DEF TypeOK
  <2>4. faults' \in 0 .. MaxFaults
    BY <1>3, AnalyticsAssumption
  <2> QED
    BY <2>1, <2>2, <2>3, <2>4, <1>1 DEF TypeOK
<1>7. LogIsSound'
  BY <1>2, <1>3 DEF LogIsSound, Published
<1>8. JobIsNext' /\ FailuresCounted'
  <2>1. PriceOfGivingUp + PaidInHand <= faults /\ IsFiniteSet(dlq \cup dropped)
    BY DEF FailuresCounted
  <2>2. PriceOfGivingUp \in Nat /\ PaidInHand \in Nat
    BY <2>1, PriceType, PaidType
  <2>3. PaidInHand' = 0
    BY <1>1 DEF PaidInHand
  <2>4. /\ IsFiniteSet(dlq' \cup dropped')
        /\ PriceOfGivingUp' \in Nat
        /\ PriceOfGivingUp' <= PriceOfGivingUp
              + (IF job.event \in Malformed \cup Poison THEN 0 ELSE maxRetries)
              + (IF dropped' = dropped THEN 0 ELSE 1)
    BY <2>1, PriceRises
  <2>5. PriceOfGivingUp' <= faults'
    <3>1. CASE job.pc = "dlq"
      <4>1. PaidInHand = IF job.event \in Malformed \cup Poison THEN 0 ELSE maxRetries
        BY <3>1 DEF PaidInHand
      <4>2. CASE dropped' = dropped
        BY <1>3, <2>1, <2>2, <2>4, <4>1, <4>2
      <4>3. CASE dropped' # dropped
        <5>1. faults' >= faults + 1
          BY <1>3, <4>3
        <5> QED
          BY <1>3, <2>1, <2>2, <2>4, <4>1, <4>3, <5>1
      <4> QED
        BY <4>2, <4>3
    <3>2. CASE dlq' = dlq /\ dropped' = dropped
      <4>1. PriceOfGivingUp' = PriceOfGivingUp
        BY <3>2 DEF PriceOfGivingUp, GivenUp
      <4> QED
        BY <1>3, <2>1, <2>2, <4>1
    <3> QED
      BY <3>1, <3>2
  <2>6. FailuresCounted'
    BY <2>3, <2>4, <2>5 DEF FailuresCounted
  <2> QED
    BY <1>1, <2>6 DEF JobIsNext
<1>9. NothingSkipped'
  <2> SUFFICES ASSUME NEW p \in Partitions, NEW i \in 1 .. position'[p]
               PROVE  Accounted(log[p][i])'
    BY DEF NothingSkipped
  <2>1. CASE i \in 1 .. position[p]
    BY <2>1, <1>4, <1>5, LogType DEF NothingSkipped
  <2>2. CASE p = P /\ i = position[p] + 1
    BY <2>2, <1>2 DEF Accounted
  <2> QED
    BY <2>1, <2>2, <1>4
<1>10. OrderKept'
  <2> SUFFICES ASSUME NEW p \in Partitions, NEW i \in DOMAIN log[p], NEW j \in DOMAIN log[p],
                      i < j, rows[log[p][j]] > 0 \/ log[p][j] \in dlq'
               PROVE  Accounted(log[p][i])'
    BY DEF OrderKept
  <2>1. CASE rows[log[p][j]] > 0 \/ log[p][j] \in dlq
    BY <2>1, <1>4, <1>5 DEF OrderKept
  <2>2. CASE log[p][j] = job.event
    <3>1. p = P
      BY <2>2, <1>2, <1>4 DEF LogIsSound
    <3>2. j = position[P] + 1
      <4>1. position[P] + 1 \in DOMAIN log[p] /\ log[p][j] = log[p][position[P] + 1]
        BY <2>2, <3>1, <1>1, <1>2, <1>4
      <4> QED
        BY <4>1 DEF LogIsSound
    <3>3. i \in 1 .. position[p]
      BY <3>1, <3>2, <1>4
    <3> QED
      BY <3>3, <1>4, <1>5 DEF NothingSkipped
  <2> QED
    BY <2>1, <2>2
<1>11. ExtraRowsHaveACause'
  BY <1>3 DEF ExtraRowsHaveACause
<1>12. RowsCounted'
  <2> SUFFICES ASSUME NEW p \in Partitions, NEW i \in DOMAIN log[p], i > position'[p]
               PROVE  rows[log[p][i]] <= faults' + crashes
    BY <1>1 DEF RowsCounted, InHand
  <2>1. i > position[p] /\ log[p][i] \in Events
    BY <1>4
  <2>2. log[p][i] # job.event
    BY <1>1, <1>2, <1>4 DEF LogIsSound
  <2>3. rows[log[p][i]] <= faults + crashes
    BY <2>1, <2>2 DEF RowsCounted, InHand
  <2> QED
    BY <2>1, <2>3, <1>3
<1>13. GivenUpWhenExhausted'
  <2>1. PaidInHand' = 0 /\ PriceOfGivingUp' \in Nat
    <3>1. PriceOfGivingUp' \in Nat
      BY <1>8, PriceRises DEF FailuresCounted
    <3> QED
      BY <1>1, <3>1 DEF PaidInHand
  <2> QED
    BY <1>8, <2>1 DEF GivenUpWhenExhausted, FailuresCounted
<1> QED
  BY <1>6, <1>7, <1>8, <1>9, <1>10, <1>11, <1>12, <1>13

-----------------------------------------------------------------------------
(* The message stays in hand, with or without a row more: a row that is    *)
(* not for the dashboard's stage has cost a fault, and so has a failed     *)
(* attempt of an event that is not poison.                                 *)
LEMMA KeptInv ==
  ASSUME IInv, job # None, NEW a \in Nat \ {0}, NEW c \in Stages,
         job' = [job EXCEPT !.attempt = a, !.pc = c],
         a = 1 \/ a <= maxRetries,
         maxRetries' = maxRetries, log' = log, committed' = committed, position' = position,
         dlq' = dlq, dropped' = dropped, crashes' = crashes,
         faults' \in faults .. MaxFaults,
         \/ rows' = rows
         \/ /\ rows' = [rows EXCEPT ![job.event] = @ + 1]
            /\ job.pc = "handle" /\ (c = "summary" \/ faults' > faults),
         c = "summary" <=> rows' # rows /\ faults' = faults,
         job.pc = "summary" => faults' > faults,
         PaidInHand' <= PaidInHand + (faults' - faults)
  PROVE  IInv'
<1> USE DEF IInv
<1>1. /\ job \in Jobs /\ job.part \in Partitions /\ job.event \in Events
      /\ job' \in Jobs /\ job' # None
      /\ job'.part = job.part /\ job'.event = job.event
      /\ job'.attempt = a /\ job'.pc = c
  BY JobType, NoneAssumption DEF Jobs
<1>2. /\ position[job.part] + 1 \in 1 .. Len(log[job.part])
      /\ job.event = log[job.part][position[job.part] + 1]
      /\ PartitionOf[job.event] = job.part /\ Published(job.event)
      /\ job.pc # "summary" => rows[job.event] <= faults + crashes
  BY HandIsNext
<1>3. /\ maxRetries \in Nat /\ faults \in Nat /\ crashes \in Nat /\ faults' \in Nat
      /\ faults <= faults' /\ \A e \in Events : rows[e] \in Nat
  BY CounterType, AnalyticsAssumption
<1>4. \A e \in Events :
        /\ rows'[e] \in Nat /\ rows'[e] >= rows[e]
        /\ e # job.event => rows'[e] = rows[e]
        /\ rows'[e] <= rows[e] + 1
        /\ rows'[e] = rows[e] \/ (job.pc = "handle" /\ (c = "summary" \/ faults' > faults))
  <2>1. rows \in [Events -> Nat]
    BY DEF TypeOK
  <2>2. CASE rows' = rows
    BY <2>2, <1>3
  <2>3. CASE /\ rows' = [rows EXCEPT ![job.event] = @ + 1]
             /\ job.pc = "handle" /\ (c = "summary" \/ faults' > faults)
    BY <2>1, <2>3, <1>3
  <2> QED
    BY <2>2, <2>3
<1>5. \A e \in Events : Accounted(e) => Accounted(e)'
  BY <1>3, <1>4 DEF Accounted
<1>6. TypeOK'
  <2>1. rows' \in [Events -> Nat]
    <3>1. rows \in [Events -> Nat] /\ rows[job.event] + 1 \in Nat
      BY <1>1, <1>3 DEF TypeOK
    <3> QED
      BY <3>1, <1>1
  <2>2. a \in {1} \cup 1 .. maxRetries
    BY <1>3
  <2>3. faults' \in 0 .. MaxFaults
    BY <1>3, AnalyticsAssumption
  <2>4. job' \in Jobs /\ job'.attempt \in {1} \cup 1 .. maxRetries'
    BY <2>2, <1>1
  <2> QED
    BY <2>1, <2>3, <2>4 DEF TypeOK
<1>7. LogIsSound'
  <2>1. \A e \in Events : rows'[e] > 0 \/ e \in dlq => Published(e)
    BY <1>2, <1>3, <1>4 DEF LogIsSound
  <2> QED
    BY <2>1 DEF LogIsSound, Published
<1>8. JobIsNext'
  <2>1. c = "summary" => rows'[job.event] > 0
    BY <1>1, <1>3 DEF TypeOK
  <2> QED
    BY <2>1, <1>1 DEF JobIsNext
<1>9. FailuresCounted' /\ GivenUpWhenExhausted'
  <2>1. PriceOfGivingUp' = PriceOfGivingUp /\ IsFiniteSet(dlq \cup dropped)
    BY DEF PriceOfGivingUp, GivenUp, FailuresCounted
  <2>2. PriceOfGivingUp \in Nat /\ PaidInHand \in Nat
    BY <2>1, PriceType, PaidType
  <2>4. PaidInHand' \in Nat
    BY <1>1, <1>3 DEF PaidInHand
  <2>3. PriceOfGivingUp + PaidInHand <= faults
    BY DEF FailuresCounted
  <2> QED
    BY <1>3, <2>1, <2>2, <2>3, <2>4 DEF FailuresCounted, GivenUpWhenExhausted
<1>10. NothingSkipped'
  BY <1>5, LogType DEF NothingSkipped
<1>11. OrderKept'
  <2> SUFFICES ASSUME NEW p \in Partitions, NEW i \in DOMAIN log[p], NEW j \in DOMAIN log[p],
                      i < j, rows'[log[p][j]] > 0 \/ log[p][j] \in dlq
               PROVE  Accounted(log[p][i])'
    BY DEF OrderKept
  <2>0. /\ DOMAIN log[p] = 1 .. Len(log[p]) /\ Len(log[p]) \in Nat /\ position[p] \in Nat
        /\ log[p][i] \in Events /\ log[p][j] \in Events
    BY LogType
  <2>1. CASE rows[log[p][j]] > 0 \/ log[p][j] \in dlq
    BY <2>0, <2>1, <1>5 DEF OrderKept
  <2>2. CASE log[p][j] = job.event
    <3>1. p = job.part
      BY <2>2, <1>2 DEF LogIsSound
    <3>2. j = position[p] + 1
      <4>1. position[p] + 1 \in DOMAIN log[p] /\ log[p][j] = log[p][position[p] + 1]
        BY <2>0, <2>2, <3>1, <1>2
      <4> QED
        BY <4>1 DEF LogIsSound
    <3>3. i \in 1 .. position[p]
      BY <2>0, <3>2
    <3> QED
      BY <2>0, <3>3, <1>5 DEF NothingSkipped
  <2> QED
    BY <2>0, <2>1, <2>2, <1>4
<1>12. ExtraRowsHaveACause'
  <2> SUFFICES ASSUME NEW e \in Events PROVE rows'[e] <= 1 + faults' + crashes
    BY DEF ExtraRowsHaveACause
  <2>1. rows[e] <= 1 + faults + crashes
    BY DEF ExtraRowsHaveACause
  <2>2. e = job.event /\ rows'[e] # rows[e] => rows[e] <= faults + crashes
    BY <1>2, <1>4
  <2> QED
    BY <2>1, <2>2, <1>3, <1>4
<1>13. RowsCounted'
  <2> SUFFICES ASSUME NEW p \in Partitions, NEW i \in DOMAIN log[p], i > position[p],
                      ~(job' # None /\ job'.event = log[p][i] /\ job'.pc = "summary")
               PROVE  rows'[log[p][i]] <= faults' + crashes
    BY DEF RowsCounted, InHand
  <2>1. log[p][i] \in Events
    BY LogType
  <2>2. CASE log[p][i] # job.event
    <3>1. rows[log[p][i]] <= faults + crashes
      BY <2>2 DEF RowsCounted, InHand
    <3> QED
      BY <3>1, <2>1, <2>2, <1>3, <1>4
  <2>3. CASE log[p][i] = job.event
    <3>1. c # "summary"
      BY <2>3, <1>1
    <3>2. CASE job.pc = "summary"
      <4>1. rows[job.event] <= 1 + faults + crashes /\ rows'[job.event] = rows[job.event]
        BY <3>2, <1>1, <1>4 DEF ExtraRowsHaveACause
      <4> QED
        BY <4>1, <3>2, <2>3, <1>1, <1>3
    <3>3. CASE job.pc # "summary"
      <4>1. rows[job.event] <= faults + crashes
        BY <3>3, <1>2
      <4>2. \/ rows'[job.event] = rows[job.event]
            \/ rows'[job.event] <= rows[job.event] + 1 /\ faults' > faults
        BY <3>1, <1>1, <1>4
      <4>3. rows'[job.event] <= faults' + crashes
        BY <4>1, <4>2, <1>1, <1>3, <1>4
      <4> QED
        BY <4>3, <2>3
    <3> QED
      BY <3>2, <3>3
  <2> QED
    BY <2>2, <2>3
<1> QED
  BY <1>6, <1>7, <1>8, <1>9, <1>10, <1>11, <1>12, <1>13

(* The catch block: a further attempt, or the message goes to the DLQ.     *)
LEMMA AttemptInv ==
  ASSUME IInv, job # None, AttemptFailed,
         maxRetries' = maxRetries, log' = log, committed' = committed,
         dlq' = dlq, dropped' = dropped, crashes' = crashes,
         \/ /\ faults' = faults + 1 /\ faults < MaxFaults
            /\ \/ rows' = rows
               \/ job.pc = "handle" /\ rows' = [rows EXCEPT ![job.event] = @ + 1]
         \/ faults' = faults /\ rows' = rows /\ job.event \in Poison /\ job.pc = "handle",
         job.pc \in {"handle", "summary"}
  PROVE  IInv'
<1>1. /\ job.attempt \in Nat \ {0} /\ maxRetries \in Nat /\ faults \in Nat
      /\ {"handle", "summary", "dlq"} \subseteq Stages
  BY JobType, CounterType DEF IInv, Stages
<1>2. faults' \in faults .. MaxFaults
  <2>1. faults \in 0 .. MaxFaults /\ MaxFaults \in Nat
    BY AnalyticsAssumption DEF IInv, TypeOK
  <2>2. faults' = faults \/ (faults' = faults + 1 /\ faults < MaxFaults)
    OBVIOUS
  <2> QED
    BY <2>1, <2>2
<1>3. /\ PaidInHand = IF job.event \in Malformed \cup Poison THEN 0 ELSE job.attempt - 1
      /\ job.event \notin Malformed \cup Poison => faults' = faults + 1
  BY DEF PaidInHand
<1>0. /\ faults' > faults \/ (faults' = faults /\ rows' = rows /\ job.pc = "handle")
      /\ ~(rows' # rows /\ faults' = faults)
      /\ \/ rows' = rows
         \/ rows' = [rows EXCEPT ![job.event] = @ + 1] /\ job.pc = "handle" /\ faults' > faults
  BY <1>1
<1>4. CASE /\ job.attempt < maxRetries
           /\ job' = [job EXCEPT !.attempt = job.attempt + 1, !.pc = "handle"]
           /\ position' = position
  <2>1. PaidInHand' <= PaidInHand + (faults' - faults)
    <3>1. /\ job' # None /\ job'.event = job.event /\ job'.pc = "handle"
          /\ job'.attempt = job.attempt + 1
      <4>1. job \in Jobs /\ job.attempt + 1 \in Nat \ {0}
        BY <1>1, JobType DEF IInv
      <4>2. job' \in Jobs
        BY <1>1, <1>4, <4>1 DEF Jobs
      <4> QED
        BY <1>4, <4>1, <4>2, NoneAssumption DEF Jobs
    <3>2. PaidInHand' = IF job.event \in Malformed \cup Poison THEN 0 ELSE job.attempt
      BY <1>1, <3>1 DEF PaidInHand
    <3> QED
      BY <1>1, <1>2, <1>3, <3>2
  <2>2. job.attempt + 1 \in Nat \ {0} /\ job.attempt + 1 <= maxRetries
    BY <1>1, <1>4
  <2>3. job.pc = "summary" => faults' > faults
    BY <1>1
  <2> QED
    BY <1>1, <1>2, <1>0, <1>4, <2>1, <2>2, <2>3, KeptInv
<1>5. CASE /\ ~(job.attempt < maxRetries)
           /\ job' = [job EXCEPT !.pc = "dlq"]
           /\ position' = position
  <2>1. PaidInHand' <= PaidInHand + (faults' - faults)
    <3>1. job' # None /\ job'.event = job.event /\ job'.pc = "dlq"
      <4>1. job \in Jobs /\ job' \in Jobs
        BY <1>1, <1>5, JobType DEF IInv, Jobs
      <4> QED
        BY <1>5, <4>1, NoneAssumption DEF Jobs
    <3>2. PaidInHand' = IF job.event \in Malformed \cup Poison THEN 0 ELSE maxRetries
      BY <3>1 DEF PaidInHand
    <3> QED
      BY <1>1, <1>2, <1>3, <1>5, <3>2
  <2>3. job' = [job EXCEPT !.attempt = job.attempt, !.pc = "dlq"]
    BY <1>5, JobType DEF IInv, Jobs
  <2>4. job.attempt = 1 \/ job.attempt <= maxRetries
    BY JobType DEF IInv
  <2>5. job.pc = "summary" => faults' > faults
    BY <1>1
  <2> QED
    BY <1>1, <1>2, <1>0, <1>5, <2>1, <2>3, <2>4, <2>5, KeptInv
<1> QED
  BY <1>4, <1>5 DEF AttemptFailed, AttemptsLeft, GiveUp

-----------------------------------------------------------------------------
(* The actions of the handler. *)
LEMMA HandlingInv ==
  ASSUME IInv, Handling
  PROVE  IInv'
<1> USE DEF At, tables
<1>1. /\ faults \in Nat /\ maxRetries \in Nat
      /\ faults \in faults .. MaxFaults
      /\ faults < MaxFaults => faults + 1 \in faults .. MaxFaults
  BY CounterType, AnalyticsAssumption DEF IInv, TypeOK
<1>2. CASE Ignore
  <2>1. job # None /\ Resolve /\ Accounted(job.event)
    BY <1>2 DEF Ignore, Handled, Accounted
  <2> QED
    BY <1>1, <1>2, <2>1, ResolvedInv DEF Ignore, Accounted
<1>3. CASE Record
  <2>1. /\ job # None /\ job.pc = "handle"
        /\ job' = [job EXCEPT !.pc = "summary"]
        /\ rows' = [rows EXCEPT ![job.event] = @ + 1]
        /\ maxRetries' = maxRetries /\ log' = log /\ committed' = committed
        /\ position' = position /\ dlq' = dlq /\ dropped' = dropped
        /\ crashes' = crashes /\ faults' = faults
    BY <1>3 DEF Record, topic
  <2>2. /\ job.attempt \in Nat \ {0} /\ (job.attempt = 1 \/ job.attempt <= maxRetries)
        /\ job \in Jobs /\ job.event \in Events /\ "summary" \in Stages
    BY <2>1, JobType DEF IInv, Stages
  <2>3. job' = [job EXCEPT !.attempt = job.attempt, !.pc = "summary"]
    BY <2>1, <2>2 DEF Jobs
  <2>4. rows' # rows
    <3>1. rows'[job.event] = rows[job.event] + 1 /\ rows[job.event] \in Nat
      BY <2>1, <2>2 DEF IInv, TypeOK
    <3> QED
      BY <3>1
  <2>5. PaidInHand' <= PaidInHand + (faults' - faults)
    <3>1. /\ job' # None /\ job'.event = job.event /\ job'.pc = "summary"
          /\ job'.attempt = job.attempt
      BY <2>2, <2>3, NoneAssumption DEF Jobs
    <3>2. PaidInHand' = PaidInHand /\ PaidInHand \in Nat
      BY <2>1, <3>1, PaidType DEF PaidInHand, IInv
    <3> QED
      BY <1>1, <2>1, <3>2
  <2>6. "summary" = "summary" <=> rows' # rows /\ faults' = faults
    BY <2>1, <2>4
  <2>7. faults' \in faults .. MaxFaults
    BY <1>1, <2>1
  <2> QED
    BY <2>1, <2>2, <2>3, <2>4, <2>5, <2>6, <2>7, KeptInv
<1>4. CASE RecordFails
  BY <1>4, AttemptInv DEF RecordFails
<1>5. CASE PoisonThrows
  BY <1>5, AttemptInv DEF PoisonThrows
<1>6. CASE Summarise
  <2>1. job # None /\ Resolve /\ Accounted(job.event)
    BY <1>6 DEF Summarise, Handled, Accounted, IInv, JobIsNext
  <2> QED
    BY <1>1, <1>6, <2>1, ResolvedInv DEF Summarise, Accounted
<1>7. CASE SummariseFails
  BY <1>7, AttemptInv DEF SummariseFails
<1>8. CASE SendToDlq
  BY <1>1, <1>8, ResolvedInv DEF SendToDlq, Accounted
<1>9. CASE SendToDlqFails
  BY <1>1, <1>9, ResolvedInv DEF SendToDlqFails, Accounted
<1>10. CASE ThrowOut
  <2>1. job # None /\ job.pc = "throw"
    BY <1>10 DEF ThrowOut
  <2>2. FailuresCounted' /\ GivenUpWhenExhausted'
    BY <1>10, PriceStays DEF IInv, ThrowOut, PaidInHand
  <2>3. /\ job' = None /\ position' = position
        /\ maxRetries' = maxRetries /\ log' = log /\ committed' = committed
        /\ rows' = rows /\ dlq' = dlq /\ dropped' = dropped
        /\ faults' = faults /\ crashes' = crashes
    BY <1>10 DEF ThrowOut, topic, tables
  <2>4. TypeOK'
    BY <2>3 DEF IInv, TypeOK
  <2>5. LogIsSound' /\ JobIsNext' /\ OrderKept' /\ ExtraRowsHaveACause'
    BY <2>3 DEF IInv, LogIsSound, Published, JobIsNext, OrderKept, Accounted, ExtraRowsHaveACause
  <2>6. RowsCounted' /\ NothingSkipped'
    BY <2>1, <2>3 DEF IInv, RowsCounted, InHand, NothingSkipped, Accounted
  <2> QED
    BY <2>2, <2>4, <2>5, <2>6 DEF IInv
<1> QED
  BY <1>2, <1>3, <1>4, <1>5, <1>6, <1>7, <1>8, <1>9, <1>10 DEF Handling

-----------------------------------------------------------------------------
(* What Append does to a log. *)
LEMMA AppendLog ==
  ASSUME NEW s \in Seq(Events), NEW e \in Events
  PROVE  /\ Append(s, e) \in Seq(Events)
         /\ Len(s) \in Nat /\ Len(Append(s, e)) = Len(s) + 1
         /\ DOMAIN s = 1 .. Len(s) /\ DOMAIN Append(s, e) = 1 .. Len(s) + 1
         /\ \A i \in 1 .. Len(s) : Append(s, e)[i] = s[i]
         /\ Append(s, e)[Len(s) + 1] = e
OBVIOUS

(* A new event is behind all others of its partition, and without effect.  *)
LEMMA ProduceInv ==
  ASSUME IInv, NEW e \in Events, Produce(e)
  PROVE  IInv'
<1> USE DEF IInv
<1> DEFINE P == PartitionOf[e]
           L == Len(log[P])
<1>1. /\ maxRetries' = maxRetries /\ committed' = committed /\ position' = position
      /\ job' = job /\ rows' = rows /\ dlq' = dlq /\ dropped' = dropped
      /\ faults' = faults /\ crashes' = crashes
      /\ log' = [log EXCEPT ![P] = Append(log[P], e)]
      /\ ~Published(e)
  BY DEF Produce, tables
<1>2. P \in Partitions
  BY AnalyticsAssumption
<1>3. /\ log[P] \in Seq(Events) /\ L \in Nat
      /\ log'[P] = Append(log[P], e)
      /\ Len(log'[P]) = L + 1 /\ log'[P][L + 1] = e
      /\ DOMAIN log'[P] = 1 .. L + 1 /\ DOMAIN log[P] = 1 .. L
      /\ \A i \in 1 .. L : log'[P][i] = log[P][i]
  BY <1>1, <1>2, LogType, AppendLog DEF TypeOK
<1>4. \A p \in Partitions :
        /\ p # P => log'[p] = log[p]
        /\ position[p] \in Nat /\ Len(log[p]) \in Nat /\ position[p] <= Len(log[p])
        /\ DOMAIN log[p] = 1 .. Len(log[p])
        /\ \A i \in DOMAIN log[p] : i \in DOMAIN log'[p] /\ log'[p][i] = log[p][i]
        /\ \A i \in DOMAIN log'[p] : i \in DOMAIN log[p] \/ (p = P /\ i = L + 1)
  <2> SUFFICES ASSUME NEW p \in Partitions
               PROVE  /\ p # P => log'[p] = log[p]
                      /\ position[p] \in Nat /\ Len(log[p]) \in Nat /\ position[p] <= Len(log[p])
                      /\ DOMAIN log[p] = 1 .. Len(log[p])
                      /\ \A i \in DOMAIN log[p] : i \in DOMAIN log'[p] /\ log'[p][i] = log[p][i]
                      /\ \A i \in DOMAIN log'[p] : i \in DOMAIN log[p] \/ (p = P /\ i = L + 1)
    OBVIOUS
  <2>1. p # P => log'[p] = log[p]
    BY <1>1, <1>2 DEF TypeOK
  <2> HIDE DEF P, L
  <2>2. CASE p = P
    BY <2>2, <1>3, LogType DEF L
  <2>3. CASE p # P
    BY <2>1, <2>3, LogType
  <2> QED
    BY <2>1, <2>2, <2>3
<1>5. rows[e] = 0 /\ e \notin dlq
  BY <1>1, CounterType DEF LogIsSound
<1> HIDE DEF P, L
<1>6. TypeOK'
  <2>1. log' \in [Partitions -> Seq(Events)]
    BY <1>1, <1>2, <1>3, AppendLog DEF TypeOK
  <2>2. \A p \in Partitions : position[p] <= Len(log'[p])
    <3> SUFFICES ASSUME NEW p \in Partitions PROVE position[p] <= Len(log'[p])
      OBVIOUS
    <3>1. CASE p = P
      BY <3>1, <1>3, <1>4
    <3>2. CASE p # P
      BY <3>2, <1>4
    <3> QED
      BY <3>1, <3>2
  <2> QED
    BY <2>1, <2>2, <1>1 DEF TypeOK
<1>7. \A f \in Events : Published(f) => Published(f)'
  <2> SUFFICES ASSUME NEW f \in Events, Published(f) PROVE Published(f)'
    OBVIOUS
  <2>1. PartitionOf[f] \in Partitions
    BY AnalyticsAssumption
  <2> QED
    BY <2>1, <1>4 DEF Published
<1>8. LogIsSound'
  <2>1. \A p \in Partitions : \A i \in DOMAIN log'[p] : PartitionOf[log'[p][i]] = p
    BY <1>2, <1>3, <1>4 DEF LogIsSound, P
  <2>2. ASSUME NEW p \in Partitions, NEW i \in DOMAIN log'[p], NEW j \in DOMAIN log'[p],
               log'[p][i] = log'[p][j]
        PROVE  i = j
    <3>1. CASE i \in DOMAIN log[p] /\ j \in DOMAIN log[p]
      BY <2>2, <3>1, <1>4 DEF LogIsSound
    <3>2. \A k \in DOMAIN log[P] : log[P][k] # e
      BY <1>1 DEF Published, P
    <3>3. CASE i \notin DOMAIN log[p]
      <4>1. p = P /\ i = L + 1 /\ log'[p][j] = e
        BY <2>2, <3>3, <1>3, <1>4
      <4>2. j \notin DOMAIN log[p]
        BY <4>1, <3>2, <1>4
      <4> QED
        BY <4>1, <4>2, <1>4
    <3>4. CASE j \notin DOMAIN log[p]
      <4>1. p = P /\ j = L + 1 /\ log'[p][i] = e
        BY <2>2, <3>4, <1>3, <1>4
      <4>2. i \notin DOMAIN log[p]
        BY <4>1, <3>2, <1>4
      <4> QED
        BY <4>1, <4>2, <1>4
    <3> QED
      BY <3>1, <3>3, <3>4
  <2>3. \A f \in Events : rows'[f] > 0 \/ f \in dlq' => Published(f)'
    BY <1>1, <1>7 DEF LogIsSound
  <2> QED
    BY <2>1, <2>2, <2>3 DEF LogIsSound
<1>9. JobIsNext'
  <2> SUFFICES ASSUME job # None
               PROVE  /\ position[job.part] < Len(log'[job.part])
                      /\ job.event = log'[job.part][position[job.part] + 1]
                      /\ job.pc = "summary" => rows[job.event] > 0
    BY <1>1 DEF JobIsNext
  <2>1. job.part \in Partitions
    BY JobType
  <2>2. position[job.part] + 1 \in DOMAIN log[job.part]
    BY <2>1, <1>4, HandIsNext
  <2>3. position[job.part] < Len(log'[job.part])
    BY <2>1, <2>2, <1>3, <1>4
  <2> QED
    BY <2>1, <2>2, <2>3, <1>4 DEF JobIsNext
<1>10. FailuresCounted' /\ ExtraRowsHaveACause' /\ GivenUpWhenExhausted'
  <2>1. PaidInHand' = PaidInHand
    BY <1>1 DEF PaidInHand
  <2> QED
    BY <1>1, <2>1, PriceStays DEF ExtraRowsHaveACause
<1>11. RowsCounted'
  <2> SUFFICES ASSUME NEW p \in Partitions, NEW i \in DOMAIN log'[p], i > position[p],
                      ~(job # None /\ job.event = log'[p][i] /\ job.pc = "summary")
               PROVE  rows[log'[p][i]] <= faults + crashes
    BY <1>1 DEF RowsCounted, InHand
  <2>1. CASE i \in DOMAIN log[p]
    BY <2>1, <1>4 DEF RowsCounted, InHand
  <2>2. CASE log'[p][i] = e
    BY <2>2, <1>5, CounterType
  <2> QED
    BY <2>1, <2>2, <1>3, <1>4
<1>12. NothingSkipped'
  BY <1>1, <1>4 DEF NothingSkipped, Accounted
<1>13. OrderKept'
  <2> SUFFICES ASSUME NEW p \in Partitions, NEW i \in DOMAIN log'[p], NEW j \in DOMAIN log'[p],
                      i < j, rows[log'[p][j]] > 0 \/ log'[p][j] \in dlq
               PROVE  Accounted(log'[p][i])
    BY <1>1 DEF OrderKept, Accounted
  <2>1. j \in DOMAIN log[p]
    BY <1>3, <1>4, <1>5
  <2>2. i \in DOMAIN log[p]
    BY <2>1, <1>3, <1>4
  <2> QED
    BY <2>1, <2>2, <1>4 DEF OrderKept
<1> QED
  BY <1>6, <1>8, <1>9, <1>10, <1>11, <1>12, <1>13

(* Fetch takes the next message in hand.                                   *)
LEMMA FetchInv ==
  ASSUME IInv, NEW p \in Partitions, Fetch(p)
  PROVE  IInv'
<1> USE DEF IInv, topic, tables
<1> DEFINE E == log[p][position[p] + 1]
<1>1. /\ job = None /\ position[p] < Len(log[p])
      /\ job' = [part |-> p, event |-> E, attempt |-> 1, pc |-> FirstStage(E)]
      /\ maxRetries' = maxRetries /\ log' = log /\ committed' = committed
      /\ position' = position /\ rows' = rows /\ dlq' = dlq /\ dropped' = dropped
      /\ faults' = faults /\ crashes' = crashes
  BY DEF Fetch
<1>2. E \in Events
  BY <1>1, LogType
<1>3. /\ FirstStage(E) \in Stages \ {"summary"}
      /\ FirstStage(E) = "dlq" => E \in Malformed
  BY DEF FirstStage, Stages
<1> HIDE DEF E
<1>4. job' \in Jobs /\ job' # None
  BY <1>1, <1>2, <1>3, NoneAssumption DEF Jobs
<1>5. TypeOK'
  BY <1>1, <1>4 DEF TypeOK
<1>6. LogIsSound' /\ NothingSkipped' /\ OrderKept' /\ ExtraRowsHaveACause'
  BY <1>1 DEF LogIsSound, Published, NothingSkipped, OrderKept, Accounted, ExtraRowsHaveACause
<1>7. JobIsNext'
  BY <1>1, <1>3 DEF JobIsNext, E
<1>8. FailuresCounted' /\ GivenUpWhenExhausted'
  <2>1. PaidInHand' = 0
    BY <1>1, <1>3, <1>4 DEF PaidInHand
  <2> QED
    BY <1>1, <2>1, PriceStays
<1>9. RowsCounted'
  BY <1>1, <1>3 DEF RowsCounted, InHand
<1> QED
  BY <1>5, <1>6, <1>7, <1>8, <1>9

(* The commit moves nothing but the committed offset.                      *)
LEMMA CommitOffsetInv ==
  ASSUME IInv, NEW p \in Partitions, CommitOffset(p)
  PROVE  IInv'
<1>1. /\ committed' = [committed EXCEPT ![p] = position[p]]
      /\ maxRetries' = maxRetries /\ log' = log /\ position' = position /\ job' = job
      /\ rows' = rows /\ dlq' = dlq /\ dropped' = dropped
      /\ faults' = faults /\ crashes' = crashes
  BY DEF CommitOffset, tables
<1>2. TypeOK'
  BY <1>1 DEF IInv, TypeOK
<1>3. FailuresCounted' /\ GivenUpWhenExhausted'
  BY <1>1, PriceStays DEF IInv, PaidInHand
<1> QED
  BY <1>1, <1>2, <1>3 DEF IInv, LogIsSound, Published, JobIsNext, RowsCounted, InHand,
                          NothingSkipped, OrderKept, Accounted, ExtraRowsHaveACause

(* After a crash the events behind the committed offset are still          *)
(* accounted for, and those ahead of it may be handled once more: that is  *)
(* one crash for at most one row of each.                                  *)
LEMMA CrashInv ==
  ASSUME IInv, Crash
  PROVE  IInv'
<1>1. /\ position' = committed /\ job' = None /\ crashes' = crashes + 1 /\ crashes < MaxCrashes
      /\ maxRetries' = maxRetries /\ log' = log /\ committed' = committed
      /\ rows' = rows /\ dlq' = dlq /\ dropped' = dropped /\ faults' = faults
  BY DEF Crash, FromCommitted, tables
<1>2. /\ crashes \in Nat /\ faults \in Nat /\ MaxCrashes \in Nat
      /\ \A e \in Events : rows[e] \in Nat
  BY CounterType, AnalyticsAssumption DEF IInv
<1>3. TypeOK'
  BY <1>1, <1>2, LogType DEF IInv, TypeOK
<1>4. NothingSkipped'
  BY <1>1, LogType DEF IInv, NothingSkipped, Accounted
<1>5. RowsCounted'
  BY <1>1, <1>2, LogType DEF IInv, RowsCounted, ExtraRowsHaveACause, InHand
<1>6. ExtraRowsHaveACause'
  BY <1>1, <1>2 DEF IInv, ExtraRowsHaveACause
<1>7. FailuresCounted' /\ GivenUpWhenExhausted'
  BY <1>1, PriceStays DEF IInv, PaidInHand
<1> QED
  BY <1>1, <1>3, <1>4, <1>5, <1>6, <1>7
  DEF IInv, LogIsSound, Published, JobIsNext, OrderKept, Accounted

-----------------------------------------------------------------------------
(* Nothing was produced, resolved or recorded.                             *)
LEMMA InitInv ==
  ASSUME Init
  PROVE  IInv
<1>1. TypeOK
  BY AnalyticsAssumption DEF Init, TypeOK
<1>2. FailuresCounted /\ GivenUpWhenExhausted
  <2>1. /\ dlq \cup dropped = {} /\ GivenUp = {} /\ dropped = {} /\ PaidInHand = 0
        /\ faults = 0 /\ maxRetries \in Nat
    BY AnalyticsAssumption DEF Init, GivenUp, PaidInHand
  <2>2. PriceOfGivingUp = 0
    BY <2>1, FS_EmptySet DEF PriceOfGivingUp
  <2> QED
    BY <2>1, <2>2, FS_EmptySet DEF FailuresCounted, GivenUpWhenExhausted
<1> QED
  BY <1>1, <1>2, AnalyticsAssumption
  DEF Init, IInv, LogIsSound, Published, JobIsNext, RowsCounted, InHand,
      NothingSkipped, OrderKept, Accounted, ExtraRowsHaveACause

(* Every step, whoever takes it.                                           *)
LEMMA NextInv ==
  ASSUME IInv, [Next]_vars
  PROVE  IInv'
<1>1. CASE UNCHANGED vars
  <2>1. FailuresCounted' /\ GivenUpWhenExhausted'
    BY <1>1, PriceStays DEF IInv, PaidInHand, vars, tables
  <2> QED
    BY <1>1, <2>1
    DEF vars, topic, tables, IInv, TypeOK, LogIsSound, Published, JobIsNext, RowsCounted,
        InHand, NothingSkipped, OrderKept, Accounted, ExtraRowsHaveACause
<1>2. CASE Next
  BY <1>1, <1>2, ProduceInv, FetchInv, CommitOffsetInv, HandlingInv, CrashInv DEF Next, CaughtUp
<1> QED
  BY <1>1, <1>2

(* The inductive invariant of the consumer.                                *)
THEOREM Invariant == Spec => []IInv
  BY InitInv, NextInv, PTL DEF Spec

(* The variables keep their types, and no offset overtakes the one it is   *)
(* a copy of: committed <= position <= Len(log).                           *)
THEOREM TypeCorrect == Spec => []TypeOK
  BY Invariant, PTL DEF IInv

(* What the group has moved past is in order_metrics, in the DLQ, of an    *)
(* unknown type, or was lost with the log line of sendToDlq                *)
(* (consumer.js:58-95), whatever crashes and fails in between.             *)
THEOREM NoEventSkipped == Spec => []NothingSkipped
  BY Invariant, PTL DEF IInv

(* The events of a partition take effect in the order of its log.          *)
THEOREM EffectsInOrder == Spec => []OrderKept
  BY Invariant, PTL DEF IInv

(* Each row of an event beyond its first costs a failed query or a         *)
(* redelivery.                                                             *)
THEOREM RowsHaveACause == Spec => []ExtraRowsHaveACause
  BY Invariant, PTL DEF IInv

(* An event that can be handled is given up only after as many faults as   *)
(* there are attempts, and lost only with one more, for each such event.   *)
THEOREM GivingUpHasItsPrice == Spec => []GivenUpWhenExhausted
  BY Invariant, PTL DEF IInv
=============================================================================
