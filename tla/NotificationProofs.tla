---------------------------- MODULE NotificationProofs ----------------------------
(***************************************************************************)
(* Proofs about NotificationConsumer for all notifications, retry limits,  *)
(* prefetch counts and lost channels: no message is lost, none is given up *)
(* or retried without the failures that call for it.                       *)
(***************************************************************************)
EXTENDS NotificationConsumer, SequenceTheorems, FiniteSetTheorems, TLAPS

-----------------------------------------------------------------------------
(* What the queue operations do to the set of a queue's copies.            *)
LEMMA AppendSet ==
  ASSUME NEW S, NEW s \in Seq(S), NEW x \in S
  PROVE  /\ Append(s, x) \in Seq(S) /\ Append(s, x) # <<>>
         /\ Len(Append(s, x)) = Len(s) + 1 /\ Len(s) \in Nat
         /\ DOMAIN s = 1 .. Len(s) /\ DOMAIN Append(s, x) = 1 .. Len(s) + 1
         /\ \A k \in 1 .. Len(s) : Append(s, x)[k] = s[k]
         /\ Append(s, x)[Len(s) + 1] = x
         /\ ToSet(Append(s, x)) = ToSet(s) \cup {x}
<1>1. /\ Append(s, x) \in Seq(S) /\ Append(s, x) # <<>>
      /\ Len(Append(s, x)) = Len(s) + 1 /\ Len(s) \in Nat
      /\ DOMAIN s = 1 .. Len(s) /\ DOMAIN Append(s, x) = 1 .. Len(s) + 1
      /\ \A k \in 1 .. Len(s) : Append(s, x)[k] = s[k]
      /\ Append(s, x)[Len(s) + 1] = x
  OBVIOUS
<1>2. ToSet(Append(s, x)) = ToSet(s) \cup {x}
  <2> DEFINE a == Append(s, x)
  <2> HIDE DEF a
  <2>1. \A y \in ToSet(a) : y \in ToSet(s) \cup {x}
    BY <1>1 DEF ToSet, a
  <2>2. \A y \in ToSet(s) \cup {x} : y \in ToSet(a)
    BY <1>1 DEF ToSet, a
  <2> QED
    BY <2>1, <2>2 DEF a
<1> QED
  BY <1>1, <1>2

(* The head is gone, the others move up by one.                            *)
LEMMA TailSet ==
  ASSUME NEW S, NEW s \in Seq(S), s # <<>>
  PROVE  /\ Head(s) \in S /\ Tail(s) \in Seq(S) /\ Head(s) = s[1]
         /\ Len(Tail(s)) = Len(s) - 1 /\ Len(s) \in Nat /\ Len(s) > 0
         /\ DOMAIN s = 1 .. Len(s) /\ DOMAIN Tail(s) = 1 .. Len(s) - 1
         /\ \A k \in 1 .. Len(s) - 1 : Tail(s)[k] = s[k + 1]
         /\ ToSet(s) = {Head(s)} \cup ToSet(Tail(s))
<1>1. /\ Head(s) \in S /\ Tail(s) \in Seq(S) /\ Head(s) = s[1]
      /\ Len(Tail(s)) = Len(s) - 1 /\ Len(s) \in Nat /\ Len(s) > 0
      /\ DOMAIN s = 1 .. Len(s) /\ DOMAIN Tail(s) = 1 .. Len(s) - 1
      /\ \A k \in 1 .. Len(s) - 1 : Tail(s)[k] = s[k + 1]
  BY EmptySeq
<1>2. ToSet(s) = {Head(s)} \cup ToSet(Tail(s))
  <2> DEFINE a == Tail(s)
  <2> HIDE DEF a
  <2>1. \A y \in ToSet(s) : y \in {Head(s)} \cup ToSet(a)
    <3> SUFFICES ASSUME NEW k \in 1 .. Len(s), s[k] # Head(s)
                 PROVE  s[k] \in ToSet(a)
      BY <1>1 DEF ToSet
    <3>1. k - 1 \in DOMAIN a /\ a[k - 1] = s[k]
      BY <1>1 DEF a
    <3> QED
      BY <3>1 DEF ToSet
  <2>2. \A y \in {Head(s)} \cup ToSet(a) : y \in ToSet(s)
    BY <1>1 DEF ToSet, a
  <2> QED
    BY <2>1, <2>2 DEF a
<1> QED
  BY <1>1, <1>2

(* Deliveries that are taken back come before the queue.                   *)
LEMMA ConcatSet ==
  ASSUME NEW S, NEW s \in Seq(S), NEW r \in Seq(S)
  PROVE  s \o r \in Seq(S) /\ ToSet(s \o r) = ToSet(s) \cup ToSet(r)
<1>1. /\ s \o r \in Seq(S) /\ Len(s) \in Nat /\ Len(r) \in Nat
      /\ DOMAIN s = 1 .. Len(s) /\ DOMAIN r = 1 .. Len(r) /\ DOMAIN (s \o r) = 1 .. Len(s) + Len(r)
      /\ \A k \in 1 .. Len(s) + Len(r) : (s \o r)[k] = IF k <= Len(s) THEN s[k] ELSE r[k - Len(s)]
  OBVIOUS
<1> DEFINE a == s \o r
<1> HIDE DEF a
<1>2. \A y \in ToSet(a) : y \in ToSet(s) \cup ToSet(r)
  <2> SUFFICES ASSUME NEW k \in 1 .. Len(s) + Len(r)
               PROVE  a[k] \in ToSet(s) \cup ToSet(r)
    BY <1>1 DEF ToSet, a
  <2>1. k \in 1 .. Len(s) \/ k - Len(s) \in 1 .. Len(r)
    BY <1>1
  <2> QED
    BY <1>1, <2>1 DEF ToSet, a
<1>3. \A y \in ToSet(s) : y \in ToSet(a)
  BY <1>1 DEF ToSet, a
<1>4. \A y \in ToSet(r) : y \in ToSet(a)
  <2> SUFFICES ASSUME NEW k \in 1 .. Len(r) PROVE r[k] \in ToSet(a)
    BY <1>1 DEF ToSet
  <2>1. k + Len(s) \in DOMAIN a /\ a[k + Len(s)] = r[k]
    BY <1>1 DEF a
  <2> QED
    BY <2>1 DEF ToSet
<1> QED
  BY <1>1, <1>2, <1>3, <1>4 DEF a

(* A queue holds members of its type only.                                 *)
LEMMA ElementsOf ==
  ASSUME NEW S, NEW s \in Seq(S)
  PROVE  ToSet(s) \subseteq S
BY DEF ToSet

(* The two frames of a retry. *)
LEMMA ScheduleSet ==
  ASSUME NEW s \in Seq(Frames), NEW a \in Frames, NEW b \in Frames
  PROVE  /\ s \o <<a, b>> \in Seq(Frames) /\ Len(s) \in Nat
         /\ DOMAIN s = 1 .. Len(s) /\ DOMAIN (s \o <<a, b>>) = 1 .. Len(s) + 2
         /\ \A k \in 1 .. Len(s) : (s \o <<a, b>>)[k] = s[k]
         /\ (s \o <<a, b>>)[Len(s) + 1] = a /\ (s \o <<a, b>>)[Len(s) + 2] = b
<1>1. <<a, b>> \in Seq(Frames) /\ Len(<<a, b>>) = 2 /\ <<a, b>>[1] = a /\ <<a, b>>[2] = b
  OBVIOUS
<1> DEFINE r == <<a, b>>
<1> HIDE DEF r
<1>2. /\ s \o r \in Seq(Frames) /\ Len(s) \in Nat
      /\ DOMAIN s = 1 .. Len(s) /\ DOMAIN (s \o r) = 1 .. Len(s) + Len(r)
      /\ \A k \in 1 .. Len(s) + Len(r) : (s \o r)[k] = IF k <= Len(s) THEN s[k] ELSE r[k - Len(s)]
  BY <1>1 DEF r
<1>3. Len(r) = 2 /\ r[1] = a /\ r[2] = b
  BY <1>1 DEF r
<1>4. (s \o r)[Len(s) + 1] = a /\ (s \o r)[Len(s) + 2] = b
  BY <1>2, <1>3
<1>5. \A k \in 1 .. Len(s) : (s \o r)[k] = s[k]
  BY <1>2, <1>3
<1>6. DOMAIN (s \o r) = 1 .. Len(s) + 2
  BY <1>2, <1>3
<1> QED
  BY <1>2, <1>4, <1>5, <1>6 DEF r

-----------------------------------------------------------------------------
(* What is on the wire. *)
LEMMA FrameType ==
  ASSUME TypeOK, NEW k \in DOMAIN wire
  PROVE  /\ wire[k].op \in {"publish", "ack", "nack"}
         /\ wire[k].op = "publish" => wire[k].copy \in Copies
         /\ wire[k].op # "publish" => wire[k].tag \in Tags
<1>1. wire[k] \in Frames
  BY DEF TypeOK
<1> QED
  BY <1>1 DEF Frames

(* The frames the consumer sends. *)
LEMMA SentFrames ==
  ASSUME NEW t \in Tags
  PROVE  /\ Ack(t) \in Frames /\ Ack(t).op = "ack" /\ Ack(t).tag = t
         /\ Nack(t) \in Frames /\ Nack(t).op = "nack" /\ Nack(t).tag = t
         /\ \A copy \in Copies :
              Send(copy) \in Frames /\ Send(copy).op = "publish" /\ Send(copy).copy = copy
BY DEF Ack, Nack, Send, Frames

(* The delivery a handler works on. *)
LEMMA WorkType ==
  ASSUME TypeOK, AnswersMatch, NEW t \in working
  PROVE  /\ t \in Tags /\ delivered[t] \in Copies
         /\ delivered[t].id \in Ids /\ delivered[t].deaths \in 0 .. MaxRetries
         /\ failures[delivered[t].id] \in 0 .. FailuresCap
<1>1. t \in Tags /\ delivered[t] \in Copies
  BY DEF TypeOK, AnswersMatch
<1> QED
  BY <1>1 DEF Copies, TypeOK

(* Every copy is one. *)
LEMMA HeldType ==
  ASSUME TypeOK
  PROVE  /\ CopiesHeld \subseteq Copies /\ Waiting \subseteq Copies
         /\ \A copy \in Copies :
              copy.id \in Ids /\ copy.deaths \in 0 .. MaxRetries /\ copy.deaths \in Nat
<1>1. ToSet(main) \subseteq Copies /\ ToSet(retry) \subseteq Copies
  BY ElementsOf DEF TypeOK
<1>2. {wire[k].copy : k \in {j \in DOMAIN wire : wire[j].op = "publish"}} \subseteq Copies
  BY FrameType
<1>3. CopiesHeld \subseteq Copies
  BY <1>1 DEF CopiesHeld, TypeOK
<1>4. \A copy \in Copies :
        copy.id \in Ids /\ copy.deaths \in 0 .. MaxRetries /\ copy.deaths \in Nat
  BY NotificationAssumption DEF Copies
<1> QED
  BY <1>1, <1>2, <1>3, <1>4 DEF Waiting

(* The deliveries that are taken back are those without an answer.         *)
LEMMA TakenBack ==
  ASSUME TypeOK, NEW o \in Orders
  PROVE  /\ Unanswered(o) \in Seq(Copies)
         /\ ToSet(Unanswered(o)) = {delivered[t] : t \in Held}
<1>1. Cardinality(Held) \in Nat
  <2>1. IsFiniteSet(Tags)
    BY FS_Interval, NotificationAssumption DEF Tags
  <2>2. IsFiniteSet(Held)
    BY <2>1, FS_Subset DEF Held
  <2> QED
    BY <2>2, FS_CardinalityType
<1> DEFINE n == Cardinality(Held)
           u == Unanswered(o)
<1>2. o \in [1 .. n -> Held] /\ ToSet(o) = Held /\ DOMAIN o = 1 .. n
  BY DEF Orders
<1>3. \A t \in Held : delivered[t] \in Copies
  BY DEF Held, TypeOK
<1> HIDE DEF n
<1>4. u = [k \in 1 .. n |-> delivered[o[k]]]
  BY <1>2 DEF Unanswered
<1> HIDE DEF u
<1>5. u \in [1 .. n -> Copies]
  BY <1>2, <1>3, <1>4
<1>6. u \in Seq(Copies)
  BY <1>1, <1>5, SeqDef DEF n
<1>7. DOMAIN u = 1 .. n /\ \A k \in 1 .. n : u[k] = delivered[o[k]]
  BY <1>4
<1>8. ToSet(u) = {delivered[t] : t \in Held}
  <2>1. \A k \in 1 .. n : o[k] \in Held
    BY <1>2
  <2>2. \A t \in Held : \E k \in 1 .. n : o[k] = t
    BY <1>2 DEF ToSet
  <2> QED
    BY <1>7, <2>1, <2>2 DEF ToSet
<1> QED
  BY <1>6, <1>8 DEF u

-----------------------------------------------------------------------------
(* A notification is published: its copy has no deaths.                    *)
LEMMA PublishInv ==
  ASSUME IInv, NEW i \in Ids, Publish(i)
  PROVE  IInv'
<1> USE DEF IInv
<1> DEFINE c == [id |-> i, deaths |-> 0]
<1>1. /\ published' = published \cup {i} /\ main' = Append(main, c)
      /\ UNCHANGED <<retry, dlq, delivered, working, wire, consumer, emailed, failures, losses>>
  BY DEF Publish, channel
<1>2. c \in Copies /\ c.id = i /\ c.deaths = 0
  BY NotificationAssumption DEF Copies
<1> HIDE DEF c
<1>3. main' \in Seq(Copies) /\ ToSet(main') = ToSet(main) \cup {c}
  BY <1>1, <1>2, AppendSet DEF TypeOK
<1>4. TypeOK'
  BY <1>1, <1>3 DEF TypeOK
<1>8. OnlyPublished'
  BY <1>1, <1>2, <1>3 DEF OnlyPublished, CopiesHeld
<1>5. AnswersMatch' /\ TriesAreCounted' /\ DlqMeansExhausted'
  BY <1>1 DEF AnswersMatch, TriesAreCounted, Waiting, DlqMeansExhausted
<1>6. NobodyForgotten'
  BY <1>1, <1>2, <1>3 DEF NobodyForgotten, InMain, InRetry, InDlq, InWork, Republished, Rejected
<1>7. RetriesAreCounted'
  <2>1. failures[i] >= 0 /\ MaxRetries >= 0
    BY NotificationAssumption DEF TypeOK, FailuresCap
  <2> QED
    BY <1>1, <1>2, <1>3, <2>1 DEF RetriesAreCounted, CopiesHeld
<1> QED
  BY <1>4, <1>5, <1>6, <1>7, <1>8

(* A delivery takes a copy out of the queue into a handler's hands.        *)
LEMMA DeliverInv ==
  ASSUME IInv, NEW t \in Tags, Deliver(t)
  PROVE  IInv'
<1> USE DEF IInv
<1>1. /\ main # <<>> /\ delivered[t] = None
      /\ delivered' = [delivered EXCEPT ![t] = Head(main)]
      /\ working' = working \cup {t} /\ main' = Tail(main)
      /\ UNCHANGED <<retry, dlq, wire, consumer, published, emailed, failures, losses>>
  BY DEF Deliver
<1>2. /\ Head(main) \in Copies /\ Head(main) # None /\ main' \in Seq(Copies)
      /\ ToSet(main) = {Head(main)} \cup ToSet(main')
  BY <1>1, TailSet, NoneAssumption DEF TypeOK
<1>3. delivered'[t] = Head(main) /\ \A u \in Tags \ {t} : delivered'[u] = delivered[u]
  BY <1>1 DEF TypeOK
<1>4. t \notin working /\ \A u \in working : u \in Tags /\ u # t
  BY <1>1 DEF AnswersMatch, TypeOK
<1>5. \A k \in DOMAIN wire : wire[k].op # "publish" => wire[k].tag \in Tags \ {t}
  BY <1>1, FrameType DEF AnswersMatch
<1>6. TypeOK'
  BY <1>1, <1>2 DEF TypeOK
<1>7. AnswersMatch'
  <2>1. \A u \in working' : delivered'[u] # None
    BY <1>1, <1>2, <1>3, <1>4 DEF AnswersMatch
  <2>2. \A k \in DOMAIN wire : wire[k].op # "publish" =>
          /\ wire[k].tag \notin working' /\ delivered'[wire[k].tag] # None
          /\ delivered'[wire[k].tag] = delivered[wire[k].tag]
    BY <1>1, <1>3, <1>5 DEF AnswersMatch
  <2> QED
    BY <1>1, <2>1, <2>2 DEF AnswersMatch
<1>8. NobodyForgotten'
  <2> SUFFICES ASSUME NEW i \in published
               PROVE  \/ i \in emailed \/ InMain(i)' \/ InRetry(i)' \/ InDlq(i)' \/ InWork(i)'
                      \/ Republished(i)' \/ Rejected(i)'
    BY <1>1 DEF NobodyForgotten
  <2>1. InMain(i) => InMain(i)' \/ InWork(i)'
    BY <1>1, <1>2, <1>3 DEF InMain, InWork
  <2>2. InWork(i) => InWork(i)'
    BY <1>1, <1>3, <1>4 DEF InWork
  <2>3. Rejected(i) => Rejected(i)'
    BY <1>1, <1>3, <1>5 DEF Rejected
  <2> QED
    BY <1>1, <2>1, <2>2, <2>3 DEF NobodyForgotten, InRetry, InDlq, Republished
<1>9. TriesAreCounted'
  BY <1>1, <1>3, <1>5 DEF TriesAreCounted, Waiting
<1>10. RetriesAreCounted' /\ OnlyPublished'
  <2>1. CopiesHeld' \subseteq CopiesHeld
    BY <1>1, <1>2, <1>3 DEF CopiesHeld
  <2> QED
    BY <1>1, <2>1 DEF RetriesAreCounted, OnlyPublished
<1>11. DlqMeansExhausted'
  BY <1>1 DEF DlqMeansExhausted
<1> QED
  BY <1>6, <1>7, <1>8, <1>9, <1>10, <1>11

(* handler.process resolved: the email is out before the ack is sent.      *)
LEMMA ProcessSucceedsInv ==
  ASSUME IInv, NEW t \in Tags, ProcessSucceeds(t)
  PROVE  IInv'
<1> USE DEF IInv
<1> DEFINE L == Len(wire)
<1>1. /\ t \in working
      /\ emailed' = emailed \cup {delivered[t].id}
      /\ wire' = Append(wire, Ack(t)) /\ working' = working \ {t}
      /\ UNCHANGED <<main, retry, dlq, delivered, consumer, published, failures, losses>>
  BY DEF ProcessSucceeds, queues
<1>2. /\ wire' \in Seq(Frames) /\ L \in Nat /\ DOMAIN wire = 1 .. L /\ DOMAIN wire' = 1 .. L + 1
      /\ \A k \in 1 .. L : wire'[k] = wire[k]
      /\ wire'[L + 1].op = "ack" /\ wire'[L + 1].tag = t
  BY <1>1, AppendSet, SentFrames DEF TypeOK
<1> HIDE DEF L
<1>3. delivered[t] \in Copies /\ delivered[t] # None
  BY <1>1, WorkType DEF AnswersMatch
<1>4. \A k \in DOMAIN wire : wire[k].op # "publish" => wire[k].tag # t
  BY <1>1 DEF AnswersMatch
<1>5. TypeOK'
  <2>1. delivered[t].id \in published
    BY <1>1, <1>3, WorkType DEF OnlyPublished, CopiesHeld
  <2> QED
    BY <1>1, <1>2, <2>1 DEF TypeOK
<1>6. AnswersMatch'
  BY <1>1, <1>2, <1>3, <1>4 DEF AnswersMatch
<1>7. NobodyForgotten'
  <2> SUFFICES ASSUME NEW i \in published
               PROVE  \/ i \in emailed' \/ InMain(i)' \/ InRetry(i)' \/ InDlq(i)' \/ InWork(i)'
                      \/ Republished(i)' \/ Rejected(i)'
    BY <1>1 DEF NobodyForgotten
  <2>1. InWork(i) => InWork(i)' \/ i \in emailed'
    BY <1>1 DEF InWork
  <2>2. (Republished(i) => Republished(i)') /\ (Rejected(i) => Rejected(i)')
    BY <1>1, <1>2 DEF Republished, Rejected
  <2> QED
    BY <1>1, <2>1, <2>2 DEF NobodyForgotten, InMain, InRetry, InDlq
<1>8. TriesAreCounted'
  BY <1>1, <1>2 DEF TriesAreCounted, Waiting
<1>9. RetriesAreCounted' /\ OnlyPublished' /\ DlqMeansExhausted'
  BY <1>1 DEF RetriesAreCounted, OnlyPublished, CopiesHeld, DlqMeansExhausted
<1> QED
  BY <1>5, <1>6, <1>7, <1>8, <1>9

(* handler.process threw: the failure is counted, and the message either   *)
(* rejected or published again, right before the ack of its delivery.      *)
LEMMA ProcessFailsInv ==
  ASSUME IInv, NEW t \in Tags, ProcessFails(t)
  PROVE  IInv'
<1> USE DEF IInv
<1> DEFINE L == Len(wire)
           c == delivered[t]
<1>1. /\ t \in working /\ working' = working \ {t}
      /\ failures' = [failures EXCEPT ![c.id] = IF @ < FailuresCap THEN @ + 1 ELSE @]
      /\ \/ c.deaths >= MaxRetries /\ wire' = Append(wire, Nack(t))
         \/ ~(c.deaths >= MaxRetries) /\ wire' = wire \o <<Send(c), Ack(t)>>
      /\ UNCHANGED <<main, retry, dlq, delivered, consumer, published, emailed, losses>>
  BY DEF ProcessFails, queues, Exhausted, ScheduleRetry
<1>2. /\ c \in Copies /\ c # None /\ c.id \in Ids /\ c.deaths \in 0 .. MaxRetries
      /\ failures[c.id] \in 0 .. FailuresCap
  BY <1>1, WorkType DEF AnswersMatch
<1>3. /\ L \in Nat /\ DOMAIN wire = 1 .. L /\ wire' \in Seq(Frames)
      /\ \A k \in 1 .. L : wire'[k] = wire[k]
      /\ \/ /\ c.deaths = MaxRetries /\ DOMAIN wire' = 1 .. L + 1
            /\ wire'[L + 1].op = "nack" /\ wire'[L + 1].tag = t
         \/ /\ c.deaths < MaxRetries /\ DOMAIN wire' = 1 .. L + 2
            /\ wire'[L + 1].op = "publish" /\ wire'[L + 1].copy = c
            /\ wire'[L + 2].op = "ack" /\ wire'[L + 2].tag = t
  <2>1. CASE c.deaths >= MaxRetries /\ wire' = Append(wire, Nack(t))
    BY <2>1, <1>2, AppendSet, SentFrames, NotificationAssumption DEF TypeOK
  <2>2. CASE ~(c.deaths >= MaxRetries) /\ wire' = wire \o <<Send(c), Ack(t)>>
    <3> DEFINE a == Send(c)
               b == Ack(t)
    <3>1. a \in Frames /\ a.op = "publish" /\ a.copy = c
      BY <1>2, SentFrames
    <3>2. b \in Frames /\ b.op = "ack" /\ b.tag = t
      BY SentFrames
    <3>3. c.deaths < MaxRetries
      BY <2>2, <1>2, NotificationAssumption
    <3>4. wire \in Seq(Frames) /\ wire' = wire \o <<a, b>>
      BY <2>2 DEF TypeOK
    <3> HIDE DEF a, b
    <3> QED
      BY <3>1, <3>2, <3>3, <3>4, ScheduleSet
  <2> QED
    BY <1>1, <2>1, <2>2
<1> HIDE DEF L
<1>4. /\ failures' \in [Ids -> 0 .. FailuresCap]
      /\ \A i \in Ids : failures'[i] >= failures[i]
      /\ failures'[c.id] > c.deaths /\ MaxRetries \in Nat
  <2>1. FailuresCap = MaxRetries + 2 /\ MaxRetries \in Nat
    BY NotificationAssumption DEF FailuresCap
  <2>2. failures \in [Ids -> 0 .. FailuresCap]
    BY DEF TypeOK
  <2>3. failures[c.id] >= c.deaths
    BY <1>1, <1>2, WorkType DEF RetriesAreCounted, CopiesHeld
  <2>4. /\ failures'[c.id] = IF failures[c.id] < FailuresCap THEN failures[c.id] + 1 ELSE failures[c.id]
        /\ \A i \in Ids \ {c.id} : failures'[i] = failures[i]
        /\ DOMAIN failures' = Ids
    BY <1>1, <1>2, <2>2
  <2>5. failures'[c.id] \in 0 .. FailuresCap /\ failures'[c.id] >= failures[c.id]
    BY <1>2, <2>1, <2>4
  <2>6. failures'[c.id] > c.deaths
    BY <1>2, <2>1, <2>3, <2>4
  <2>7. failures' = [i \in Ids |-> failures'[i]]
    BY <1>1, <2>2
  <2>8. \A i \in Ids : failures'[i] \in 0 .. FailuresCap /\ failures'[i] >= failures[i]
    BY <2>1, <2>2, <2>4, <2>5
  <2> QED
    BY <2>1, <2>6, <2>7, <2>8
<1>5. \A k \in DOMAIN wire : wire[k].op # "publish" => wire[k].tag # t
  BY <1>1 DEF AnswersMatch
<1>12. \E n \in Nat \ DOMAIN wire : \A k \in DOMAIN wire' :
         /\ wire'[k].op # "publish" =>
              (k \in DOMAIN wire /\ wire'[k] = wire[k]) \/ (k = n /\ wire'[k].tag = t)
         /\ wire'[k].op = "publish" =>
              \/ k \in DOMAIN wire /\ wire'[k] = wire[k]
              \/ /\ wire'[k].copy = c /\ c.deaths < MaxRetries
                 /\ k + 1 \in DOMAIN wire' /\ wire'[k + 1].op = "ack" /\ wire'[k + 1].tag = t
  <2>1. CASE DOMAIN wire' = 1 .. L + 1 /\ wire'[L + 1].op = "nack" /\ wire'[L + 1].tag = t
    <3>1. \A k \in DOMAIN wire' : (k \in DOMAIN wire /\ wire'[k] = wire[k]) \/ k = L + 1
      BY <2>1, <1>3
    <3>2. L + 1 \in Nat \ DOMAIN wire
      BY <1>3
    <3> QED
      BY <2>1, <3>1, <3>2
  <2>2. CASE /\ c.deaths < MaxRetries /\ DOMAIN wire' = 1 .. L + 2
             /\ wire'[L + 1].op = "publish" /\ wire'[L + 1].copy = c
             /\ wire'[L + 2].op = "ack" /\ wire'[L + 2].tag = t
    <3>1. \A k \in DOMAIN wire' : (k \in DOMAIN wire /\ wire'[k] = wire[k]) \/ k = L + 1 \/ k = L + 2
      BY <2>2, <1>3
    <3>2. /\ L + 2 \in Nat \ DOMAIN wire /\ (L + 1) + 1 = L + 2 /\ L + 2 \in DOMAIN wire'
          /\ L + 1 # L + 2
      BY <2>2, <1>3
    <3> QED
      BY <2>2, <3>1, <3>2
  <2> QED
    BY <1>3, <2>1, <2>2
<1>6. TypeOK'
  BY <1>1, <1>3, <1>4 DEF TypeOK
<1>7. AnswersMatch'
  <2>1. \A u \in working' : delivered'[u] # None
    BY <1>1 DEF AnswersMatch
  <2>2. \A k \in DOMAIN wire' : wire'[k].op # "publish" =>
          /\ wire'[k].tag \notin working' /\ delivered'[wire'[k].tag] # None
          /\ \A j \in DOMAIN wire' : wire'[j].op # "publish" /\ wire'[j].tag = wire'[k].tag => j = k
    BY <1>1, <1>2, <1>5, <1>12 DEF AnswersMatch
  <2>3. \A k \in DOMAIN wire' : wire'[k].op = "publish" =>
          /\ k + 1 \in DOMAIN wire' /\ wire'[k + 1].op = "ack"
          /\ delivered'[wire'[k + 1].tag] = wire'[k].copy
    <3> SUFFICES ASSUME NEW k \in DOMAIN wire', wire'[k].op = "publish"
                 PROVE  /\ k + 1 \in DOMAIN wire' /\ wire'[k + 1].op = "ack"
                        /\ delivered[wire'[k + 1].tag] = wire'[k].copy
      BY <1>1
    <3>1. CASE k \in DOMAIN wire /\ wire'[k] = wire[k]
      <4>1. k + 1 \in DOMAIN wire /\ wire[k + 1].op = "ack" /\ delivered[wire[k + 1].tag] = wire[k].copy
        BY <3>1 DEF AnswersMatch
      <4>2. k + 1 \in DOMAIN wire' /\ wire'[k + 1] = wire[k + 1]
        BY <4>1, <1>3
      <4> QED
        BY <3>1, <4>1, <4>2
    <3> QED
      BY <3>1, <1>12
  <2> QED
    BY <2>1, <2>2, <2>3 DEF AnswersMatch
<1>8. NobodyForgotten'
  <2> SUFFICES ASSUME NEW i \in published
               PROVE  \/ i \in emailed \/ InMain(i)' \/ InRetry(i)' \/ InDlq(i)' \/ InWork(i)'
                      \/ Republished(i)' \/ Rejected(i)'
    BY <1>1 DEF NobodyForgotten
  <2>1. InWork(i) => InWork(i)' \/ i = c.id
    BY <1>1 DEF InWork
  <2>2. i = c.id => Republished(i)' \/ Rejected(i)'
    BY <1>1, <1>3 DEF Republished, Rejected
  <2>3. (Republished(i) => Republished(i)') /\ (Rejected(i) => Rejected(i)')
    BY <1>1, <1>3 DEF Republished, Rejected
  <2> QED
    BY <1>1, <2>1, <2>2, <2>3 DEF NobodyForgotten, InMain, InRetry, InDlq
<1>9. \A copy \in CopiesHeld : copy.id \in Ids /\ copy.deaths \in Nat
  BY HeldType
<1>10. TriesAreCounted'
  <2>1. Waiting' \subseteq Waiting \cup {c} /\ (c \in Waiting' => c \in Waiting \/ c.deaths < MaxRetries)
    <3> SUFFICES ASSUME NEW x \in Waiting' PROVE x \in Waiting \/ (x = c /\ c.deaths < MaxRetries)
      OBVIOUS
    <3>1. CASE x \in ToSet(retry)
      BY <3>1 DEF Waiting
    <3>2. CASE x \notin ToSet(retry)
      <4>1. PICK k \in DOMAIN wire' : wire'[k].op = "publish" /\ x = wire'[k].copy
        BY <3>2, <1>1 DEF Waiting
      <4> QED
        BY <4>1, <1>12 DEF Waiting
    <3> QED
      BY <3>1, <3>2
  <2>2. \A copy \in Waiting : copy.id \in Ids /\ copy.deaths \in Nat
    BY HeldType
  <2>3. \A copy \in Waiting' : copy.deaths < failures'[copy.id] /\ copy.deaths < MaxRetries
    BY <1>2, <1>4, <2>1, <2>2 DEF TriesAreCounted, TypeOK
  <2>4. ASSUME NEW k \in DOMAIN wire', wire'[k].op = "nack"
        PROVE  failures'[delivered'[wire'[k].tag].id] > MaxRetries
    <3>1. CASE k \in DOMAIN wire
      <4>1. wire[k].op = "nack" /\ failures[delivered[wire[k].tag].id] > MaxRetries
        BY <2>4, <3>1, <1>3 DEF TriesAreCounted
      <4>2. delivered[wire[k].tag].id \in Ids
        BY <3>1, <4>1, FrameType DEF TypeOK, AnswersMatch, Copies
      <4> QED
        <5> DEFINE i == delivered[wire[k].tag].id
        <5>1. failures'[i] \in 0 .. FailuresCap /\ failures'[i] >= failures[i]
          BY <4>2, <1>4
        <5>2. failures[i] \in 0 .. FailuresCap /\ FailuresCap \in Nat
          BY <4>2, NotificationAssumption DEF TypeOK, FailuresCap
        <5>3. wire'[k] = wire[k] /\ delivered' = delivered
          BY <3>1, <1>1, <1>3
        <5>4. failures'[i] > MaxRetries
          BY <4>1, <5>1, <5>2, NotificationAssumption
        <5> QED
          BY <5>3, <5>4
    <3>2. CASE k \notin DOMAIN wire
      <4>1. c.deaths = MaxRetries /\ k = L + 1 /\ wire'[k].tag = t
        BY <2>4, <3>2, <1>3
      <4>2. delivered'[t] = c
        BY <1>1
      <4>3. failures'[c.id] > MaxRetries
        BY <4>1, <1>4
      <4> QED
        BY <4>1, <4>2, <4>3
    <3> QED
      BY <3>1, <3>2
  <2> QED
    BY <2>3, <2>4 DEF TriesAreCounted
<1>11. RetriesAreCounted' /\ OnlyPublished' /\ DlqMeansExhausted'
  <2>1. CopiesHeld' = CopiesHeld /\ dlq \subseteq CopiesHeld
    BY <1>1 DEF CopiesHeld
  <2>2. \A copy \in CopiesHeld : copy.deaths <= failures'[copy.id] /\ copy.deaths <= MaxRetries
    BY <1>4, <1>9 DEF RetriesAreCounted, TypeOK
  <2>3. \A copy \in dlq : failures'[copy.id] > MaxRetries
    BY <1>4, <1>9, <2>1 DEF DlqMeansExhausted, TypeOK
  <2> QED
    BY <1>1, <2>1, <2>2, <2>3 DEF RetriesAreCounted, OnlyPublished, DlqMeansExhausted
<1> QED
  BY <1>6, <1>7, <1>8, <1>10, <1>11

-----------------------------------------------------------------------------
(* The broker reads the first frame; the others keep their order.          *)
LEMMA WireTail ==
  ASSUME TypeOK, wire # <<>>, wire' = Tail(wire)
  PROVE  /\ wire' \in Seq(Frames) /\ 1 \in DOMAIN wire /\ Head(wire) = wire[1]
         /\ DOMAIN wire = 1 .. Len(wire) /\ Len(wire) \in Nat
         /\ \A k \in DOMAIN wire' : k \in Nat \ {0} /\ k + 1 \in DOMAIN wire /\ wire'[k] = wire[k + 1]
         /\ \A k \in DOMAIN wire \ {1} : k - 1 \in DOMAIN wire' /\ wire'[k - 1] = wire[k]
  BY TailSet DEF TypeOK

(* The published copy is in the retry queue before its original is gone.   *)
LEMMA ReadPublishInv ==
  ASSUME IInv, ReadPublish
  PROVE  IInv'
<1> USE DEF IInv
<1> DEFINE c == wire[1].copy
<1>1. /\ wire # <<>> /\ wire' = Tail(wire) /\ 1 \in DOMAIN wire /\ wire[1].op = "publish"
      /\ retry' = Append(retry, c)
      /\ UNCHANGED <<main, dlq, delivered, working, consumer, published, emailed, failures, losses>>
  BY WireTail DEF ReadPublish
<1>2. c \in Copies
  BY <1>1, FrameType
<1>3. /\ 2 \in DOMAIN wire /\ wire[2].op = "ack" /\ wire[2].tag \in Tags
      /\ delivered[wire[2].tag] = c
  BY <1>1, FrameType DEF AnswersMatch
<1> HIDE DEF c
<1>4. retry' \in Seq(Copies) /\ ToSet(retry') = ToSet(retry) \cup {c}
  BY <1>1, <1>2, AppendSet DEF TypeOK
<1>5. /\ wire' \in Seq(Frames)
      /\ \A k \in DOMAIN wire' : k \in Nat \ {0} /\ k + 1 \in DOMAIN wire /\ wire'[k] = wire[k + 1]
      /\ \A k \in DOMAIN wire \ {1} : k \in Nat /\ k - 1 \in DOMAIN wire' /\ wire'[k - 1] = wire[k]
  BY <1>1, WireTail
<1>6. TypeOK'
  BY <1>1, <1>4, <1>5 DEF TypeOK
<1>7. AnswersMatch'
  <2>1. \A k \in DOMAIN wire' : wire'[k].op # "publish" =>
          /\ wire'[k].tag \notin working /\ delivered[wire'[k].tag] # None
          /\ \A j \in DOMAIN wire' : wire'[j].op # "publish" /\ wire'[j].tag = wire'[k].tag => j = k
    BY <1>5 DEF AnswersMatch
  <2>2. \A k \in DOMAIN wire' : wire'[k].op = "publish" =>
          /\ k + 1 \in DOMAIN wire' /\ wire'[k + 1].op = "ack"
          /\ delivered[wire'[k + 1].tag] = wire'[k].copy
    <3> SUFFICES ASSUME NEW k \in DOMAIN wire', wire'[k].op = "publish"
                 PROVE  /\ k + 1 \in DOMAIN wire' /\ wire'[k + 1].op = "ack"
                        /\ delivered[wire'[k + 1].tag] = wire'[k].copy
      OBVIOUS
    <3>1. /\ k \in Nat \ {0} /\ k + 1 + 1 \in DOMAIN wire /\ wire[k + 1 + 1].op = "ack"
          /\ delivered[wire[k + 1 + 1].tag] = wire'[k].copy
      BY <1>5 DEF AnswersMatch
    <3>2. k + 1 \in DOMAIN wire' /\ wire'[k + 1] = wire[k + 1 + 1]
      BY <1>5, <3>1
    <3> QED
      BY <3>1, <3>2
  <2> QED
    BY <1>1, <2>1, <2>2 DEF AnswersMatch
<1>8. NobodyForgotten'
  <2> SUFFICES ASSUME NEW i \in published
               PROVE  \/ i \in emailed \/ InMain(i)' \/ InRetry(i)' \/ InDlq(i)' \/ InWork(i)'
                      \/ Republished(i)' \/ Rejected(i)'
    BY <1>1 DEF NobodyForgotten
  <2>1. Republished(i) => Republished(i)' \/ InRetry(i)'
    <3> SUFFICES ASSUME NEW k \in DOMAIN wire, wire[k].op = "publish", wire[k].copy.id = i
                 PROVE  Republished(i)' \/ InRetry(i)'
      BY DEF Republished
    <3>1. CASE k = 1
      BY <3>1, <1>4 DEF InRetry, c
    <3>2. CASE k # 1
      BY <3>2, <1>5 DEF Republished
    <3> QED
      BY <3>1, <3>2
  <2>2. Rejected(i) => Rejected(i)'
    <3> SUFFICES ASSUME NEW k \in DOMAIN wire, wire[k].op = "nack", delivered[wire[k].tag].id = i
                 PROVE  Rejected(i)'
      BY DEF Rejected
    <3>1. k - 1 \in DOMAIN wire' /\ wire'[k - 1] = wire[k]
      BY <1>1, <1>5
    <3> QED
      BY <3>1, <1>1 DEF Rejected
  <2>3. InRetry(i) => InRetry(i)'
    BY <1>4 DEF InRetry
  <2> QED
    BY <1>1, <2>1, <2>2, <2>3 DEF NobodyForgotten, InMain, InDlq, InWork
<1>9. TriesAreCounted'
  <2>1. Waiting' \subseteq Waiting
    BY <1>1, <1>4, <1>5 DEF Waiting, c
  <2> QED
    BY <1>1, <1>5, <2>1 DEF TriesAreCounted
<1>10. RetriesAreCounted' /\ OnlyPublished' /\ DlqMeansExhausted'
  <2>1. c \in CopiesHeld
    BY <1>2, <1>3, NoneAssumption DEF CopiesHeld
  <2>2. CopiesHeld' \subseteq CopiesHeld
    BY <1>1, <1>4, <2>1 DEF CopiesHeld
  <2> QED
    BY <1>1, <2>2 DEF RetriesAreCounted, OnlyPublished, DlqMeansExhausted
<1> QED
  BY <1>6, <1>7, <1>8, <1>9, <1>10

(* What an answer that is read leaves of the others: they are to other     *)
(* deliveries.                                                             *)
LEMMA AnswerRead ==
  ASSUME TypeOK, AnswersMatch, wire # <<>>, wire[1].op # "publish", wire' = Tail(wire),
         delivered' = [delivered EXCEPT ![wire[1].tag] = None], working' = working
  PROVE  /\ wire[1].tag \in Tags /\ delivered[wire[1].tag] \in Copies
         /\ delivered' \in [Tags -> Copies \cup {None}]
         /\ \A u \in Tags \ {wire[1].tag} : delivered'[u] = delivered[u]
         /\ \A u \in working : u \in Tags \ {wire[1].tag} /\ delivered'[u] = delivered[u]
         /\ \A k \in DOMAIN wire' :
              /\ k \in Nat \ {0} /\ k + 1 \in DOMAIN wire /\ wire'[k] = wire[k + 1]
              /\ wire'[k].op # "publish" => delivered'[wire'[k].tag] = delivered[wire[k + 1].tag]
         /\ \A k \in DOMAIN wire \ {1} : k \in Nat /\ k - 1 \in DOMAIN wire' /\ wire'[k - 1] = wire[k]
         /\ AnswersMatch'
<1> DEFINE t == wire[1].tag
<1>1. /\ wire' \in Seq(Frames) /\ 1 \in DOMAIN wire
      /\ \A k \in DOMAIN wire' : k \in Nat \ {0} /\ k + 1 \in DOMAIN wire /\ wire'[k] = wire[k + 1]
      /\ \A k \in DOMAIN wire \ {1} : k \in Nat /\ k - 1 \in DOMAIN wire' /\ wire'[k - 1] = wire[k]
  BY WireTail
<1>2. t \in Tags /\ delivered[t] \in Copies
  BY <1>1, FrameType DEF TypeOK, AnswersMatch
<1>3. \A u \in Tags \ {t} : delivered'[u] = delivered[u]
  BY DEF TypeOK
<1>4. \A u \in working : u \in Tags \ {t} /\ delivered'[u] = delivered[u]
  BY <1>1, <1>3 DEF AnswersMatch, TypeOK
<1>5. delivered' \in [Tags -> Copies \cup {None}]
  BY <1>2 DEF TypeOK
<1> HIDE DEF t
<1>6. \A k \in DOMAIN wire' : wire'[k].op # "publish" =>
        wire'[k].tag \in Tags \ {t} /\ delivered'[wire'[k].tag] = delivered[wire[k + 1].tag]
  <2> SUFFICES ASSUME NEW k \in DOMAIN wire', wire'[k].op # "publish"
               PROVE  wire'[k].tag \in Tags \ {t} /\ delivered'[wire'[k].tag] = delivered[wire[k + 1].tag]
    OBVIOUS
  <2>1. k + 1 \in DOMAIN wire /\ k + 1 # 1 /\ wire'[k] = wire[k + 1]
    BY <1>1
  <2>2. wire[k + 1].tag \in Tags /\ wire[k + 1].tag # t
    BY <1>1, <2>1, FrameType DEF AnswersMatch, t
  <2> QED
    BY <2>1, <2>2, <1>3
<1>7. AnswersMatch'
  <2>1. \A u \in working' : delivered'[u] # None
    BY <1>4 DEF AnswersMatch
  <2>2. \A k \in DOMAIN wire' : wire'[k].op # "publish" =>
          /\ wire'[k].tag \notin working' /\ delivered'[wire'[k].tag] # None
          /\ \A j \in DOMAIN wire' : wire'[j].op # "publish" /\ wire'[j].tag = wire'[k].tag => j = k
    BY <1>1, <1>6 DEF AnswersMatch
  <2>3. ASSUME NEW k \in DOMAIN wire', wire'[k].op = "publish"
        PROVE  /\ k + 1 \in DOMAIN wire' /\ wire'[k + 1].op = "ack"
               /\ delivered'[wire'[k + 1].tag] = wire'[k].copy
    <3>1. /\ k \in Nat \ {0} /\ k + 1 + 1 \in DOMAIN wire /\ wire[k + 1 + 1].op = "ack"
          /\ delivered[wire[k + 1 + 1].tag] = wire'[k].copy
      BY <1>1, <2>3 DEF AnswersMatch
    <3>2. k + 1 \in DOMAIN wire' /\ wire'[k + 1] = wire[k + 1 + 1]
      BY <1>1, <3>1
    <3> QED
      BY <3>1, <3>2, <1>6
  <2> QED
    BY <2>1, <2>2, <2>3 DEF AnswersMatch
<1> QED
  BY <1>1, <1>2, <1>3, <1>4, <1>5, <1>6, <1>7 DEF t

(* The broker forgets a delivery that was acknowledged.                    *)
LEMMA ReadAckInv ==
  ASSUME IInv, ReadAck
  PROVE  IInv'
<1> USE DEF IInv
<1>1. /\ wire # <<>> /\ wire' = Tail(wire) /\ wire[1].op = "ack"
      /\ delivered' = [delivered EXCEPT ![wire[1].tag] = None]
      /\ UNCHANGED <<main, retry, dlq, working, consumer, published, emailed, failures, losses>>
  BY WireTail DEF ReadAck, queues
<1>2. wire' \in Seq(Frames)
  BY <1>1, WireTail
<1>3. /\ delivered' \in [Tags -> Copies \cup {None}]
      /\ \A u \in Tags : delivered'[u] \in {delivered[u], None}
      /\ \A u \in working : delivered'[u] = delivered[u]
      /\ \A k \in DOMAIN wire' :
           /\ k \in Nat \ {0} /\ k + 1 \in DOMAIN wire /\ wire'[k] = wire[k + 1]
           /\ wire'[k].op # "publish" => delivered'[wire'[k].tag] = delivered[wire[k + 1].tag]
      /\ \A k \in DOMAIN wire \ {1} : k \in Nat /\ k - 1 \in DOMAIN wire' /\ wire'[k - 1] = wire[k]
      /\ AnswersMatch'
  <2>1. wire[1].op # "publish"
    BY <1>1
  <2> QED
    BY <1>1, <2>1, AnswerRead DEF TypeOK
<1>4. TypeOK'
  BY <1>1, <1>2, <1>3 DEF TypeOK
<1>5. NobodyForgotten'
  <2> SUFFICES ASSUME NEW i \in published
               PROVE  \/ i \in emailed \/ InMain(i)' \/ InRetry(i)' \/ InDlq(i)' \/ InWork(i)'
                      \/ Republished(i)' \/ Rejected(i)'
    BY <1>1 DEF NobodyForgotten
  <2>1. Republished(i) => Republished(i)'
    <3> SUFFICES ASSUME NEW k \in DOMAIN wire, wire[k].op = "publish", wire[k].copy.id = i
                 PROVE  Republished(i)'
      BY DEF Republished
    <3>1. k - 1 \in DOMAIN wire' /\ wire'[k - 1] = wire[k]
      BY <1>1, <1>3
    <3> QED
      BY <3>1 DEF Republished
  <2>2. Rejected(i) => Rejected(i)'
    <3> SUFFICES ASSUME NEW k \in DOMAIN wire, wire[k].op = "nack", delivered[wire[k].tag].id = i
                 PROVE  Rejected(i)'
      BY DEF Rejected
    <3>1. k - 1 \in DOMAIN wire' /\ wire'[k - 1] = wire[k] /\ (k - 1) + 1 = k
      BY <1>1, <1>3
    <3> QED
      BY <3>1, <1>3 DEF Rejected
  <2>3. InWork(i) => InWork(i)'
    BY <1>1, <1>3 DEF InWork
  <2> QED
    BY <1>1, <2>1, <2>2, <2>3 DEF NobodyForgotten, InMain, InRetry, InDlq
<1>6. TriesAreCounted'
  <2>1. Waiting' \subseteq Waiting
    BY <1>1, <1>3 DEF Waiting
  <2> QED
    BY <1>1, <1>3, <2>1 DEF TriesAreCounted
<1>7. RetriesAreCounted' /\ OnlyPublished' /\ DlqMeansExhausted'
  <2>1. CopiesHeld' \subseteq CopiesHeld
    BY <1>1, <1>3 DEF CopiesHeld
  <2> QED
    BY <1>1, <2>1 DEF RetriesAreCounted, OnlyPublished, DlqMeansExhausted
<1> QED
  BY <1>3, <1>4, <1>5, <1>6, <1>7

(* ... and moves one that was rejected to the dead letter queue.           *)
LEMMA ReadNackInv ==
  ASSUME IInv, ReadNack
  PROVE  IInv'
<1> USE DEF IInv
<1> DEFINE c == delivered[wire[1].tag]
<1>1. /\ wire # <<>> /\ wire' = Tail(wire) /\ wire[1].op = "nack" /\ 1 \in DOMAIN wire
      /\ dlq' = dlq \cup {c}
      /\ delivered' = [delivered EXCEPT ![wire[1].tag] = None]
      /\ UNCHANGED <<main, retry, working, consumer, published, emailed, failures, losses>>
  BY WireTail DEF ReadNack, DeadLetter
<1>2. wire' \in Seq(Frames)
  BY <1>1, WireTail
<1>3. /\ wire[1].tag \in Tags /\ c \in Copies
      /\ delivered' \in [Tags -> Copies \cup {None}]
      /\ \A u \in Tags : delivered'[u] \in {delivered[u], None}
      /\ \A u \in working : delivered'[u] = delivered[u]
      /\ \A k \in DOMAIN wire' :
           /\ k \in Nat \ {0} /\ k + 1 \in DOMAIN wire /\ wire'[k] = wire[k + 1]
           /\ wire'[k].op # "publish" => delivered'[wire'[k].tag] = delivered[wire[k + 1].tag]
      /\ \A k \in DOMAIN wire \ {1} : k \in Nat /\ k - 1 \in DOMAIN wire' /\ wire'[k - 1] = wire[k]
      /\ AnswersMatch'
  <2>1. wire[1].op # "publish"
    BY <1>1
  <2> QED
    BY <1>1, <2>1, AnswerRead DEF TypeOK
<1>8. c # None
  BY <1>3, NoneAssumption
<1>4. TypeOK'
  BY <1>1, <1>2, <1>3 DEF TypeOK
<1>5. NobodyForgotten'
  <2> SUFFICES ASSUME NEW i \in published
               PROVE  \/ i \in emailed \/ InMain(i)' \/ InRetry(i)' \/ InDlq(i)' \/ InWork(i)'
                      \/ Republished(i)' \/ Rejected(i)'
    BY <1>1 DEF NobodyForgotten
  <2>1. Republished(i) => Republished(i)'
    <3> SUFFICES ASSUME NEW k \in DOMAIN wire, wire[k].op = "publish", wire[k].copy.id = i
                 PROVE  Republished(i)'
      BY DEF Republished
    <3>1. k - 1 \in DOMAIN wire' /\ wire'[k - 1] = wire[k]
      BY <1>1, <1>3
    <3> QED
      BY <3>1 DEF Republished
  <2>2. Rejected(i) => Rejected(i)' \/ InDlq(i)'
    <3> SUFFICES ASSUME NEW k \in DOMAIN wire, wire[k].op = "nack", delivered[wire[k].tag].id = i
                 PROVE  Rejected(i)' \/ InDlq(i)'
      BY DEF Rejected
    <3>1. CASE k = 1
      BY <3>1, <1>1 DEF InDlq
    <3>2. CASE k # 1
      <4>1. k - 1 \in DOMAIN wire' /\ wire'[k - 1] = wire[k] /\ (k - 1) + 1 = k
        BY <3>2, <1>3
      <4> QED
        BY <4>1, <1>3 DEF Rejected
    <3> QED
      BY <3>1, <3>2
  <2>3. (InWork(i) => InWork(i)') /\ (InDlq(i) => InDlq(i)')
    BY <1>1, <1>3 DEF InWork, InDlq
  <2> QED
    BY <1>1, <2>1, <2>2, <2>3 DEF NobodyForgotten, InMain, InRetry
<1>6. TriesAreCounted'
  <2>1. Waiting' \subseteq Waiting
    BY <1>1, <1>3 DEF Waiting
  <2> QED
    BY <1>1, <1>3, <2>1 DEF TriesAreCounted
<1>7. RetriesAreCounted' /\ OnlyPublished' /\ DlqMeansExhausted'
  <2>1. c \in CopiesHeld
    BY <1>3, <1>8 DEF CopiesHeld
  <2>2. CopiesHeld' \subseteq CopiesHeld
    BY <1>1, <1>3, <2>1 DEF CopiesHeld
  <2>3. failures[c.id] > MaxRetries
    BY <1>1 DEF TriesAreCounted
  <2> QED
    BY <1>1, <2>2, <2>3 DEF RetriesAreCounted, OnlyPublished, DlqMeansExhausted
<1> QED
  BY <1>3, <1>4, <1>5, <1>6, <1>7

(* The retry queue gives a message back with one death more.               *)
LEMMA ExpireRetryInv ==
  ASSUME IInv, ExpireRetry
  PROVE  IInv'
<1> USE DEF IInv
<1> DEFINE h == Head(retry)
           c == [h EXCEPT !.deaths = @ + 1]
<1>1. /\ retry # <<>> /\ main' = Append(main, c) /\ retry' = Tail(retry)
      /\ UNCHANGED <<dlq, delivered, working, wire, consumer, published, emailed, failures, losses>>
  BY DEF ExpireRetry, Expired, channel
<1>2. /\ h \in Copies /\ retry' \in Seq(Copies) /\ ToSet(retry) = {h} \cup ToSet(retry')
  BY <1>1, TailSet DEF TypeOK
<1>3. h \in Waiting /\ h \in CopiesHeld
  BY <1>2 DEF Waiting, CopiesHeld
<1>4. /\ h.deaths \in Nat /\ h.id \in Ids /\ h.deaths < MaxRetries /\ h.deaths < failures[h.id]
      /\ MaxRetries \in Nat /\ failures[h.id] \in Nat
  BY <1>2, <1>3, HeldType, NotificationAssumption DEF TriesAreCounted, TypeOK
<1>5. c \in Copies /\ c.id = h.id /\ c.deaths = h.deaths + 1
  BY <1>2, <1>4 DEF Copies
<1> HIDE DEF h, c
<1>6. main' \in Seq(Copies) /\ ToSet(main') = ToSet(main) \cup {c}
  BY <1>1, <1>5, AppendSet DEF TypeOK
<1>7. TypeOK'
  BY <1>1, <1>2, <1>6 DEF TypeOK
<1>8. AnswersMatch' /\ DlqMeansExhausted'
  BY <1>1 DEF AnswersMatch, DlqMeansExhausted
<1>9. NobodyForgotten'
  BY <1>1, <1>2, <1>5, <1>6
     DEF NobodyForgotten, InMain, InRetry, InDlq, InWork, Republished, Rejected
<1>10. TriesAreCounted'
  BY <1>1, <1>2 DEF TriesAreCounted, Waiting
<1>11. RetriesAreCounted' /\ OnlyPublished'
  <2>1. CopiesHeld' \subseteq CopiesHeld \cup {c}
    BY <1>1, <1>2, <1>6 DEF CopiesHeld
  <2>2. c.deaths <= failures[c.id] /\ c.deaths <= MaxRetries /\ c.id \in published
    BY <1>3, <1>4, <1>5 DEF OnlyPublished
  <2> QED
    BY <1>1, <2>1, <2>2 DEF RetriesAreCounted, OnlyPublished
<1> QED
  BY <1>7, <1>8, <1>9, <1>10, <1>11

-----------------------------------------------------------------------------
(* The channel closes: what was published and not read is lost, but then   *)
(* its original had no answer either and is back in the queue.             *)
LEMMA CloseChannelInv ==
  ASSUME IInv, CloseChannel, consumer' \in {"up", "down", "gone"}
  PROVE  IInv'
<1> USE DEF IInv
<1>1. PICK sent \in SUBSET {delivered[t].id : t \in working} : emailed' = emailed \cup (sent \ Bad)
  BY DEF CloseChannel
<1>2. PICK o \in Orders : main' = Unanswered(o) \o main
  BY DEF CloseChannel
<1>3. /\ losses < MaxLosses /\ losses' = losses + 1
      /\ delivered' = [t \in Tags |-> None] /\ working' = {} /\ wire' = <<>>
      /\ UNCHANGED <<retry, dlq, published, failures>>
  BY DEF CloseChannel
<1>4. /\ main' \in Seq(Copies)
      /\ ToSet(main') = ToSet(main) \cup {delivered[t] : t \in Held}
  BY <1>2, TakenBack, ConcatSet DEF TypeOK
<1>5. \A t \in working : t \in Held
  BY DEF Held, AnswersMatch, TypeOK
<1>6. \A k \in DOMAIN wire : wire[k].op # "publish" => wire[k].tag \in Held
  BY FrameType DEF Held, AnswersMatch
<1>7. DOMAIN wire' = {} /\ wire' \in Seq(Frames) /\ \A t \in Tags : delivered'[t] = None
  BY <1>3
<1>8. TypeOK'
  <2>1. emailed' \subseteq published
    <3>1. \A t \in working : delivered[t].id \in published
      BY <1>5, WorkType, NoneAssumption DEF OnlyPublished, CopiesHeld, Held
    <3> QED
      BY <1>1, <3>1 DEF TypeOK
  <2>2. losses' \in 0 .. MaxLosses
    BY <1>3, NotificationAssumption DEF TypeOK
  <2>3. delivered' \in [Tags -> Copies \cup {None}] /\ working' \subseteq Tags
    BY <1>3
  <2> QED
    BY <2>1, <2>2, <2>3, <1>3, <1>4, <1>7 DEF TypeOK
<1>9. AnswersMatch'
  BY <1>3, <1>7 DEF AnswersMatch
<1>10. NobodyForgotten'
  <2> SUFFICES ASSUME NEW i \in published
               PROVE  i \in emailed' \/ InMain(i)' \/ InRetry(i)' \/ InDlq(i)'
    BY <1>3 DEF NobodyForgotten
  <2>0. \A t \in Held : delivered[t].id = i => InMain(i)'
    BY <1>4 DEF InMain
  <2>1. InWork(i) => InMain(i)'
    BY <2>0, <1>5 DEF InWork
  <2>2. Rejected(i) => InMain(i)'
    BY <2>0, <1>6 DEF Rejected
  <2>3. Republished(i) => InMain(i)'
    <3> SUFFICES ASSUME NEW k \in DOMAIN wire, wire[k].op = "publish", wire[k].copy.id = i
                 PROVE  InMain(i)'
      BY DEF Republished
    <3>1. /\ k + 1 \in DOMAIN wire /\ wire[k + 1].op = "ack"
          /\ delivered[wire[k + 1].tag] = wire[k].copy
      BY DEF AnswersMatch
    <3> QED
      BY <3>1, <1>6, <2>0
  <2>4. InMain(i) => InMain(i)'
    BY <1>4 DEF InMain
  <2> QED
    BY <1>1, <1>3, <2>1, <2>2, <2>3, <2>4 DEF NobodyForgotten, InRetry, InDlq
<1>11. TriesAreCounted'
  <2>1. Waiting' \subseteq Waiting
    BY <1>3, <1>7 DEF Waiting
  <2> QED
    BY <1>3, <1>7, <2>1 DEF TriesAreCounted
<1>12. RetriesAreCounted' /\ OnlyPublished' /\ DlqMeansExhausted'
  <2>1. CopiesHeld' \subseteq CopiesHeld
    <3>1. {delivered'[t] : t \in Tags} \ {None} = {}
      BY <1>7
    <3>2. {delivered[t] : t \in Held} \subseteq CopiesHeld
      BY DEF CopiesHeld, Held
    <3> QED
      BY <3>1, <3>2, <1>3, <1>4 DEF CopiesHeld
  <2> QED
    BY <1>3, <2>1 DEF RetriesAreCounted, OnlyPublished, DlqMeansExhausted
<1> QED
  BY <1>8, <1>9, <1>10, <1>11, <1>12

-----------------------------------------------------------------------------
(* The queues are empty, and so is the wire.                               *)
LEMMA InitInv ==
  ASSUME Init
  PROVE  IInv
<1> USE DEF Init
<1>1. ToSet(main) = {} /\ ToSet(retry) = {} /\ DOMAIN wire = {}
  BY DEF ToSet
<1>2. TypeOK
  BY NotificationAssumption DEF TypeOK, FailuresCap
<1>3. CopiesHeld = {} /\ Waiting = {}
  <2>1. {delivered[t] : t \in Tags} \ {None} = {}
    OBVIOUS
  <2> QED
    BY <1>1, <2>1 DEF CopiesHeld, Waiting
<1>4. AnswersMatch /\ NobodyForgotten /\ TriesAreCounted
  BY <1>1, <1>3 DEF AnswersMatch, NobodyForgotten, TriesAreCounted
<1> QED
  BY <1>2, <1>3, <1>4 DEF IInv, OnlyPublished, RetriesAreCounted, DlqMeansExhausted

(* A start of the consumer changes only that it is up.                     *)
LEMMA SameInv ==
  ASSUME IInv, consumer' \in {"up", "down", "gone"},
         UNCHANGED <<queues, channel, published, emailed, failures, losses>>
  PROVE  IInv'
BY DEF IInv, queues, channel, TypeOK, OnlyPublished, AnswersMatch, NobodyForgotten, TriesAreCounted,
       RetriesAreCounted, DlqMeansExhausted, CopiesHeld, Waiting, InMain, InRetry, InDlq, InWork,
       Republished, Rejected

(* Every step, whoever takes it.                                           *)
LEMMA NextInv ==
  ASSUME IInv, [Next]_vars
  PROVE  IInv'
<1>1. CASE UNCHANGED vars
  BY <1>1, SameInv DEF vars, IInv, TypeOK
<1>2. CASE Restart \/ Launch
  BY <1>2, SameInv DEF Restart, Launch, Connect
<1>3. CASE LoseConnection \/ Stop
  BY <1>3, CloseChannelInv DEF LoseConnection, Stop
<1>4. CASE Broker
  BY <1>4, ReadPublishInv, ReadAckInv, ReadNackInv, ExpireRetryInv DEF Broker
<1>5. CASE \E i \in Ids : Publish(i)
  BY <1>5, PublishInv
<1>6. CASE \E t \in Tags : Deliver(t) \/ ProcessSucceeds(t) \/ ProcessFails(t)
  BY <1>6, DeliverInv, ProcessSucceedsInv, ProcessFailsInv
<1>7. CASE Idle
  BY <1>1, <1>7 DEF Idle
<1> QED
  BY <1>1, <1>2, <1>3, <1>4, <1>5, <1>6, <1>7 DEF Next

(* The inductive invariant of the consumer and its queues. *)
THEOREM Invariant == Spec => []IInv
  BY InitInv, NextInv, PTL DEF Spec

(* Every variable keeps its type: the counts stay within the retry limit,  *)
(* and an email goes out for published notifications only.                 *)
THEOREM TypeCorrect == Spec => []TypeOK
  BY Invariant, PTL DEF IInv

(* Whatever channels close and processes die: a published notification has *)
(* its email or a copy in the broker (consumer.js: publish before ack).    *)
THEOREM NeverLost == Spec => []NoMessageLost
<1>1. ASSUME IInv PROVE NoMessageLost
  <2> SUFFICES ASSUME NEW i \in published, i \notin emailed
               PROVE  \E copy \in CopiesHeld : copy.id = i
    BY DEF NoMessageLost
  <2>1. InMain(i) \/ InRetry(i) \/ InDlq(i) \/ InWork(i) \/ Republished(i) \/ Rejected(i)
    BY <1>1 DEF IInv, NobodyForgotten
  <2>2. ASSUME NEW t \in Tags, delivered[t] # None, delivered[t].id = i
        PROVE  \E copy \in CopiesHeld : copy.id = i
    BY <2>2 DEF CopiesHeld
  <2>3. CASE InMain(i) \/ InRetry(i) \/ InDlq(i)
    BY <2>3 DEF InMain, InRetry, InDlq, CopiesHeld
  <2>4. CASE InWork(i)
    BY <2>2, <2>4, <1>1 DEF InWork, IInv, AnswersMatch, TypeOK
  <2>5. CASE Rejected(i)
    <3>1. PICK k \in DOMAIN wire : wire[k].op = "nack" /\ delivered[wire[k].tag].id = i
      BY <2>5 DEF Rejected
    <3>2. wire[k].tag \in Tags /\ delivered[wire[k].tag] # None
      BY <3>1, <1>1, FrameType DEF IInv, AnswersMatch
    <3> QED
      BY <2>2, <3>1, <3>2
  <2>6. CASE Republished(i)
    <3>1. PICK k \in DOMAIN wire : wire[k].op = "publish" /\ wire[k].copy.id = i
      BY <2>6 DEF Republished
    <3>2. /\ k + 1 \in DOMAIN wire /\ wire[k + 1].op = "ack"
          /\ delivered[wire[k + 1].tag] = wire[k].copy
      BY <3>1, <1>1 DEF IInv, AnswersMatch
    <3>3. wire[k + 1].tag \in Tags /\ delivered[wire[k + 1].tag] # None
      BY <3>2, <1>1, FrameType DEF IInv, AnswersMatch
    <3> QED
      BY <2>2, <3>1, <3>2, <3>3
  <2> QED
    BY <2>1, <2>3, <2>4, <2>5, <2>6
<1> QED
  BY <1>1, Invariant, PTL

(* A message in the dead letter queue failed 1 + MaxRetries times, across  *)
(* all restarts.                                                           *)
THEOREM DlqIsLastResort == Spec => []DlqMeansExhausted
  BY Invariant, PTL DEF IInv

(* No copy has more deaths than its notification has failures, nor more    *)
(* than are allowed.                                                       *)
THEOREM RetriesHaveACause == Spec => []RetriesAreCounted
  BY Invariant, PTL DEF IInv

-----------------------------------------------------------------------------
(* A queue that holds a notification once does so after either end moved.  *)
LEMMA AppendDistinct ==
  ASSUME NEW S, NEW s \in Seq(S), NEW x \in S, Distinct(s), \A y \in ToSet(s) : y.id # x.id
  PROVE  Distinct(Append(s, x))
<1> DEFINE a == Append(s, x)
<1>1. /\ DOMAIN s = 1 .. Len(s) /\ DOMAIN a = 1 .. Len(s) + 1 /\ Len(s) \in Nat
      /\ \A k \in 1 .. Len(s) : a[k] = s[k]
      /\ a[Len(s) + 1] = x
  BY AppendSet
<1>2. \A k \in 1 .. Len(s) : s[k].id # x.id
  BY <1>1 DEF ToSet
<1> HIDE DEF a
<1>3. \A k \in DOMAIN a : k \in 1 .. Len(s) \/ k = Len(s) + 1
  BY <1>1
<1> QED
  BY <1>1, <1>2, <1>3 DEF Distinct, a

(* ... and what is left of it is about other notifications.                *)
LEMMA TailDistinct ==
  ASSUME NEW S, NEW s \in Seq(S), s # <<>>, Distinct(s)
  PROVE  Distinct(Tail(s)) /\ \A y \in ToSet(Tail(s)) : y.id # Head(s).id
<1> DEFINE a == Tail(s)
<1>1. /\ DOMAIN s = 1 .. Len(s) /\ DOMAIN a = 1 .. Len(s) - 1 /\ Len(s) \in Nat /\ Len(s) > 0
      /\ \A k \in 1 .. Len(s) - 1 : a[k] = s[k + 1]
      /\ Head(s) = s[1]
  BY TailSet
<1> HIDE DEF a
<1>2. \A k \in DOMAIN a : k \in Int /\ k > 0 /\ k + 1 \in DOMAIN s /\ a[k] = s[k + 1]
  BY <1>1
<1>3. Distinct(a)
  BY <1>2 DEF Distinct
<1>4. \A k \in DOMAIN a : a[k].id # Head(s).id
  <2> SUFFICES ASSUME NEW k \in DOMAIN a PROVE a[k].id # s[1].id
    BY <1>1
  <2>1. k + 1 # 1 /\ 1 \in DOMAIN s
    BY <1>1, <1>2
  <2> QED
    BY <1>2, <2>1 DEF Distinct
<1> QED
  BY <1>3, <1>4 DEF ToSet, a

(* Whatever is in a place is published. *)
LEMMA PublishedInPlace ==
  ASSUME IInv, NEW p \in Places, NEW i, InPlace(p, i)
  PROVE  i \in published
<1> USE DEF IInv
<1>1. \A t \in Tags : delivered[t] # None => delivered[t].id \in published
  BY DEF OnlyPublished, CopiesHeld
<1>2. i \in emailed \/ InMain(i) \/ InRetry(i) \/ InDlq(i) => i \in published
  BY DEF InMain, InRetry, InDlq, OnlyPublished, CopiesHeld, TypeOK
<1>3. InWork(i) => i \in published
  BY <1>1 DEF InWork, AnswersMatch, TypeOK
<1>4. Rejected(i) => i \in published
  BY <1>1, FrameType DEF Rejected, AnswersMatch
<1>5. Republished(i) => i \in published
  <2> SUFFICES ASSUME NEW k \in DOMAIN wire, wire[k].op = "publish", wire[k].copy.id = i
               PROVE  i \in published
    BY DEF Republished
  <2>1. /\ k + 1 \in DOMAIN wire /\ wire[k + 1].op = "ack"
        /\ delivered[wire[k + 1].tag] = wire[k].copy
    BY DEF AnswersMatch
  <2> QED
    BY <1>1, <2>1, FrameType DEF AnswersMatch
<1> QED
  BY <1>2, <1>3, <1>4, <1>5 DEF InPlace

(* One notification moves, and is no longer where it was. *)
LEMMA Moved ==
  ASSUME OnePlace, NEW i \in Ids, NEW from \in Places, NEW to \in Places,
         InPlace(from, i), ~InPlace(from, i)',
         \A x \in Ids :
           /\ x \in emailed' => x \in emailed \/ (x = i /\ to = "emailed")
           /\ InMain(x)' => InMain(x) \/ (x = i /\ to = "main")
           /\ InRetry(x)' => InRetry(x) \/ (x = i /\ to = "retry")
           /\ InDlq(x)' => InDlq(x) \/ (x = i /\ to = "dlq")
           /\ InWork(x)' => InWork(x) \/ (x = i /\ to = "work")
           /\ Republished(x)' => Republished(x) \/ (x = i /\ to = "wire")
           /\ Rejected(x)' => Rejected(x) \/ (x = i /\ to = "rejected")
  PROVE  OnePlace'
<1>1. \A x \in Ids : \A p \in Places : InPlace(p, x)' => InPlace(p, x) \/ (x = i /\ p = to)
  BY DEF InPlace
<1> SUFFICES ASSUME NEW x \in Ids, NEW p \in Places, NEW q \in Places,
                    InPlace(p, x)', InPlace(q, x)'
             PROVE  p = q
  BY DEF OnePlace
<1>2. CASE x # i
  BY <1>1, <1>2 DEF OnePlace
<1>3. CASE x = i
  <2>1. ASSUME NEW r \in Places, InPlace(r, i)' PROVE r = to
    <3>1. r = to \/ InPlace(r, i)
      BY <1>1, <2>1
    <3>2. InPlace(r, i) => r = from
      BY DEF OnePlace
    <3> QED
      BY <2>1, <3>1, <3>2
  <2> QED
    BY <1>3, <2>1
<1> QED
  BY <1>2, <1>3

(* The notification was in no place, and has no failures.                  *)
LEMMA PublishSole ==
  ASSUME IInv, Sole, NEW i \in Ids, Publish(i)
  PROVE  Sole'
<1> USE DEF IInv, Sole
<1> DEFINE c == [id |-> i, deaths |-> 0]
<1>1. /\ i \notin published /\ published' = published \cup {i} /\ main' = Append(main, c)
      /\ UNCHANGED <<retry, dlq, delivered, working, wire, consumer, emailed, failures, losses>>
  BY DEF Publish, channel
<1>2. c \in Copies /\ c.id = i /\ c.deaths = 0
  BY NotificationAssumption DEF Copies
<1> HIDE DEF c
<1>3. ToSet(main') = ToSet(main) \cup {c}
  BY <1>1, <1>2, AppendSet DEF TypeOK
<1>4. \A p \in Places : ~InPlace(p, i)
  BY <1>1, PublishedInPlace
<1>5. ~InMain(i)
  BY <1>4 DEF InPlace, Places
<1>6. OnePlace'
  <2>1. \A x \in Ids : \A p \in Places : InPlace(p, x)' => InPlace(p, x) \/ (x = i /\ p = "main")
    BY <1>1, <1>2, <1>3 DEF InPlace, InMain, InRetry, InDlq, InWork, Republished, Rejected
  <2> SUFFICES ASSUME NEW x \in Ids, NEW p \in Places, NEW q \in Places,
                      InPlace(p, x)', InPlace(q, x)'
               PROVE  p = q
    BY DEF OnePlace
  <2> QED
    BY <2>1, <1>4 DEF OnePlace
<1>7. OnceInPlace'
  <2>1. Distinct(main')
    BY <1>1, <1>2, <1>5, AppendDistinct DEF OnceInPlace, InMain, TypeOK
  <2> QED
    BY <1>1, <2>1 DEF OnceInPlace
<1>8. FailuresAreDeaths'
  <2>1. failures[i] = 0
    BY <1>1 DEF FailuresAreDeaths, TypeOK, FailuresCap
  <2>2. \A x \in Ids : failures[x] <= IF x \in published' THEN MaxRetries + 1 ELSE 0
    BY <1>1, <2>1, NotificationAssumption DEF FailuresAreDeaths
  <2> QED
    BY <1>1, <1>2, <1>3, <2>1, <2>2 DEF FailuresAreDeaths, Waiting
<1> QED
  BY <1>6, <1>7, <1>8

(* From the queue to a handler.                                            *)
LEMMA DeliverSole ==
  ASSUME IInv, Sole, NEW t \in Tags, Deliver(t)
  PROVE  Sole'
<1> USE DEF IInv, Sole
<1>1. /\ main # <<>> /\ delivered[t] = None
      /\ delivered' = [delivered EXCEPT ![t] = Head(main)]
      /\ working' = working \cup {t} /\ main' = Tail(main)
      /\ UNCHANGED <<retry, dlq, wire, consumer, published, emailed, failures, losses>>
  BY DEF Deliver
<1>2. /\ Head(main) \in Copies /\ ToSet(main) = {Head(main)} \cup ToSet(main')
  BY <1>1, TailSet DEF TypeOK
<1>3. PICK i \in Ids : i = Head(main).id
  BY <1>2 DEF Copies
<1>4. Distinct(main') /\ \A y \in ToSet(main') : y.id # i
  BY <1>1, <1>3, TailDistinct DEF OnceInPlace, TypeOK
<1>5. delivered'[t] = Head(main) /\ \A u \in Tags \ {t} : delivered'[u] = delivered[u]
  BY <1>1 DEF TypeOK
<1>6. t \notin working /\ \A u \in working : u \in Tags /\ delivered'[u] = delivered[u]
  BY <1>1, <1>5 DEF AnswersMatch, TypeOK
<1>7. \A k \in DOMAIN wire : wire[k].op # "publish" => delivered'[wire[k].tag] = delivered[wire[k].tag]
  BY <1>1, <1>5, FrameType DEF AnswersMatch
<1>8. InMain(i) /\ ~InMain(i)'
  BY <1>2, <1>3, <1>4 DEF InMain
<1>9. ~InWork(i)
  BY <1>8 DEF OnePlace, InPlace, Places
<1>10. OnePlace'
  <2>1. \A x \in Ids : InMain(x)' => InMain(x)
    BY <1>2 DEF InMain
  <2>2. \A x \in Ids : InWork(x)' => InWork(x) \/ x = i
    BY <1>1, <1>3, <1>5, <1>6 DEF InWork
  <2>3. \A x \in Ids : Rejected(x)' => Rejected(x)
    BY <1>1, <1>7 DEF Rejected
  <2>4. \A x \in Ids : (InRetry(x)' => InRetry(x)) /\ (InDlq(x)' => InDlq(x)) /\ (Republished(x)' => Republished(x))
    BY <1>1 DEF InRetry, InDlq, Republished
  <2>5. InPlace("main", i) /\ ~InPlace("main", i)' /\ {"main", "work"} \subseteq Places
    BY <1>8 DEF InPlace, Places
  <2> QED
    BY <1>1, <2>1, <2>2, <2>3, <2>4, <2>5, Moved
<1>11. OnceInPlace'
  <2>1. \A u, v \in working' : delivered'[u].id = delivered'[v].id => u = v
    BY <1>1, <1>3, <1>5, <1>6, <1>9 DEF OnceInPlace, InWork
  <2>2. \A j, k \in DOMAIN wire :
          /\ wire[j].op = "nack" /\ wire[k].op = "nack"
          /\ delivered'[wire[j].tag].id = delivered'[wire[k].tag].id
          => j = k
    BY <1>7 DEF OnceInPlace
  <2> QED
    BY <1>1, <1>4, <2>1, <2>2 DEF OnceInPlace
<1>12. FailuresAreDeaths'
  <2>1. \A u \in working' : failures[delivered'[u].id] = delivered'[u].deaths
    BY <1>1, <1>2, <1>5, <1>6 DEF FailuresAreDeaths
  <2> QED
    BY <1>1, <1>2, <2>1 DEF FailuresAreDeaths, Waiting
<1> QED
  BY <1>10, <1>11, <1>12


(* From the handler to those whose email is out.                           *)
LEMMA ProcessSucceedsSole ==
  ASSUME IInv, Sole, NEW t \in Tags, ProcessSucceeds(t)
  PROVE  Sole'
<1> USE DEF IInv, Sole
<1> DEFINE L == Len(wire)
<1>1. /\ t \in working
      /\ emailed' = emailed \cup {delivered[t].id}
      /\ wire' = Append(wire, Ack(t)) /\ working' = working \ {t}
      /\ UNCHANGED <<main, retry, dlq, delivered, consumer, published, failures, losses>>
  BY DEF ProcessSucceeds, queues
<1>2. /\ L \in Nat /\ DOMAIN wire = 1 .. L /\ DOMAIN wire' = 1 .. L + 1
      /\ \A k \in 1 .. L : wire'[k] = wire[k]
      /\ wire'[L + 1].op = "ack"
  BY <1>1, AppendSet, SentFrames DEF TypeOK
<1> HIDE DEF L
<1>3. \A k \in DOMAIN wire' : wire'[k].op # "ack" => k \in DOMAIN wire /\ wire'[k] = wire[k]
  BY <1>2
<1>4. PICK i \in Ids : i = delivered[t].id
  BY <1>1, WorkType
<1>5. InWork(i) /\ ~InWork(i)'
  BY <1>1, <1>4 DEF InWork, OnceInPlace
<1>6. OnePlace'
  <2>1. \A x \in Ids : x \in emailed' => x \in emailed \/ x = i
    BY <1>1, <1>4
  <2>2. \A x \in Ids : InWork(x)' => InWork(x)
    BY <1>1 DEF InWork
  <2>3. \A x \in Ids : (Rejected(x)' => Rejected(x)) /\ (Republished(x)' => Republished(x))
    BY <1>1, <1>3 DEF Rejected, Republished
  <2>4. \A x \in Ids : (InMain(x)' => InMain(x)) /\ (InRetry(x)' => InRetry(x)) /\ (InDlq(x)' => InDlq(x))
    BY <1>1 DEF InMain, InRetry, InDlq
  <2>5. InPlace("work", i) /\ ~InPlace("work", i)' /\ {"work", "emailed"} \subseteq Places
    BY <1>5 DEF InPlace, Places
  <2> QED
    BY <2>1, <2>2, <2>3, <2>4, <2>5, Moved
<1>7. OnceInPlace'
  BY <1>1, <1>3 DEF OnceInPlace
<1>8. FailuresAreDeaths'
  <2>1. Waiting' \subseteq Waiting
    BY <1>1, <1>3 DEF Waiting
  <2> QED
    BY <1>1, <2>1 DEF FailuresAreDeaths
<1> QED
  BY <1>6, <1>7, <1>8

(* The broker reads an answer: the others stay what they are.              *)
LEMMA ReadAckSole ==
  ASSUME IInv, Sole, ReadAck
  PROVE  Sole'
<1> USE DEF IInv, Sole
<1>1. /\ wire # <<>> /\ wire' = Tail(wire) /\ wire[1].op = "ack"
      /\ delivered' = [delivered EXCEPT ![wire[1].tag] = None]
      /\ UNCHANGED <<main, retry, dlq, working, consumer, published, emailed, failures, losses>>
  BY WireTail DEF ReadAck, queues
<1>2. /\ \A u \in working : delivered'[u] = delivered[u]
      /\ \A k \in DOMAIN wire' :
           /\ k \in Nat \ {0} /\ k + 1 \in DOMAIN wire /\ wire'[k] = wire[k + 1]
           /\ wire'[k].op # "publish" => delivered'[wire'[k].tag] = delivered[wire[k + 1].tag]
  <2>1. wire[1].op # "publish"
    BY <1>1
  <2> QED
    BY <1>1, <2>1, AnswerRead
<1>3. OnePlace'
  <2>1. \A x \in Ids : (InWork(x)' => InWork(x)) /\ (Rejected(x)' => Rejected(x)) /\ (Republished(x)' => Republished(x))
    BY <1>1, <1>2 DEF InWork, Rejected, Republished
  <2>2. \A x \in Ids : \A p \in Places : InPlace(p, x)' => InPlace(p, x)
    BY <1>1, <2>1 DEF InPlace, InMain, InRetry, InDlq
  <2> QED
    BY <2>2 DEF OnePlace
<1>4. OnceInPlace'
  BY <1>1, <1>2 DEF OnceInPlace
<1>5. FailuresAreDeaths'
  <2>1. Waiting' \subseteq Waiting
    BY <1>1, <1>2 DEF Waiting
  <2> QED
    BY <1>1, <1>2, <2>1 DEF FailuresAreDeaths
<1> QED
  BY <1>3, <1>4, <1>5

(* From the rejected ones to the dead letter queue.                        *)
LEMMA ReadNackSole ==
  ASSUME IInv, Sole, ReadNack
  PROVE  Sole'
<1> USE DEF IInv, Sole
<1> DEFINE c == delivered[wire[1].tag]
<1>1. /\ wire # <<>> /\ wire' = Tail(wire) /\ wire[1].op = "nack" /\ 1 \in DOMAIN wire
      /\ dlq' = dlq \cup {c}
      /\ delivered' = [delivered EXCEPT ![wire[1].tag] = None]
      /\ UNCHANGED <<main, retry, working, consumer, published, emailed, failures, losses>>
  BY WireTail DEF ReadNack, DeadLetter
<1>2. /\ c \in Copies
      /\ \A u \in working : delivered'[u] = delivered[u]
      /\ \A k \in DOMAIN wire' :
           /\ k \in Nat \ {0} /\ k + 1 \in DOMAIN wire /\ wire'[k] = wire[k + 1]
           /\ wire'[k].op # "publish" => delivered'[wire'[k].tag] = delivered[wire[k + 1].tag]
  <2>1. wire[1].op # "publish"
    BY <1>1
  <2> QED
    BY <1>1, <2>1, AnswerRead
<1>3. PICK i \in Ids : i = c.id
  BY <1>2 DEF Copies
<1>4. Rejected(i) /\ ~Rejected(i)'
  <2>1. Rejected(i)
    BY <1>1, <1>3 DEF Rejected
  <2>2. ASSUME NEW k \in DOMAIN wire', wire'[k].op = "nack" PROVE delivered'[wire'[k].tag].id # i
    <3>1. /\ k + 1 \in DOMAIN wire /\ k + 1 # 1 /\ wire[k + 1].op = "nack"
          /\ delivered'[wire'[k].tag] = delivered[wire[k + 1].tag]
      BY <1>2, <2>2
    <3> QED
      BY <1>1, <1>3, <3>1 DEF OnceInPlace
  <2> QED
    BY <2>1, <2>2 DEF Rejected
<1>5. OnePlace'
  <2>1. \A x \in Ids : (InWork(x)' => InWork(x)) /\ (Rejected(x)' => Rejected(x)) /\ (Republished(x)' => Republished(x))
    BY <1>1, <1>2 DEF InWork, Rejected, Republished
  <2>2. \A x \in Ids : InDlq(x)' => InDlq(x) \/ x = i
    BY <1>1, <1>3 DEF InDlq
  <2>3. \A x \in Ids : (InMain(x)' => InMain(x)) /\ (InRetry(x)' => InRetry(x))
    BY <1>1 DEF InMain, InRetry
  <2>4. InPlace("rejected", i) /\ ~InPlace("rejected", i)' /\ {"rejected", "dlq"} \subseteq Places
    BY <1>4 DEF InPlace, Places
  <2> QED
    BY <1>1, <2>1, <2>2, <2>3, <2>4, Moved
<1>6. OnceInPlace'
  BY <1>1, <1>2 DEF OnceInPlace
<1>7. FailuresAreDeaths'
  <2>1. Waiting' \subseteq Waiting
    BY <1>1, <1>2 DEF Waiting
  <2> QED
    BY <1>1, <1>2, <2>1 DEF FailuresAreDeaths
<1> QED
  BY <1>5, <1>6, <1>7

(* From the wire to the retry queue.                                       *)
LEMMA ReadPublishSole ==
  ASSUME IInv, Sole, ReadPublish
  PROVE  Sole'
<1> USE DEF IInv, Sole
<1> DEFINE c == wire[1].copy
<1>1. /\ wire # <<>> /\ wire' = Tail(wire) /\ 1 \in DOMAIN wire /\ wire[1].op = "publish"
      /\ retry' = Append(retry, c)
      /\ UNCHANGED <<main, dlq, delivered, working, consumer, published, emailed, failures, losses>>
  BY WireTail DEF ReadPublish
<1>2. c \in Copies
  BY <1>1, FrameType
<1>3. PICK i \in Ids : i = c.id
  BY <1>2 DEF Copies
<1>4. ToSet(retry') = ToSet(retry) \cup {c}
  BY <1>1, <1>2, AppendSet DEF TypeOK
<1>5. \A k \in DOMAIN wire' : k \in Nat \ {0} /\ k + 1 \in DOMAIN wire /\ wire'[k] = wire[k + 1]
  BY <1>1, WireTail
<1>6. Republished(i) /\ ~Republished(i)'
  <2>1. Republished(i)
    BY <1>1, <1>3 DEF Republished
  <2>2. ASSUME NEW k \in DOMAIN wire', wire'[k].op = "publish" PROVE wire'[k].copy.id # i
    <3>1. k + 1 \in DOMAIN wire /\ k + 1 # 1 /\ wire'[k] = wire[k + 1]
      BY <1>5
    <3> QED
      BY <1>1, <1>3, <2>2, <3>1 DEF OnceInPlace
  <2> QED
    BY <2>1, <2>2 DEF Republished
<1>7. ~InRetry(i)
  BY <1>6 DEF OnePlace, InPlace, Places
<1>8. OnePlace'
  <2>1. \A x \in Ids : (Rejected(x)' => Rejected(x)) /\ (Republished(x)' => Republished(x))
    BY <1>1, <1>5 DEF Rejected, Republished
  <2>2. \A x \in Ids : InRetry(x)' => InRetry(x) \/ x = i
    BY <1>3, <1>4 DEF InRetry
  <2>3. \A x \in Ids : (InMain(x)' => InMain(x)) /\ (InDlq(x)' => InDlq(x)) /\ (InWork(x)' => InWork(x))
    BY <1>1 DEF InMain, InDlq, InWork
  <2>4. InPlace("wire", i) /\ ~InPlace("wire", i)' /\ {"wire", "retry"} \subseteq Places
    BY <1>6 DEF InPlace, Places
  <2> QED
    BY <1>1, <2>1, <2>2, <2>3, <2>4, Moved
<1>9. OnceInPlace'
  <2>1. Distinct(retry')
    BY <1>1, <1>2, <1>3, <1>7, AppendDistinct DEF OnceInPlace, InRetry, TypeOK
  <2>2. ASSUME NEW j \in DOMAIN wire', NEW k \in DOMAIN wire', j + 1 = k + 1
        PROVE  j = k
    BY <1>5, <2>2
  <2>3. \A j, k \in DOMAIN wire' :
          /\ wire'[j].op = "publish" /\ wire'[k].op = "publish" /\ wire'[j].copy.id = wire'[k].copy.id
          => j = k
    BY <1>5, <2>2 DEF OnceInPlace
  <2>4. \A j, k \in DOMAIN wire' :
          /\ wire'[j].op = "nack" /\ wire'[k].op = "nack"
          /\ delivered[wire'[j].tag].id = delivered[wire'[k].tag].id
          => j = k
    BY <1>5, <2>2 DEF OnceInPlace
  <2> QED
    BY <1>1, <2>1, <2>3, <2>4 DEF OnceInPlace
<1>10. FailuresAreDeaths'
  <2>1. Waiting' \subseteq Waiting
    BY <1>1, <1>4, <1>5 DEF Waiting
  <2> QED
    BY <1>1, <2>1 DEF FailuresAreDeaths
<1> QED
  BY <1>8, <1>9, <1>10

(* From the retry queue to the main one, with a death more.                *)
LEMMA ExpireRetrySole ==
  ASSUME IInv, Sole, ExpireRetry
  PROVE  Sole'
<1> USE DEF IInv, Sole
<1> DEFINE h == Head(retry)
           c == [h EXCEPT !.deaths = @ + 1]
<1>1. /\ retry # <<>> /\ main' = Append(main, c) /\ retry' = Tail(retry)
      /\ UNCHANGED <<dlq, delivered, working, wire, consumer, published, emailed, failures, losses>>
  BY DEF ExpireRetry, Expired, channel
<1>2. h \in Copies /\ ToSet(retry) = {h} \cup ToSet(retry')
  BY <1>1, TailSet DEF TypeOK
<1>3. h \in Waiting
  BY <1>2 DEF Waiting
<1>4. h.deaths \in Nat /\ h.deaths < MaxRetries /\ MaxRetries \in Nat
  BY <1>2, <1>3, HeldType, NotificationAssumption DEF TriesAreCounted
<1>5. c \in Copies /\ c.id = h.id /\ c.deaths = h.deaths + 1
  BY <1>2, <1>4 DEF Copies
<1>6. PICK i \in Ids : i = h.id
  BY <1>2 DEF Copies
<1>7. Distinct(retry') /\ \A y \in ToSet(retry') : y.id # i
  BY <1>1, <1>6, TailDistinct DEF OnceInPlace, TypeOK
<1> HIDE DEF h, c
<1>8. ToSet(main') = ToSet(main) \cup {c}
  BY <1>1, <1>5, AppendSet DEF TypeOK
<1>9. InRetry(i) /\ ~InRetry(i)'
  BY <1>2, <1>6, <1>7 DEF InRetry
<1>10. ~InMain(i)
  BY <1>9 DEF OnePlace, InPlace, Places
<1>11. OnePlace'
  <2>1. \A x \in Ids : InMain(x)' => InMain(x) \/ x = i
    BY <1>5, <1>6, <1>8 DEF InMain
  <2>2. \A x \in Ids : InRetry(x)' => InRetry(x)
    BY <1>2 DEF InRetry
  <2>3. \A x \in Ids : /\ (InDlq(x)' => InDlq(x)) /\ (InWork(x)' => InWork(x))
                       /\ (Rejected(x)' => Rejected(x)) /\ (Republished(x)' => Republished(x))
    BY <1>1 DEF InDlq, InWork, Rejected, Republished
  <2>4. InPlace("retry", i) /\ ~InPlace("retry", i)' /\ {"retry", "main"} \subseteq Places
    BY <1>9 DEF InPlace, Places
  <2> QED
    BY <1>1, <2>1, <2>2, <2>3, <2>4, Moved
<1>12. OnceInPlace'
  <2>1. Distinct(main')
    BY <1>1, <1>5, <1>6, <1>10, AppendDistinct DEF OnceInPlace, InMain, TypeOK
  <2> QED
    BY <1>1, <1>7, <2>1 DEF OnceInPlace
<1>13. FailuresAreDeaths'
  <2>1. failures[c.id] = c.deaths
    BY <1>3, <1>5 DEF FailuresAreDeaths
  <2>2. Waiting' \subseteq Waiting
    BY <1>1, <1>2 DEF Waiting
  <2> QED
    BY <1>1, <1>8, <2>1, <2>2 DEF FailuresAreDeaths
<1> QED
  BY <1>11, <1>12, <1>13

(* A try failed: its failure is the death the copy will have, and a last   *)
(* one is counted beyond them.                                             *)
LEMMA ProcessFailsSole ==
  ASSUME IInv, Sole, NEW t \in Tags, ProcessFails(t)
  PROVE  Sole'
<1> USE DEF IInv, Sole
<1> DEFINE L == Len(wire)
           c == delivered[t]
<1>1. /\ t \in working /\ working' = working \ {t}
      /\ failures' = [failures EXCEPT ![c.id] = IF @ < FailuresCap THEN @ + 1 ELSE @]
      /\ \/ c.deaths >= MaxRetries /\ wire' = Append(wire, Nack(t))
         \/ ~(c.deaths >= MaxRetries) /\ wire' = wire \o <<Send(c), Ack(t)>>
      /\ UNCHANGED <<main, retry, dlq, delivered, consumer, published, emailed, losses>>
  BY DEF ProcessFails, queues, Exhausted, ScheduleRetry
<1>2. /\ c \in Copies /\ c # None /\ c.id \in Ids /\ c.deaths \in 0 .. MaxRetries
      /\ failures[c.id] = c.deaths /\ MaxRetries \in Nat
  BY <1>1, WorkType, NotificationAssumption DEF AnswersMatch, FailuresAreDeaths
<1>3. PICK i \in Ids : i = c.id
  BY <1>2
(* The frame about c is the only new one that is not an ack. *)
<1>4. PICK n \in Nat, op \in {"publish", "nack"} :
        /\ n \notin DOMAIN wire
        /\ \A k \in DOMAIN wire' : wire'[k].op # "ack" =>
             \/ k \in DOMAIN wire /\ wire'[k] = wire[k]
             \/ k = n /\ wire'[k].op = op /\ IF op = "nack" THEN wire'[k].tag = t ELSE wire'[k].copy = c
  <2>0. L \in Nat /\ DOMAIN wire = 1 .. L /\ L + 1 \in Nat /\ L + 1 \notin DOMAIN wire
    BY DEF TypeOK
  <2>1. CASE wire' = Append(wire, Nack(t))
    <3>1. /\ DOMAIN wire' = 1 .. L + 1 /\ \A k \in 1 .. L : wire'[k] = wire[k]
          /\ wire'[L + 1].op = "nack" /\ wire'[L + 1].tag = t
      BY <2>1, AppendSet, SentFrames DEF TypeOK
    <3>2. \A k \in DOMAIN wire' : k \in DOMAIN wire \/ k = L + 1
      BY <2>0, <3>1
    <3> QED
      BY <2>0, <3>1, <3>2
  <2>2. CASE wire' = wire \o <<Send(c), Ack(t)>>
    <3>1. /\ DOMAIN wire' = 1 .. L + 2 /\ \A k \in 1 .. L : wire'[k] = wire[k]
          /\ wire'[L + 1].op = "publish" /\ wire'[L + 1].copy = c /\ wire'[L + 2].op = "ack"
      BY <2>2, <1>2, ScheduleSet, SentFrames DEF TypeOK
    <3>2. \A k \in DOMAIN wire' : k \in DOMAIN wire \/ k = L + 1 \/ k = L + 2
      BY <2>0, <3>1
    <3> QED
      BY <2>0, <3>1, <3>2
  <2> QED
    BY <1>1, <2>1, <2>2
<1> HIDE DEF L, c
<1>5. InWork(i) /\ ~InWork(i)'
  BY <1>1, <1>3 DEF InWork, OnceInPlace, c
<1>6. /\ ~InMain(i) /\ ~InRetry(i) /\ ~Republished(i) /\ ~Rejected(i)
  BY <1>5 DEF OnePlace, InPlace, Places
<1>7. OnePlace'
  <2>1. \A x \in Ids : Republished(x)' => Republished(x) \/ (x = i /\ op = "publish")
    BY <1>1, <1>3, <1>4 DEF Republished
  <2>2. \A x \in Ids : Rejected(x)' => Rejected(x) \/ (x = i /\ op = "nack")
    BY <1>1, <1>3, <1>4 DEF Rejected, c
  <2>3. \A x \in Ids : InWork(x)' => InWork(x)
    BY <1>1 DEF InWork
  <2>4. \A x \in Ids : (InMain(x)' => InMain(x)) /\ (InRetry(x)' => InRetry(x)) /\ (InDlq(x)' => InDlq(x))
    BY <1>1 DEF InMain, InRetry, InDlq
  <2>5. InPlace("work", i) /\ ~InPlace("work", i)' /\ {"work", "wire", "rejected"} \subseteq Places
    BY <1>5 DEF InPlace, Places
  <2>6. CASE op = "publish"
    BY <2>6, <1>1, <2>1, <2>2, <2>3, <2>4, <2>5, Moved
  <2>7. CASE op = "nack"
    BY <2>7, <1>1, <2>1, <2>2, <2>3, <2>4, <2>5, Moved
  <2> QED
    BY <2>6, <2>7
<1>8. OnceInPlace'
  <2>1. \A j, k \in DOMAIN wire' :
          wire'[j].op = "publish" /\ wire'[k].op = "publish" /\ wire'[j].copy.id = wire'[k].copy.id => j = k
    <3>1. \A j \in DOMAIN wire' : wire'[j].op = "publish" =>
            \/ j \in DOMAIN wire /\ wire'[j] = wire[j] /\ wire'[j].copy.id # i
            \/ j = n /\ wire'[j].copy.id = i
      BY <1>3, <1>4, <1>6 DEF Republished
    <3> QED
      BY <3>1 DEF OnceInPlace
  <2>2. \A j, k \in DOMAIN wire' :
          /\ wire'[j].op = "nack" /\ wire'[k].op = "nack"
          /\ delivered[wire'[j].tag].id = delivered[wire'[k].tag].id
          => j = k
    <3>1. \A j \in DOMAIN wire' : wire'[j].op = "nack" =>
            \/ j \in DOMAIN wire /\ wire'[j] = wire[j] /\ delivered[wire'[j].tag].id # i
            \/ j = n /\ delivered[wire'[j].tag].id = i
      BY <1>3, <1>4, <1>6 DEF Rejected, c
    <3> QED
      BY <3>1 DEF OnceInPlace
  <2> QED
    BY <1>1, <2>1, <2>2 DEF OnceInPlace
<1>9. FailuresAreDeaths'
  <2>1. failures \in [Ids -> 0 .. FailuresCap] /\ FailuresCap = MaxRetries + 2
    BY DEF TypeOK, FailuresCap
  <2>2. failures'[i] = c.deaths + 1 /\ \A x \in Ids \ {i} : failures'[x] = failures[x]
    BY <1>1, <1>2, <1>3, <2>1
  <2>3. \A copy \in ToSet(main) : copy.id \in Ids \ {i}
    BY <1>6, HeldType DEF InMain, CopiesHeld
  <2>4. \A u \in working' : delivered[u].id \in Ids \ {i}
    BY <1>1, <1>5, WorkType DEF InWork
  <2>5. \A copy \in Waiting : copy.id \in Ids \ {i}
    <3>1. \A copy \in Waiting : copy.id # i
      BY <1>6 DEF Waiting, InRetry, Republished
    <3> QED
      BY <3>1, HeldType
  <2>6. \A copy \in Waiting' : copy \in Waiting \/ copy = c
    BY <1>1, <1>4 DEF Waiting
  <2>7. \A x \in Ids : failures'[x] <= IF x \in published THEN MaxRetries + 1 ELSE 0
    <3>1. i \in published
      BY <1>5, PublishedInPlace DEF InPlace, Places
    <3> QED
      BY <1>2, <2>2, <3>1 DEF FailuresAreDeaths
  <2>8. \A copy \in Waiting' : failures'[copy.id] = copy.deaths + 1
    BY <1>3, <2>2, <2>5, <2>6 DEF FailuresAreDeaths
  <2> QED
    BY <1>1, <2>2, <2>3, <2>4, <2>7, <2>8 DEF FailuresAreDeaths
<1> QED
  BY <1>7, <1>8, <1>9

(* Nothing is in any place.                                                *)
LEMMA InitSole ==
  ASSUME Init
  PROVE  SoleCopy
<1> USE DEF Init
<1>1. ToSet(main) = {} /\ ToSet(retry) = {} /\ DOMAIN wire = {} /\ DOMAIN main = {} /\ DOMAIN retry = {}
  BY DEF ToSet
<1>2. Waiting = {}
  BY <1>1 DEF Waiting
<1>3. \A i \in Ids, p \in Places : ~InPlace(p, i)
  BY <1>1 DEF InPlace, InMain, InRetry, InDlq, InWork, Republished, Rejected
<1>4. OnceInPlace
  BY <1>1 DEF OnceInPlace, Distinct
<1> QED
  BY <1>1, <1>2, <1>3, <1>4 DEF SoleCopy, Sole, OnePlace, FailuresAreDeaths

(* A lost channel ends the claim, every other step keeps it.               *)
LEMMA NextSole ==
  ASSUME IInv, SoleCopy, [Next]_vars
  PROVE  SoleCopy'
<1> USE DEF SoleCopy
<1>1. losses \in Nat
  BY NotificationAssumption DEF IInv, TypeOK
<1>2. ASSUME UNCHANGED <<queues, channel, published, emailed, failures, losses>> PROVE SoleCopy'
  BY <1>2 DEF queues, channel, Sole, OnePlace, InPlace, InMain, InRetry, InDlq, InWork,
              Republished, Rejected, OnceInPlace, Distinct, FailuresAreDeaths, Waiting
<1>3. CASE UNCHANGED vars
  BY <1>2, <1>3 DEF vars
<1>4. CASE Restart \/ Launch
  BY <1>2, <1>4 DEF Restart, Launch, Connect
<1>5. CASE LoseConnection \/ Stop
  BY <1>1, <1>5 DEF LoseConnection, Stop, CloseChannel
<1>6. CASE Broker
  BY <1>6, ReadPublishSole, ReadAckSole, ReadNackSole, ExpireRetrySole
     DEF Broker, ReadPublish, ReadAck, ReadNack, ExpireRetry
<1>7. CASE \E i \in Ids : Publish(i)
  BY <1>7, PublishSole DEF Publish
<1>8. CASE \E t \in Tags : Deliver(t) \/ ProcessSucceeds(t) \/ ProcessFails(t)
  BY <1>8, DeliverSole, ProcessSucceedsSole, ProcessFailsSole
     DEF Deliver, ProcessSucceeds, ProcessFails
<1>9. CASE Idle
  BY <1>3, <1>9 DEF Idle
<1> QED
  BY <1>3, <1>4, <1>5, <1>6, <1>7, <1>8, <1>9 DEF Next

(* As long as no channel closed, a notification is handled at most         *)
(* 1 + MaxRetries times, and once its email went out no copy is left that  *)
(* would be handled again.                                                 *)
THEOREM NeverTwice == Spec => []NoLossNoDuplicate
<1>1. Spec => [](IInv /\ SoleCopy)
  BY InitInv, InitSole, NextInv, NextSole, PTL DEF Spec
<1>2. ASSUME IInv, SoleCopy PROVE NoLossNoDuplicate
  <2> SUFFICES ASSUME losses = 0, NEW i \in Ids
               PROVE  /\ failures[i] <= MaxRetries + 1
                      /\ i \in emailed =>
                           \A copy \in ToSet(main) \cup ToSet(retry) \cup dlq : copy.id # i
    BY DEF NoLossNoDuplicate
  <2>1. Sole
    BY <1>2 DEF SoleCopy
  <2>2. failures[i] <= MaxRetries + 1
    BY <1>2, <2>1, NotificationAssumption DEF Sole, FailuresAreDeaths, IInv, TypeOK, FailuresCap
  <2>3. i \in emailed => ~InMain(i) /\ ~InRetry(i) /\ ~InDlq(i)
    BY <2>1 DEF Sole, OnePlace, InPlace, Places
  <2> QED
    BY <2>2, <2>3 DEF InMain, InRetry, InDlq
<1> QED
  BY <1>1, <1>2, PTL
=============================================================================
