--------------------------- MODULE EnDecryptProofs ---------------------------
(***************************************************************************)
(* Proofs about EnDecrypt, for any number of workers, QueueItems and       *)
(* packets.                                                                *)
(***************************************************************************)
EXTENDS EnDecrypt, FiniteSetTheorems, SequenceTheorems, TLAPS

\* Where a thread has left its loop, and where it has counted down its latch.
Ending == {"countDown", "inCountDown", "result", "pushBack", "countResult",
           "leaveResult", "done"}
Producing == {"encrypt", "setRef", "push"}

\* What the place of a thread says of its QueueItem and of its packets.
Places ==
  /\ \A p \in Producer :
       /\ pc[p] \in {"new", "pop"} \cup Producing \cup Ending
       /\ pc[p] \in Producing => cur[p] # NoItem /\ made[p] < Pattern
       /\ pc[p] \notin Producing => cur[p] = NoItem
       /\ pc[p] \in Ending => made[p] = Pattern
  /\ \A c \in Consumer :
       /\ pc[c] \in {"new", "pop", "missed", "check", "decrypt", "push"} \cup Ending
       /\ pc[c] \in {"decrypt", "push"} => cur[c] # NoItem
       /\ pc[c] \in {"new", "pop", "missed"} => cur[c] = NoItem

Typed == TypeOK /\ Places

\* Append puts an element into a queue, Tail takes the first one out of it; a
\* queue without duplicates stays without duplicates.
LEMMA AppendRange ==
  ASSUME NEW S, NEW s \in Seq(S), NEW e \in S
  PROVE  /\ Range(Append(s, e)) = Range(s) \cup {e}
         /\ IsInjective(s) /\ e \notin Range(s) => IsInjective(Append(s, e))
  <1> DEFINE a == Append(s, e)
  <1>1. /\ Len(s) \in Nat /\ DOMAIN s = 1..Len(s)
        /\ DOMAIN a = 1..(Len(s) + 1)
        /\ \A i \in 1..Len(s) : a[i] = s[i]
        /\ a[Len(s) + 1] = e
    BY AppendProperties, LenProperties
  <1> HIDE DEF a
  <1>2. Range(a) = Range(s) \cup {e}
    <2>1. ASSUME NEW x \in Range(a) PROVE x \in Range(s) \cup {e}
      <3>1. PICK i \in 1..(Len(s) + 1) : x = a[i]
        BY <1>1, <2>1 DEF Range
      <3> QED
        BY <1>1, <3>1 DEF Range
    <2>2. ASSUME NEW x \in Range(s) PROVE x \in Range(a)
      <3>1. PICK i \in 1..Len(s) : x = s[i]
        BY <1>1, <2>2 DEF Range
      <3> QED
        BY <1>1, <3>1 DEF Range
    <2>3. e \in Range(a)
      BY <1>1 DEF Range
    <2> QED
      BY <2>1, <2>2, <2>3
  <1>3. ASSUME IsInjective(s), e \notin Range(s) PROVE IsInjective(a)
    <2> SUFFICES ASSUME NEW i \in 1..(Len(s) + 1), NEW j \in 1..(Len(s) + 1), a[i] = a[j]
                 PROVE  i = j
      BY <1>1 DEF IsInjective
    <2>1. CASE i <= Len(s) /\ j <= Len(s)
      BY <1>1, <1>3, <2>1 DEF IsInjective
    <2>2. CASE i = Len(s) + 1 /\ j = Len(s) + 1
      BY <2>2
    <2>3. CASE i <= Len(s) /\ j = Len(s) + 1
      BY <1>1, <1>3, <2>3 DEF Range
    <2>4. CASE i = Len(s) + 1 /\ j <= Len(s)
      BY <1>1, <1>3, <2>4 DEF Range
    <2> QED
      BY <1>1, <2>1, <2>2, <2>3, <2>4
  <1> QED
    BY <1>2, <1>3 DEF a

LEMMA TailRange ==
  ASSUME NEW S, NEW s \in Seq(S), s # <<>>
  PROVE  /\ Range(s) = Range(Tail(s)) \cup {Head(s)}
         /\ IsInjective(s) => IsInjective(Tail(s)) /\ Head(s) \notin Range(Tail(s))
  <1> DEFINE t == Tail(s)
  <1>1. /\ Len(s) \in Nat /\ Len(s) > 0 /\ DOMAIN s = 1..Len(s)
        /\ DOMAIN t = 1..(Len(s) - 1)
        /\ \A i \in 1..(Len(s) - 1) : t[i] = s[i + 1]
        /\ Head(s) = s[1]
    BY HeadTailProperties, LenProperties, EmptySeq
  <1> HIDE DEF t
  <1>2. Range(s) = Range(t) \cup {Head(s)}
    <2>1. ASSUME NEW x \in Range(s) PROVE x \in Range(t) \cup {Head(s)}
      <3>1. PICK i \in 1..Len(s) : x = s[i]
        BY <1>1, <2>1 DEF Range
      <3>2. CASE i = 1
        BY <1>1, <3>1, <3>2
      <3>3. CASE i # 1
        <4>1. i - 1 \in 1..(Len(s) - 1) /\ t[i - 1] = s[i]
          BY <1>1, <3>3
        <4> QED
          BY <1>1, <3>1, <4>1 DEF Range
      <3> QED
        BY <3>2, <3>3
    <2>2. ASSUME NEW x \in Range(t) PROVE x \in Range(s)
      <3>1. PICK i \in 1..(Len(s) - 1) : x = t[i]
        BY <1>1, <2>2 DEF Range
      <3> QED
        BY <1>1, <3>1 DEF Range
    <2>3. Head(s) \in Range(s)
      BY <1>1 DEF Range
    <2> QED
      BY <2>1, <2>2, <2>3
  <1>3. ASSUME IsInjective(s) PROVE IsInjective(t) /\ Head(s) \notin Range(t)
    <2>1. ASSUME NEW i \in 1..(Len(s) - 1), NEW j \in 1..(Len(s) - 1), t[i] = t[j]
          PROVE  i = j
      <3>1. s[i + 1] = s[j + 1] /\ i + 1 \in 1..Len(s) /\ j + 1 \in 1..Len(s)
        BY <1>1, <2>1
      <3> QED
        BY <1>1, <1>3, <3>1 DEF IsInjective
    <2>2. ASSUME NEW i \in 1..(Len(s) - 1) PROVE t[i] # Head(s)
      <3>1. t[i] = s[i + 1] /\ i + 1 \in 1..Len(s) /\ i + 1 # 1 /\ 1 \in 1..Len(s)
        BY <1>1, <2>2
      <3> QED
        BY <1>1, <1>3, <3>1 DEF IsInjective
    <2> QED
      BY <1>1, <2>1, <2>2 DEF IsInjective, Range
  <1> QED
    BY <1>2, <1>3 DEF t

USE EnDecryptAssumption DEF Goto, queues, items

LEMMA InitTyped == Init => Typed
  <1> SUFFICES ASSUME Init PROVE Typed
    OBVIOUS
  <1>1. toProducer \in Seq(Item)
    BY IsASeq DEF Init, Item
  <1> QED
    BY <1>1 DEF Init, Typed, TypeOK, Places, Place, Ending, Producing, Thread, Item, Packet,
             Latch

LEMMA NextTyped == Typed /\ [Next]_vars => Typed'
  <1> SUFFICES ASSUME Typed, [Next]_vars PROVE Typed'
    OBVIOUS
  <1> USE DEF Typed, TypeOK, Places, Place, Ending, Producing, Thread
  <1>1. ASSUME NEW p \in Producer, ProducerStep(p) PROVE Typed'
    <2>1. CASE ProducerPop(p)
      <3>1. Head(toProducer) \in Item /\ Tail(toProducer) \in Seq(Item)
        BY <2>1, HeadTailProperties DEF ProducerPop
      <3>2. Head(toProducer) # NoItem
        BY <3>1 DEF Item
      <3> QED
        BY <2>1, <3>1, <3>2 DEF ProducerPop
    <2>2. CASE Encrypt(p)
      BY <2>2 DEF Encrypt, Packet
    <2>3. CASE SetRef(p)
      BY <2>3 DEF SetRef, Packet
    <2>4. CASE ProducerPush(p)
      BY <2>4 DEF ProducerPush
    <2>5. CASE ProducerFinish(p)
      BY <2>5 DEF ProducerFinish
    <2> QED
      BY <1>1, <2>1, <2>2, <2>3, <2>4, <2>5 DEF ProducerStep
  <1>2. ASSUME NEW c \in Consumer, ConsumerStep(c) PROVE Typed'
    <2>1. CASE ConsumerPop(c)
      <3>1. Head(toConsumer) \in Item /\ Tail(toConsumer) \in Seq(Item)
        BY <2>1, HeadTailProperties DEF ConsumerPop
      <3> QED
        BY <2>1, <3>1 DEF ConsumerPop
    <2>2. CASE ConsumerMiss(c) \/ ConsumerTimeout(c)
      BY <2>2 DEF ConsumerMiss, ConsumerTimeout
    <2>3. CASE CheckStop(c)
      BY <2>3 DEF CheckStop
    <2>4. CASE Decrypt(c)
      BY <2>4 DEF Decrypt
    <2>5. CASE ConsumerPush(c)
      BY <2>5 DEF ConsumerPush
    <2> QED
      BY <1>2, <2>1, <2>2, <2>3, <2>4, <2>5 DEF ConsumerStep
  <1>3. ASSUME NEW t \in Thread, EndStep(t) PROVE Typed'
    <2>1. CASE CountDown(t)
      BY <2>1 DEF CountDown, LatchOf, Latch
    <2>2. CASE PushBack(t)
      BY <2>2 DEF PushBack
    <2>3. CASE CountResult(t)
      BY <2>3 DEF CountResult, Latch
    <2>4. CASE CountDownReturns(t) \/ LockResults(t) \/ LeaveResults(t)
      BY <2>4 DEF CountDownReturns, LockResults, LeaveResults
    <2> QED
      BY <1>3, <2>1, <2>2, <2>3, <2>4 DEF EndStep
  <1>4. ASSUME NEW t \in Thread, StartThread(t) PROVE Typed'
    BY <1>4 DEF StartThread
  <1>5. ASSUME NEW c \in Consumer, Stop(c) PROVE Typed'
    BY <1>5 DEF Stop
  <1>6. CASE \/ ProducersFinished \/ ConsumersFinished \/ ReadResults
             \/ DestroyProducerLatch \/ JoinProducersDestroyConsumerLatch
             \/ JoinConsumersDestroyResult
    BY <1>6
    DEF ProducersFinished, ConsumersFinished, ReadResults, DestroyProducerLatch,
        JoinProducersDestroyConsumerLatch, JoinConsumersDestroyResult
  <1>7. CASE UNCHANGED vars
    BY <1>7 DEF vars
  <1> QED
    BY <1>1, <1>2, <1>3, <1>4, <1>5, <1>6, <1>7 DEF Next, MainStep, ThreadStep

LEMMA AlwaysTyped == Spec => []Typed
  BY InitTyped, NextTyped, PTL DEF Spec

\* Every variable keeps its type: a thread that uses its QueueItem has one, a
\* producer never makes more than its packets, the queues hold QueueItems.
THEOREM TypeCorrect == Spec => []TypeOK
  BY AlwaysTyped, PTL DEF Typed
-----------------------------------------------------------------------------
(* What main learns from the latches.                                        *)

\* The threads past the decrement of the latch they were given, those that have
\* added their result, and those past the decrement of the result's latch.
Arrived == {"inCountDown", "result", "pushBack", "countResult", "leaveResult", "done"}
ArrivedProducers == {p \in Producer : pc[p] \in Arrived}
ArrivedConsumers == {c \in Consumer : pc[c] \in Arrived}
Recorded == {t \in Thread : pc[t] \in {"countResult", "leaveResult", "done"}}
Reported == {t \in Thread : pc[t] \in {"leaveResult", "done"}}

Counts ==
  /\ left["aec"] = Workers \div 2 - Cardinality(ArrivedProducers)
  /\ left["adc"] = Workers \div 2 - Cardinality(ArrivedConsumers)
  /\ left["result"] = Workers - Cardinality(Reported)
  /\ Range(results) = Recorded
  /\ Len(results) = Cardinality(Recorded)

\* How far the threads have got when main has passed a wait() or a join.
Stages ==
  /\ (\E c \in Consumer : stop[c]) \/ main # "start" =>
       \A p \in Producer : pc[p] \in Arrived
  /\ main \in {"wait", "read", "joinProducers", "joinConsumers", "returned"} =>
       \A c \in Consumer : pc[c] \in Arrived
  /\ main \in {"read", "joinProducers", "joinConsumers", "returned"} =>
       \A t \in Thread : pc[t] \in {"leaveResult", "done"}
  /\ main \in {"joinConsumers", "returned"} => \A p \in Producer : pc[p] = "done"
  /\ main = "returned" => \A t \in Thread : pc[t] = "done"

LEMMA Threads == IsFiniteSet(Thread) /\ Cardinality(Thread) = Workers
  <1>1. Workers \div 2 + Workers \div 2 - 0 = Workers
    OBVIOUS
  <1>2. Cardinality(Producer \cap Consumer) = 0
    BY FS_EmptySet
  <1>3. /\ IsFiniteSet(Producer \cup Consumer)
        /\ Cardinality(Producer \cup Consumer)
             = Workers \div 2 + Workers \div 2 - Cardinality(Producer \cap Consumer)
    BY FS_Union
  <1> QED
    BY <1>1, <1>2, <1>3 DEF Thread

LEMMA SetsFinite ==
  /\ IsFiniteSet(ArrivedProducers) /\ Cardinality(ArrivedProducers) \in Nat
  /\ IsFiniteSet(ArrivedConsumers) /\ Cardinality(ArrivedConsumers) \in Nat
  /\ IsFiniteSet(Recorded) /\ Cardinality(Recorded) \in Nat
  /\ IsFiniteSet(Reported) /\ Cardinality(Reported) \in Nat
  <1>1. /\ ArrivedProducers \subseteq Producer /\ ArrivedConsumers \subseteq Consumer
        /\ Recorded \subseteq Thread /\ Reported \subseteq Thread
    BY DEF ArrivedProducers, ArrivedConsumers, Recorded, Reported
  <1> QED
    BY <1>1, Threads, FS_Subset, FS_CardinalityType

\* A latch at zero means that everybody has arrived.
LEMMA ZeroMeansAll ==
  ASSUME Counts
  PROVE  /\ left["aec"] = 0 => ArrivedProducers = Producer
         /\ left["adc"] = 0 => ArrivedConsumers = Consumer
         /\ left["result"] = 0 => Reported = Thread
  <1>1. /\ ArrivedProducers \subseteq Producer /\ ArrivedConsumers \subseteq Consumer
        /\ Reported \subseteq Thread
    BY DEF ArrivedProducers, ArrivedConsumers, Reported
  <1>2. Workers \div 2 \in Int
    OBVIOUS
  <1>3. left["aec"] = 0 => Cardinality(ArrivedProducers) = Cardinality(Producer)
    BY <1>2, SetsFinite DEF Counts
  <1>4. left["adc"] = 0 => Cardinality(ArrivedConsumers) = Cardinality(Consumer)
    BY <1>2, SetsFinite DEF Counts
  <1>5. left["result"] = 0 => Cardinality(Reported) = Cardinality(Thread)
    BY SetsFinite, Threads DEF Counts
  <1> QED
    BY <1>1, <1>3, <1>4, <1>5, Threads, FS_Subset

LEMMA InitCounts == Init => Counts /\ Stages
  <1> SUFFICES ASSUME Init PROVE Counts /\ Stages
    OBVIOUS
  <1>1. /\ ArrivedProducers = {} /\ ArrivedConsumers = {}
        /\ Recorded = {} /\ Reported = {}
    BY DEF Init, ArrivedProducers, ArrivedConsumers, Recorded, Reported, Arrived, Thread
  <1>2. Range(results) = {}
    BY DEF Init, Range
  <1>3. Workers \div 2 \in Int
    OBVIOUS
  <1>4. /\ left["aec"] = Workers \div 2 /\ left["adc"] = Workers \div 2
        /\ left["result"] = Workers /\ Len(results) = 0
    BY DEF Init, Latch
  <1>5. Counts
    BY <1>1, <1>2, <1>3, <1>4, FS_EmptySet DEF Counts
  <1>6. Stages
    BY DEF Init, Stages
  <1> QED
    BY <1>5, <1>6

\* A step that moves no thread into one of the sets changes no count.
LEMMA SameCounts ==
  ASSUME Counts,
         ArrivedProducers' = ArrivedProducers, ArrivedConsumers' = ArrivedConsumers,
         Recorded' = Recorded, Reported' = Reported,
         left' = left, results' = results
  PROVE  Counts'
  BY DEF Counts

LEMMA NextCounts == Typed /\ Counts /\ [Next]_vars => Counts'
  <1> SUFFICES ASSUME Typed, Counts, [Next]_vars PROVE Counts'
    OBVIOUS
  <1> DEFINE Same == /\ ArrivedProducers' = ArrivedProducers
                     /\ ArrivedConsumers' = ArrivedConsumers
                     /\ Recorded' = Recorded /\ Reported' = Reported
                     /\ left' = left /\ results' = results
  <1>t. /\ pc \in [Thread -> Place] /\ Producer \cap Consumer = {}
        /\ left \in [Latch -> Int] /\ results \in Seq(Thread)
        /\ Workers \div 2 \in Int
    BY DEF Typed, TypeOK
  <1>s. Same => Counts'
    BY SameCounts
  <1>1. ASSUME NEW p \in Producer, ProducerStep(p) PROVE Same
    BY <1>1, <1>t
    DEF ProducerStep, ProducerPop, Encrypt, SetRef, ProducerPush, ProducerFinish,
        ArrivedProducers, ArrivedConsumers, Recorded, Reported, Arrived, Thread
  <1>2. ASSUME NEW c \in Consumer, ConsumerStep(c) PROVE Same
    BY <1>2, <1>t
    DEF ConsumerStep, ConsumerPop, ConsumerMiss, ConsumerTimeout, CheckStop, Decrypt,
        ConsumerPush, ArrivedProducers, ArrivedConsumers, Recorded, Reported, Arrived,
        Thread
  <1>3. ASSUME NEW t \in Thread,
               CountDownReturns(t) \/ LockResults(t) \/ LeaveResults(t)
        PROVE  Same
    BY <1>3, <1>t
    DEF CountDownReturns, LockResults, LeaveResults,
        ArrivedProducers, ArrivedConsumers, Recorded, Reported, Arrived, Thread
  <1>4. ASSUME NEW p \in Producer, CountDown(p) PROVE Counts'
    <2>1. /\ p \notin ArrivedProducers /\ ArrivedProducers' = ArrivedProducers \cup {p}
          /\ ArrivedConsumers' = ArrivedConsumers
          /\ Recorded' = Recorded /\ Reported' = Reported
      BY <1>4, <1>t
      DEF CountDown, ArrivedProducers, ArrivedConsumers, Recorded, Reported, Arrived,
          Thread
    <2>2. left' = [left EXCEPT !["aec"] = @ - 1] /\ results' = results
      BY <1>4 DEF CountDown, LatchOf
    <2>3. Cardinality(ArrivedProducers') = Cardinality(ArrivedProducers) + 1
      BY <2>1, SetsFinite, FS_AddElement
    <2> QED
      BY <1>t, <2>1, <2>2, <2>3, SetsFinite DEF Counts, Latch
  <1>5. ASSUME NEW c \in Consumer, CountDown(c) PROVE Counts'
    <2>1. /\ c \notin ArrivedConsumers /\ ArrivedConsumers' = ArrivedConsumers \cup {c}
          /\ ArrivedProducers' = ArrivedProducers
          /\ Recorded' = Recorded /\ Reported' = Reported
      BY <1>5, <1>t
      DEF CountDown, ArrivedProducers, ArrivedConsumers, Recorded, Reported, Arrived,
          Thread
    <2>2. left' = [left EXCEPT !["adc"] = @ - 1] /\ results' = results
      BY <1>5, <1>t DEF CountDown, LatchOf
    <2>3. Cardinality(ArrivedConsumers') = Cardinality(ArrivedConsumers) + 1
      BY <2>1, SetsFinite, FS_AddElement
    <2> QED
      BY <1>t, <2>1, <2>2, <2>3, SetsFinite DEF Counts, Latch
  <1>6. ASSUME NEW t \in Thread, PushBack(t) PROVE Counts'
    <2>1. /\ ArrivedProducers' = ArrivedProducers /\ ArrivedConsumers' = ArrivedConsumers
          /\ Reported' = Reported /\ left' = left
          /\ t \notin Recorded /\ Recorded' = Recorded \cup {t}
      BY <1>6, <1>t
      DEF PushBack, ArrivedProducers, ArrivedConsumers, Recorded, Reported, Arrived, Thread
    <2>2. results' = Append(results, t)
      BY <1>6 DEF PushBack
    <2>3. Len(results') = Len(results) + 1 /\ Range(results') = Range(results) \cup {t}
      BY <1>t, <2>2, AppendProperties, AppendRange
    <2>4. Cardinality(Recorded') = Cardinality(Recorded) + 1
      BY <2>1, SetsFinite, FS_AddElement
    <2> QED
      BY <2>1, <2>3, <2>4 DEF Counts
  <1>7. ASSUME NEW t \in Thread, CountResult(t) PROVE Counts'
    <2>1. /\ ArrivedProducers' = ArrivedProducers /\ ArrivedConsumers' = ArrivedConsumers
          /\ Recorded' = Recorded
          /\ t \notin Reported /\ Reported' = Reported \cup {t}
      BY <1>7, <1>t
      DEF CountResult, ArrivedProducers, ArrivedConsumers, Recorded, Reported, Arrived,
          Thread
    <2>2. left' = [left EXCEPT !["result"] = @ - 1] /\ results' = results
      BY <1>7 DEF CountResult
    <2>3. Cardinality(Reported') = Cardinality(Reported) + 1
      BY <2>1, SetsFinite, FS_AddElement
    <2> QED
      BY <1>t, <2>1, <2>2, <2>3, SetsFinite DEF Counts, Latch
  <1>8. ASSUME NEW t \in Thread, StartThread(t) PROVE Same
    BY <1>8, <1>t
    DEF StartThread, ArrivedProducers, ArrivedConsumers, Recorded, Reported, Arrived, Thread
  <1>9. CASE \/ \E c \in Consumer : Stop(c)
             \/ ProducersFinished \/ ConsumersFinished \/ ReadResults
             \/ DestroyProducerLatch \/ JoinProducersDestroyConsumerLatch
             \/ JoinConsumersDestroyResult \/ UNCHANGED vars
    <2>1. pc' = pc /\ left' = left /\ results' = results
      BY <1>9
      DEF Stop, ProducersFinished, ConsumersFinished, ReadResults, DestroyProducerLatch,
          JoinProducersDestroyConsumerLatch, JoinConsumersDestroyResult, vars
    <2> QED
      BY <2>1, SameCounts DEF ArrivedProducers, ArrivedConsumers, Recorded, Reported
  <1> HIDE DEF Same
  <1> QED
    BY <1>s, <1>1, <1>2, <1>3, <1>4, <1>5, <1>6, <1>7, <1>8, <1>9
    DEF Next, MainStep, ThreadStep, EndStep, Thread

LEMMA NextStages == Typed /\ Counts /\ Stages /\ [Next]_vars => Stages'
  <1> SUFFICES ASSUME Typed, Counts, Stages, [Next]_vars PROVE Stages'
    OBVIOUS
  <1>t. pc \in [Thread -> Place] /\ stop \in [Consumer -> BOOLEAN]
    BY DEF Typed, TypeOK
  <1> USE <1>t DEF Stages, Arrived, Thread
  <1>1. ASSUME NEW p \in Producer, ProducerStep(p) PROVE Stages'
    BY <1>1
    DEF ProducerStep, ProducerPop, Encrypt, SetRef, ProducerPush, ProducerFinish
  <1>2. ASSUME NEW c \in Consumer, ConsumerStep(c) PROVE Stages'
    BY <1>2
    DEF ConsumerStep, ConsumerPop, ConsumerMiss, ConsumerTimeout, CheckStop, Decrypt,
        ConsumerPush
  <1>3. ASSUME NEW t \in Thread, EndStep(t) PROVE Stages'
    <2>1. CASE CountDown(t) \/ CountDownReturns(t) \/ LockResults(t)
      BY <2>1 DEF CountDown, CountDownReturns, LockResults
    <2>2. CASE PushBack(t) \/ CountResult(t) \/ LeaveResults(t)
      BY <2>2 DEF PushBack, CountResult, LeaveResults
    <2> QED
      BY <1>3, <2>1, <2>2 DEF EndStep
  <1>4. ASSUME NEW t \in Thread, StartThread(t) PROVE Stages'
    BY <1>4 DEF StartThread
  <1>5. ASSUME NEW c \in Consumer, Stop(c) PROVE Stages'
    BY <1>5 DEF Stop
  <1>6. CASE ProducersFinished
    BY <1>6, ZeroMeansAll DEF ProducersFinished, ArrivedProducers
  <1>7. CASE ConsumersFinished
    BY <1>7, ZeroMeansAll DEF ConsumersFinished, ArrivedConsumers
  <1>8. CASE ReadResults
    BY <1>8, ZeroMeansAll DEF ReadResults, Reported
  <1>9. CASE \/ DestroyProducerLatch \/ JoinProducersDestroyConsumerLatch
             \/ JoinConsumersDestroyResult
    BY <1>9
    DEF DestroyProducerLatch, JoinProducersDestroyConsumerLatch,
        JoinConsumersDestroyResult
  <1>10. CASE UNCHANGED vars
    BY <1>10 DEF vars
  <1> QED
    BY <1>1, <1>2, <1>3, <1>4, <1>5, <1>6, <1>7, <1>8, <1>9, <1>10
    DEF Next, MainStep, ThreadStep

LEMMA AlwaysStages == Spec => [](Typed /\ Counts /\ Stages)
  BY AlwaysTyped, InitCounts, NextCounts, NextStages, PTL DEF Spec

\* A consumer is told to stop only after the last packet has been pushed.
THEOREM StopsAfterProducers == Spec => []StopAfterProducers
  <1>1. Typed /\ Stages => StopAfterProducers
    BY DEF Typed, Places, Stages, StopAfterProducers, Ending, Arrived
  <1> QED
    BY <1>1, AlwaysStages, PTL

\* result.wait() returns when every thread has added its result, once.
THEOREM AllResults == Spec => []ResultsComplete
  <1>1. Counts /\ Stages => ResultsComplete
    <2> SUFFICES ASSUME Counts, Stages,
                        main \in {"read", "joinProducers", "joinConsumers", "returned"}
                 PROVE  /\ Range(results) = Thread /\ Len(results) = Workers
                        /\ \A t \in Thread : pc[t] \in {"leaveResult", "done"}
      BY DEF ResultsComplete
    <2>1. Recorded = Thread
      BY DEF Stages, Recorded
    <2> QED
      BY <2>1, Threads DEF Counts, Stages
  <1> QED
    BY <1>1, AlwaysStages, PTL

\* Nothing is used after main has destroyed it: the latches die before the
\* threads are joined, but no thread still needs them.
THEOREM NothingUsedAfterItsEnd == Spec => []NoUseAfterDestruction
  <1>1. Stages => NoUseAfterDestruction
    BY DEF Stages, NoUseAfterDestruction, NeedsLatch, Thread
  <1> QED
    BY <1>1, AlwaysStages, PTL
-----------------------------------------------------------------------------
(* The QueueItems.                                                           *)

Owned == OneOwner /\ NothingLost

LEMMA InitOwned == Init => Owned
  <1> SUFFICES ASSUME Init PROVE Owned
    OBVIOUS
  <1>1. Range(toProducer) = Item /\ IsInjective(toProducer)
    BY DEF Init, Range, IsInjective, Item
  <1>2. Range(toConsumer) = {} /\ IsInjective(toConsumer)
    BY DEF Init, Range, IsInjective
  <1>3. \A t \in Thread : cur[t] = NoItem
    BY DEF Init
  <1> QED
    BY <1>1, <1>2, <1>3 DEF Owned, OneOwner, NothingLost, Item

\* A step that touches neither the queues nor who holds what.
LEMMA SameOwned ==
  ASSUME Owned, UNCHANGED <<toProducer, toConsumer, cur>>
  PROVE  Owned'
  BY DEF Owned, OneOwner, NothingLost

\* Taking the head of either queue (steps 1 and 2) and appending to either
\* (steps 3 and 4) keep every item at one place.
LEMMA NextOwned == Typed /\ Owned /\ [Next]_vars => Owned'
  <1> SUFFICES ASSUME Typed, Owned, [Next]_vars PROVE Owned'
    OBVIOUS
  <1>t. /\ toProducer \in Seq(Item) /\ toConsumer \in Seq(Item)
        /\ cur \in [Thread -> Item \cup {NoItem}] /\ NoItem \notin Item
    BY DEF Typed, TypeOK, Item
  <1>o. /\ IsInjective(toProducer) /\ IsInjective(toConsumer)
        /\ Range(toProducer) \cap Range(toConsumer) = {}
        /\ \A t \in Thread : cur[t] \notin Range(toProducer) \cup Range(toConsumer)
        /\ \A t, u \in Thread : t # u /\ cur[t] # NoItem => cur[t] # cur[u]
        /\ \A i \in Item : \/ i \in Range(toProducer) \/ i \in Range(toConsumer)
                           \/ \E t \in Thread : cur[t] = i
    BY <1>t DEF Owned, OneOwner, NothingLost, Range
  <1>n. ASSUME /\ IsInjective(toProducer') /\ IsInjective(toConsumer')
               /\ Range(toProducer') \cap Range(toConsumer') = {}
               /\ cur' \in [Thread -> Item \cup {NoItem}]
               /\ \A t \in Thread : cur'[t] \notin Range(toProducer') \cup Range(toConsumer')
               /\ \A t, u \in Thread : t # u /\ cur'[t] # NoItem => cur'[t] # cur'[u]
               /\ \A i \in Item : \/ i \in Range(toProducer') \/ i \in Range(toConsumer')
                                  \/ \E t \in Thread : cur'[t] = i
        PROVE  Owned'
    BY <1>n DEF Owned, OneOwner, NothingLost, Range
  <1>1. ASSUME NEW t \in Thread, toProducer # <<>>, cur[t] = NoItem,
               cur' = [cur EXCEPT ![t] = Head(toProducer)],
               toProducer' = Tail(toProducer), toConsumer' = toConsumer
        PROVE  Owned'
    <2> DEFINE h == Head(toProducer)
    <2>1. /\ h \in Item /\ Range(toProducer) = Range(toProducer') \cup {h}
          /\ IsInjective(toProducer') /\ h \notin Range(toProducer')
      BY <1>1, <1>t, <1>o, TailRange, HeadTailProperties
    <2> HIDE DEF h
    <2>2. cur' = [cur EXCEPT ![t] = h]
      BY <1>1 DEF h
    <2>3. \A i \in Item : \/ i \in Range(toProducer') \/ i \in Range(toConsumer')
                          \/ \E u \in Thread : cur'[u] = i
      BY <1>1, <1>t, <1>o, <2>1, <2>2
    <2> QED
      BY <1>1, <1>t, <1>o, <1>n, <2>1, <2>2, <2>3
  <1>2. ASSUME NEW t \in Thread, toConsumer # <<>>, cur[t] = NoItem,
               cur' = [cur EXCEPT ![t] = Head(toConsumer)],
               toConsumer' = Tail(toConsumer), toProducer' = toProducer
        PROVE  Owned'
    <2> DEFINE h == Head(toConsumer)
    <2>1. /\ h \in Item /\ Range(toConsumer) = Range(toConsumer') \cup {h}
          /\ IsInjective(toConsumer') /\ h \notin Range(toConsumer')
      BY <1>2, <1>t, <1>o, TailRange, HeadTailProperties
    <2> HIDE DEF h
    <2>2. cur' = [cur EXCEPT ![t] = h]
      BY <1>2 DEF h
    <2>3. \A i \in Item : \/ i \in Range(toProducer') \/ i \in Range(toConsumer')
                          \/ \E u \in Thread : cur'[u] = i
      BY <1>2, <1>t, <1>o, <2>1, <2>2
    <2> QED
      BY <1>2, <1>t, <1>o, <1>n, <2>1, <2>2, <2>3
  <1>3. ASSUME NEW t \in Thread, cur[t] # NoItem,
               cur' = [cur EXCEPT ![t] = NoItem],
               toConsumer' = Append(toConsumer, cur[t]), toProducer' = toProducer
        PROVE  Owned'
    <2>1. /\ cur[t] \in Item /\ Range(toConsumer') = Range(toConsumer) \cup {cur[t]}
          /\ IsInjective(toConsumer')
      BY <1>3, <1>t, <1>o, AppendRange
    <2>2. Range(toProducer) \subseteq Item /\ Range(toConsumer) \subseteq Item
      BY <1>t, RangeOfSeq
    <2> QED
      BY <1>3, <1>t, <1>o, <1>n, <2>1, <2>2
  <1>4. ASSUME NEW t \in Thread, cur[t] # NoItem,
               cur' = [cur EXCEPT ![t] = NoItem],
               toProducer' = Append(toProducer, cur[t]), toConsumer' = toConsumer
        PROVE  Owned'
    <2>1. /\ cur[t] \in Item /\ Range(toProducer') = Range(toProducer) \cup {cur[t]}
          /\ IsInjective(toProducer')
      BY <1>4, <1>t, <1>o, AppendRange
    <2>2. Range(toProducer) \subseteq Item /\ Range(toConsumer) \subseteq Item
      BY <1>t, RangeOfSeq
    <2> QED
      BY <1>4, <1>t, <1>o, <1>n, <2>1, <2>2
  <1>5. ASSUME NEW p \in Producer, ProducerStep(p) PROVE Owned'
    <2>1. CASE ProducerPop(p)
      BY <1>1, <2>1 DEF ProducerPop, Typed, Places, Producing, Thread
    <2>2. CASE ProducerPush(p)
      BY <1>3, <2>2 DEF ProducerPush, Typed, Places, Producing, Thread
    <2>3. CASE Encrypt(p) \/ SetRef(p) \/ ProducerFinish(p)
      BY <2>3, SameOwned DEF Encrypt, SetRef, ProducerFinish
    <2> QED
      BY <1>5, <2>1, <2>2, <2>3 DEF ProducerStep
  <1>6. ASSUME NEW c \in Consumer, ConsumerStep(c) PROVE Owned'
    <2>1. CASE ConsumerPop(c)
      BY <1>2, <2>1 DEF ConsumerPop, Typed, Places, Thread
    <2>2. CASE ConsumerPush(c)
      BY <1>4, <2>2 DEF ConsumerPush, Typed, Places, Thread
    <2>3. CASE ConsumerTimeout(c)
      <3>1. cur' = cur
        BY <1>t, <2>3 DEF ConsumerTimeout, Typed, Places, Thread
      <3> QED
        BY <2>3, <3>1, SameOwned DEF ConsumerTimeout
    <2>4. CASE ConsumerMiss(c) \/ CheckStop(c) \/ Decrypt(c)
      BY <2>4, SameOwned DEF ConsumerMiss, CheckStop, Decrypt
    <2> QED
      BY <1>6, <2>1, <2>2, <2>3, <2>4 DEF ConsumerStep
  <1>7. ASSUME NEW t \in Thread, EndStep(t) \/ StartThread(t) PROVE Owned'
    BY <1>7, SameOwned
    DEF EndStep, CountDown, CountDownReturns, LockResults, PushBack,
        CountResult, LeaveResults, StartThread
  <1>8. CASE \/ \E c \in Consumer : Stop(c)
             \/ ProducersFinished \/ ConsumersFinished \/ ReadResults
             \/ DestroyProducerLatch \/ JoinProducersDestroyConsumerLatch
             \/ JoinConsumersDestroyResult \/ UNCHANGED vars
    BY <1>8, SameOwned
    DEF Stop, ProducersFinished, ConsumersFinished, ReadResults, DestroyProducerLatch,
        JoinProducersDestroyConsumerLatch, JoinConsumersDestroyResult, vars
  <1> QED
    BY <1>5, <1>6, <1>7, <1>8 DEF Next, MainStep, ThreadStep

LEMMA AlwaysOwned == Spec => [](Typed /\ Owned)
  BY AlwaysTyped, InitOwned, NextOwned, PTL DEF Spec

\* No two threads ever hold one QueueItem, and none is in a queue as well:
\* threads read and write the items without any lock.
THEOREM ExclusiveItems == Spec => []OneOwner
  BY AlwaysOwned, PTL DEF Owned

\* No QueueItem is ever lost, an abandoned one included.
THEOREM AllItemsKept == Spec => []NothingLost
  BY AlwaysOwned, PTL DEF Owned
-----------------------------------------------------------------------------
(* The contents of the QueueItems.                                           *)

\* An item is complete when it has been encrypted and its reference is set.
Complete(i) == data[i] = ref[i] /\ data[i] # NoPacket

Filled ==
  /\ \A i \in Range(toConsumer) : Complete(i)
  /\ \A c \in Consumer :
       pc[c] \in {"check", "decrypt"} /\ cur[c] # NoItem => Complete(cur[c])
  /\ \A p \in Producer :
       /\ pc[p] \in {"setRef", "push"} => data[cur[p]] = <<p, made[p]>>
       /\ pc[p] = "push" => ref[cur[p]] = <<p, made[p]>>

\* A step that leaves the consumers' queue, the items and the packets alone and
\* moves no thread to a place that Filled speaks of.
LEMMA SameFilled ==
  ASSUME Filled, UNCHANGED <<toConsumer, cur, made, data, ref>>,
         \A c \in Consumer : pc'[c] \in {"check", "decrypt"} /\ cur[c] # NoItem =>
                               pc[c] \in {"check", "decrypt"},
         \A p \in Producer : pc'[p] \in {"setRef", "push"} => pc'[p] = pc[p]
  PROVE  Filled'
  BY DEF Filled, Complete

LEMMA NextFilled == Typed /\ Owned /\ Filled /\ [Next]_vars => Filled'
  <1> SUFFICES ASSUME Typed, Owned, Filled, [Next]_vars PROVE Filled'
    OBVIOUS
  <1>t. /\ toConsumer \in Seq(Item) /\ pc \in [Thread -> Place]
        /\ cur \in [Thread -> Item \cup {NoItem}]
        /\ made \in [Producer -> 0..Pattern]
        /\ data \in [Item -> Packet \cup {NoPacket}]
        /\ ref \in [Item -> Packet \cup {NoPacket}]
        /\ NoItem \notin Item /\ Producer \cap Consumer = {}
        /\ Range(toConsumer) \subseteq Item
    BY RangeOfSeq DEF Typed, TypeOK, Item
  <1>o. /\ \A t \in Thread : cur[t] \notin Range(toConsumer)
        /\ \A t, u \in Thread : t # u /\ cur[t] # NoItem => cur[t] # cur[u]
    BY DEF Owned, OneOwner
  <1>n. \A p \in Producer : <<p, made[p]>> # NoPacket
    BY <1>t
  <1> USE <1>t DEF Thread
  <1>1. ASSUME NEW p \in Producer, ProducerStep(p) PROVE Filled'
    <2>c. pc[p] \in Producing => cur[p] \in Item
      BY DEF Typed, Places
    <2>1. CASE ProducerPop(p)
      <3>1. /\ \A q \in Producer : pc'[q] \in {"setRef", "push"} => q # p /\ pc'[q] = pc[q]
            /\ \A c \in Consumer : pc'[c] = pc[c] /\ cur'[c] = cur[c]
            /\ \A q \in Producer : q # p => cur'[q] = cur[q]
            /\ UNCHANGED <<toConsumer, made, data, ref>>
        BY <2>1 DEF ProducerPop
      <3> QED
        BY <3>1 DEF Filled, Complete
    \* The producer is the only one that holds the item it writes.
    <2>2. CASE Encrypt(p)
      <3>1. /\ cur[p] \in Item /\ data' = [data EXCEPT ![cur[p]] = <<p, made[p]>>]
            /\ UNCHANGED <<toConsumer, cur, made, ref>>
            /\ pc' = [pc EXCEPT ![p] = "setRef"]
        BY <2>2, <2>c DEF Encrypt, Producing
      <3>2. \A i \in Range(toConsumer) : i # cur[p]
        BY <1>o
      <3>3. \A t \in Thread : t # p /\ cur[t] # NoItem => cur[t] # cur[p]
        BY <1>o
      <3>4. \A i \in Range(toConsumer) : Complete(i)'
        BY <3>1, <3>2 DEF Filled, Complete
      <3>5. \A c \in Consumer :
              pc'[c] \in {"check", "decrypt"} /\ cur'[c] # NoItem => Complete(cur[c])'
        BY <3>1, <3>3 DEF Filled, Complete
      <3>6. \A q \in Producer :
              /\ pc'[q] \in {"setRef", "push"} => data'[cur'[q]] = <<q, made'[q]>>
              /\ pc'[q] = "push" => ref'[cur'[q]] = <<q, made'[q]>>
        <4> SUFFICES ASSUME NEW q \in Producer, pc'[q] \in {"setRef", "push"}
                     PROVE  /\ data'[cur'[q]] = <<q, made'[q]>>
                            /\ pc'[q] = "push" => ref'[cur'[q]] = <<q, made'[q]>>
          OBVIOUS
        <4>1. CASE q = p
          BY <3>1, <4>1
        <4>2. CASE q # p
          <5>1. pc[q] = pc'[q] /\ cur[q] \in Item
            BY <3>1, <4>2 DEF Typed, Places, Producing
          <5>2. data'[cur[q]] = data[cur[q]]
            BY <3>1, <3>3, <4>2, <5>1
          <5> QED
            BY <3>1, <5>1, <5>2 DEF Filled
        <4> QED
          BY <4>1, <4>2
      <3> QED
        BY <3>1, <3>4, <3>5, <3>6 DEF Filled, Complete
    <2>3. CASE SetRef(p)
      <3>1. /\ cur[p] \in Item /\ ref' = [ref EXCEPT ![cur[p]] = <<p, made[p]>>]
            /\ UNCHANGED <<toConsumer, cur, made, data>>
            /\ pc[p] = "setRef" /\ pc' = [pc EXCEPT ![p] = "push"]
        BY <2>3, <2>c DEF SetRef, Producing
      <3>2. \A i \in Range(toConsumer) : i # cur[p]
        BY <1>o
      <3>3. \A t \in Thread : t # p /\ cur[t] # NoItem => cur[t] # cur[p]
        BY <1>o
      <3>4. \A i \in Range(toConsumer) : Complete(i)'
        BY <3>1, <3>2 DEF Filled, Complete
      <3>5. \A c \in Consumer :
              pc'[c] \in {"check", "decrypt"} /\ cur'[c] # NoItem => Complete(cur[c])'
        BY <3>1, <3>3 DEF Filled, Complete
      <3>6. \A q \in Producer :
              /\ pc'[q] \in {"setRef", "push"} => data'[cur'[q]] = <<q, made'[q]>>
              /\ pc'[q] = "push" => ref'[cur'[q]] = <<q, made'[q]>>
        <4> SUFFICES ASSUME NEW q \in Producer, pc'[q] \in {"setRef", "push"}
                     PROVE  /\ data'[cur'[q]] = <<q, made'[q]>>
                            /\ pc'[q] = "push" => ref'[cur'[q]] = <<q, made'[q]>>
          OBVIOUS
        <4>1. CASE q = p
          BY <3>1, <4>1 DEF Filled
        <4>2. CASE q # p
          <5>1. pc[q] = pc'[q] /\ cur[q] \in Item
            BY <3>1, <4>2 DEF Typed, Places, Producing
          <5>2. ref'[cur[q]] = ref[cur[q]]
            BY <3>1, <3>3, <4>2, <5>1
          <5> QED
            BY <3>1, <5>1, <5>2 DEF Filled
        <4> QED
          BY <4>1, <4>2
      <3> QED
        BY <3>1, <3>4, <3>5, <3>6 DEF Filled, Complete
    <2>4. CASE ProducerPush(p)
      <3>1. /\ cur[p] \in Item /\ pc[p] = "push"
            /\ toConsumer' = Append(toConsumer, cur[p])
            /\ pc' = [pc EXCEPT ![p] = "pop"] /\ cur' = [cur EXCEPT ![p] = NoItem]
            /\ made' = [made EXCEPT ![p] = @ + 1]
            /\ UNCHANGED <<data, ref>>
        BY <2>4, <2>c DEF ProducerPush, Producing
      <3>2. Complete(cur[p])
        BY <3>1, <1>n DEF Filled, Complete
      <3>3. Range(toConsumer') = Range(toConsumer) \cup {cur[p]}
        BY <3>1, AppendRange
      <3> QED
        BY <3>1, <3>2, <3>3 DEF Filled, Complete
    <2>5. CASE ProducerFinish(p)
      BY <2>5, SameFilled DEF ProducerFinish
    <2> QED
      BY <1>1, <2>1, <2>2, <2>3, <2>4, <2>5 DEF ProducerStep
  <1>2. ASSUME NEW c \in Consumer, ConsumerStep(c) PROVE Filled'
    <2>1. CASE ConsumerPop(c)
      <3>1. /\ Head(toConsumer) \in Item
            /\ Range(toConsumer) = Range(toConsumer') \cup {Head(toConsumer)}
        BY <2>1, TailRange, HeadTailProperties DEF ConsumerPop
      <3>2. /\ pc' = [pc EXCEPT ![c] = "check"]
            /\ cur' = [cur EXCEPT ![c] = Head(toConsumer)]
            /\ UNCHANGED <<made, data, ref>>
        BY <2>1 DEF ConsumerPop
      <3> QED
        BY <3>1, <3>2 DEF Filled, Complete
    <2>2. CASE ConsumerPush(c)
      BY <2>2 DEF ConsumerPush, Filled, Complete
    <2>3. CASE ConsumerTimeout(c)
      BY <2>3 DEF ConsumerTimeout, Filled, Complete
    <2>4. CASE ConsumerMiss(c) \/ CheckStop(c) \/ Decrypt(c)
      BY <2>4, SameFilled DEF ConsumerMiss, CheckStop, Decrypt
    <2> QED
      BY <1>2, <2>1, <2>2, <2>3, <2>4 DEF ConsumerStep
  <1>3. ASSUME NEW t \in Thread, EndStep(t) \/ StartThread(t) PROVE Filled'
    BY <1>3, SameFilled
    DEF EndStep, CountDown, CountDownReturns, LockResults, PushBack,
        CountResult, LeaveResults, StartThread
  <1>4. CASE \/ \E c \in Consumer : Stop(c)
             \/ ProducersFinished \/ ConsumersFinished \/ ReadResults
             \/ DestroyProducerLatch \/ JoinProducersDestroyConsumerLatch
             \/ JoinConsumersDestroyResult \/ UNCHANGED vars
    BY <1>4, SameFilled
    DEF Stop, ProducersFinished, ConsumersFinished, ReadResults, DestroyProducerLatch,
        JoinProducersDestroyConsumerLatch, JoinConsumersDestroyResult, vars
  <1> QED
    BY <1>1, <1>2, <1>3, <1>4 DEF Next, MainStep, ThreadStep

\* A consumer compares what it decrypts with the packet that was encrypted into
\* the same item, never with a reference of another round.
THEOREM ComparesTheRightPacket == Spec => []DecryptsItsReference
  <1>1. Init => Filled
    BY DEF Init, Filled, Range, Thread
  <1>2. Typed /\ Filled => DecryptsItsReference
    BY DEF Typed, Places, Filled, Complete, DecryptsItsReference
  <1> QED
    BY <1>1, <1>2, AlwaysOwned, NextFilled, PTL DEF Spec
-----------------------------------------------------------------------------
(* What becomes of the packets.                                              *)

\* The items whose packets are in flight
Flying ==
  Range(toConsumer) \cup {cur[c] : c \in {d \in Consumer : cur[d] # NoItem /\ pc[d] # "push"}}

Pushed(pkt) == pkt \in Packet /\ pkt[2] < made[pkt[1]]

\* Two items in flight hold different packets, which are pushed and not verified,
\* and every packet pushed is in one of them or verified.
Tracked ==
  /\ \A i, j \in Flying : data[i] = data[j] => i = j
  /\ \A i \in Flying : Pushed(data[i]) /\ data[i] \notin verified
  /\ \A pkt \in verified : Pushed(pkt)
  /\ \A pkt \in Packet : Pushed(pkt) => pkt \in verified \/ \E i \in Flying : data[i] = pkt

LEMMA TrackedMeansAccounted == Tracked => InFlightOrVerified
  <1>1. InFlight = {data[i] : i \in Flying}
    BY DEF InFlight, Flying
  <1> QED
    BY <1>1 DEF Tracked, Pushed, InFlightOrVerified

LEMMA SameTracked ==
  ASSUME Tracked, Flying' = Flying, UNCHANGED <<made, verified>>,
         \A i \in Flying : data'[i] = data[i]
  PROVE  Tracked'
  BY DEF Tracked, Pushed

LEMMA NextTracked == Typed /\ Owned /\ Filled /\ Tracked /\ [Next]_vars => Tracked'
  <1> SUFFICES ASSUME Typed, Owned, Filled, Tracked, [Next]_vars PROVE Tracked'
    OBVIOUS
  <1>t. /\ toConsumer \in Seq(Item) /\ pc \in [Thread -> Place]
        /\ cur \in [Thread -> Item \cup {NoItem}]
        /\ made \in [Producer -> 0..Pattern]
        /\ data \in [Item -> Packet \cup {NoPacket}]
        /\ NoItem \notin Item /\ Producer \cap Consumer = {}
        /\ Range(toConsumer) \subseteq Item
    BY RangeOfSeq DEF Typed, TypeOK, Item
  <1>o. /\ \A t \in Thread : cur[t] \notin Range(toConsumer)
        /\ \A t, u \in Thread : t # u /\ cur[t] # NoItem => cur[t] # cur[u]
    BY DEF Owned, OneOwner
  <1> USE <1>t DEF Thread
  \* An item a producer holds is not in flight.
  <1>f. \A p \in Producer : cur[p] \notin Flying
    BY <1>o DEF Flying
  <1>1. ASSUME NEW p \in Producer, ProducerStep(p) PROVE Tracked'
    <2>c. pc[p] \in Producing => cur[p] \in Item /\ made[p] < Pattern
      BY DEF Typed, Places
    <2>1. CASE ProducerPop(p)
      <3>1. Flying' = Flying
        BY <2>1 DEF ProducerPop, Flying
      <3> QED
        BY <2>1, <3>1, SameTracked DEF ProducerPop
    <2>2. CASE Encrypt(p)
      <3>1. Flying' = Flying
        BY <2>2 DEF Encrypt, Flying
      <3>2. \A i \in Flying : data'[i] = data[i]
        BY <1>f, <2>2 DEF Encrypt, Flying
      <3> QED
        BY <2>2, <3>1, <3>2, SameTracked DEF Encrypt
    <2>3. CASE SetRef(p) \/ ProducerFinish(p)
      <3>1. Flying' = Flying
        BY <2>3 DEF SetRef, ProducerFinish, Flying
      <3> QED
        BY <2>3, <3>1, SameTracked DEF SetRef, ProducerFinish
    \* The packet pushed is the next of its producer, so that no other is like it.
    <2>4. CASE ProducerPush(p)
      <3> DEFINE e == cur[p]
                 k == <<p, made[p]>>
      <3>1. /\ e \in Item /\ data[e] = k /\ k \in Packet /\ e \notin Flying
            /\ made' = [made EXCEPT ![p] = @ + 1] /\ made[p] < Pattern
            /\ UNCHANGED <<data, verified>>
        BY <1>f, <2>4, <2>c DEF ProducerPush, Producing, Filled, Packet
      <3>2. Flying' = Flying \cup {e}
        <4>1. Range(toConsumer') = Range(toConsumer) \cup {e}
          BY <2>4, <3>1, AppendRange DEF ProducerPush
        <4>2. \A c \in Consumer : cur'[c] = cur[c] /\ pc'[c] = pc[c]
          BY <2>4 DEF ProducerPush
        <4> QED
          BY <4>1, <4>2 DEF Flying
      <3> HIDE DEF e
      <3>3. ~Pushed(k) /\ \A pkt \in Packet : Pushed(pkt)' <=> Pushed(pkt) \/ pkt = k
        BY <3>1 DEF Pushed, Packet
      <3> HIDE DEF k
      <3>4. \A i \in Flying : data[i] # k /\ data[i] \in Packet
        BY <3>3 DEF Tracked, Pushed
      <3>5. k \notin verified /\ \A pkt \in verified : pkt \in Packet
        BY <3>3 DEF Tracked, Pushed
      <3>6. \A i, j \in Flying' : data'[i] = data'[j] => i = j
        BY <3>1, <3>2, <3>4 DEF Tracked
      <3>7. \A i \in Flying' : Pushed(data[i])' /\ data[i] \notin verified
        BY <3>1, <3>2, <3>3, <3>4, <3>5 DEF Tracked
      <3>8. \A pkt \in verified : Pushed(pkt)'
        BY <3>3, <3>5 DEF Tracked
      <3>9. \A pkt \in Packet :
              Pushed(pkt)' => pkt \in verified \/ \E i \in Flying' : data[i] = pkt
        BY <3>1, <3>2, <3>3 DEF Tracked
      <3> QED
        BY <3>1, <3>6, <3>7, <3>8, <3>9 DEF Tracked, Pushed
    <2> QED
      BY <1>1, <2>1, <2>2, <2>3, <2>4 DEF ProducerStep
  <1>2. ASSUME NEW c \in Consumer, ConsumerStep(c) PROVE Tracked'
    <2>1. CASE ConsumerPop(c)
      <3>1. /\ Head(toConsumer) \in Item
            /\ Range(toConsumer) = Range(toConsumer') \cup {Head(toConsumer)}
        BY <2>1, TailRange, HeadTailProperties DEF ConsumerPop
      <3>2. /\ cur[c] = NoItem /\ cur'[c] = Head(toConsumer) /\ pc'[c] = "check"
            /\ \A d \in Consumer : d # c => cur'[d] = cur[d] /\ pc'[d] = pc[d]
        BY <2>1 DEF ConsumerPop, Typed, Places
      <3>3. Flying' = Flying
        BY <3>1, <3>2 DEF Flying
      <3> QED
        BY <2>1, <3>3, SameTracked DEF ConsumerPop
    \* The packet verified leaves the flight: no other item holds it.
    <2>2. CASE Decrypt(c)
      <3> DEFINE e == cur[c]
      <3>1. /\ pc[c] = "decrypt" /\ e # NoItem /\ e \in Flying
            /\ verified' = verified \cup {data[e]} /\ UNCHANGED <<data, made>>
        BY <2>2 DEF Decrypt, Typed, Places, Flying
      <3>2. Flying' = Flying \ {e}
        <4>1. /\ cur' = cur /\ toConsumer' = toConsumer /\ pc'[c] = "push"
              /\ \A d \in Consumer : d # c => pc'[d] = pc[d]
          BY <2>2 DEF Decrypt
        <4>2. \A d \in Consumer : d # c => cur[d] # e
          BY <1>o, <3>1
        <4>3. e \notin Range(toConsumer)
          BY <1>o
        <4>4. \A i : i \in Flying <=>
                \/ i \in Range(toConsumer)
                \/ \E d \in Consumer : cur[d] # NoItem /\ pc[d] # "push" /\ i = cur[d]
          BY DEF Flying
        <4>5. \A i : i \in Flying' <=>
                \/ i \in Range(toConsumer)
                \/ \E d \in Consumer : cur[d] # NoItem /\ pc'[d] # "push" /\ i = cur[d]
          BY <4>1 DEF Flying
        <4>6. \A i : i \in Flying' <=> i \in Flying /\ i # e
          BY <4>1, <4>2, <4>3, <4>4, <4>5
        <4> QED
          BY <4>6
      <3> HIDE DEF e
      <3>3. \A i, j \in Flying' : data'[i] = data'[j] => i = j
        BY <3>1, <3>2 DEF Tracked
      <3>4. \A i \in Flying' : Pushed(data[i]) /\ data[i] \notin verified'
        BY <3>1, <3>2 DEF Tracked
      <3>5. \A pkt \in verified' : Pushed(pkt)
        BY <3>1 DEF Tracked
      <3>6. \A pkt \in Packet :
              Pushed(pkt) => pkt \in verified' \/ \E i \in Flying' : data[i] = pkt
        BY <3>1, <3>2 DEF Tracked
      <3> QED
        BY <3>1, <3>3, <3>4, <3>5, <3>6 DEF Tracked, Pushed
    <2>3. CASE ConsumerPush(c) \/ ConsumerTimeout(c) \/ ConsumerMiss(c) \/ CheckStop(c)
      <3>1. /\ toConsumer' = toConsumer
            /\ \A d \in Consumer : d # c => cur'[d] = cur[d] /\ pc'[d] = pc[d]
            /\ (cur[c] # NoItem /\ pc[c] # "push") <=> (cur'[c] # NoItem /\ pc'[c] # "push")
            /\ cur[c] # NoItem /\ pc[c] # "push" => cur'[c] = cur[c]
        <4>1. \/ pc[c] = "push" /\ cur'[c] = NoItem
              \/ pc[c] # "push" /\ pc'[c] # "push" /\ cur'[c] = cur[c]
          BY <2>3
          DEF ConsumerPush, ConsumerTimeout, ConsumerMiss, CheckStop, Typed, Places
        <4>2. /\ toConsumer' = toConsumer
              /\ \A d \in Consumer : d # c => cur'[d] = cur[d] /\ pc'[d] = pc[d]
          BY <2>3 DEF ConsumerPush, ConsumerTimeout, ConsumerMiss, CheckStop
        <4> QED
          BY <4>1, <4>2
      <3>2. Flying' = Flying
        BY <3>1 DEF Flying
      <3> QED
        BY <2>3, <3>2, SameTracked DEF ConsumerPush, ConsumerTimeout, ConsumerMiss, CheckStop
    <2> QED
      BY <1>2, <2>1, <2>2, <2>3 DEF ConsumerStep
  <1>3. ASSUME NEW t \in Thread, EndStep(t) \/ StartThread(t) PROVE Tracked'
    <2>1. /\ UNCHANGED <<toConsumer, cur, made, data, verified>>
          /\ \A c \in Consumer : pc[c] = "push" <=> pc'[c] = "push"
      BY <1>3
      DEF EndStep, CountDown, CountDownReturns, LockResults, PushBack, CountResult,
          LeaveResults, StartThread
    <2>2. Flying' = Flying
      BY <2>1 DEF Flying
    <2> QED
      BY <2>1, <2>2, SameTracked
  <1>4. CASE \/ \E c \in Consumer : Stop(c)
             \/ ProducersFinished \/ ConsumersFinished \/ ReadResults
             \/ DestroyProducerLatch \/ JoinProducersDestroyConsumerLatch
             \/ JoinConsumersDestroyResult \/ UNCHANGED vars
    <2>1. UNCHANGED <<toConsumer, cur, pc, made, data, verified>>
      BY <1>4
      DEF Stop, ProducersFinished, ConsumersFinished, ReadResults, DestroyProducerLatch,
          JoinProducersDestroyConsumerLatch, JoinConsumersDestroyResult, vars
    <2>2. Flying' = Flying
      BY <2>1 DEF Flying
    <2> QED
      BY <2>1, <2>2, SameTracked
  <1> QED
    BY <1>1, <1>2, <1>3, <1>4 DEF Next, MainStep, ThreadStep

\* Every packet pushed is in flight or verified and not both, so that none is
\* lost and none verified twice, however many threads share the items.
THEOREM PacketsAccounted == Spec => []InFlightOrVerified
  <1>1. Init => Filled /\ Tracked
    BY DEF Init, Filled, Tracked, Flying, Pushed, Packet, Range, Thread
  <1> QED
    BY <1>1, TrackedMeansAccounted, AlwaysOwned, NextFilled, NextTracked, PTL DEF Spec
=============================================================================
