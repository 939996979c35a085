------------------------------ MODULE EnDecrypt ------------------------------
(***************************************************************************)
(* TestEnDecryption::endecrypt (src/TestEnDecryption.cc): encrypting       *)
(* producers and decrypting consumers circulate a fixed array of           *)
(* QueueItems through two BlockingQueues, and main starts them, waits for  *)
(* the producers, stops the consumers, waits for all the results and       *)
(* destroys everything.                                                    *)
(*                                                                         *)
(* The queues are used through the steps of AtomicQueue, which             *)
(* BlockingQueue implements.  The latches are used through two steps, the  *)
(* one that decrements (and at zero opens) and the return, because main    *)
(* may run between them.  Packets are <<p, n>>, the n-th pattern of        *)
(* producer p; encryption is invertible and otherwise abstract.            *)
(***************************************************************************)
EXTENDS Integers, Sequences, FiniteSets, Functions

CONSTANTS
  Producer,   \* the ActionEncryptProducers
  Consumer,   \* the ActionDecryptConsumers
  Workers,    \* workers: the results that main waits for; without any, main
              \* would not have got here (NothingWithoutWorkers)
  NItems,     \* length of queueItems (128 in the code)
  Pattern,    \* packets per producer
  LogParts,   \* progress is logged LogParts times (10 in the code); with fewer
              \* packets the divisor pattern/10 is zero and the process dies of
              \* its first message, which this module leaves out
  NoItem,     \* no QueueItem
  NoPacket    \* contents of a QueueItem nobody has filled yet

Thread == Producer \cup Consumer

ASSUME EnDecryptAssumption ==
  /\ IsFiniteSet(Producer) /\ Cardinality(Producer) = Workers \div 2
  /\ IsFiniteSet(Consumer) /\ Cardinality(Consumer) = Workers \div 2
  /\ Producer \cap Consumer = {}
  /\ Workers \in Nat \ {0} /\ Workers % 2 = 0
  /\ NItems \in Nat \ {0}
  /\ LogParts \in Nat \ {0}
  /\ Pattern \in Nat /\ Pattern >= LogParts
  /\ NoItem \notin 1..NItems
  /\ NoPacket \notin Producer \X Nat

Item == 1..NItems
Packet == Producer \X (0..Pattern)

VARIABLES
  main,        \* where main is
  toProducer,  \* the queue of empty QueueItems
  toConsumer,  \* the queue of filled QueueItems
  pc,          \* pc[t]: where thread t is
  cur,         \* cur[t]: the QueueItem t has popped (item, qi), or NoItem
  made,        \* made[p]: packets p has pushed (i)
  stop,        \* stop[c]: request_stop of consumer c
  data,        \* data[i]: the packet encrypted in QueueItem i
  ref,         \* ref[i]: the packet its refPtr points to
  verified,    \* packets that a consumer has decrypted and compared
  left,        \* left[l]: count of the latch l, "aec", "adc" or "result"
  results      \* result.results: the threads whose Data main will read

vars == <<main, toProducer, toConsumer, pc, cur, made, stop, data, ref,
          verified, left, results>>
queues == <<toProducer, toConsumer>>
items == <<data, ref, verified>>

Goto(t, from, to) ==
  /\ pc[t] = from
  /\ pc' = [pc EXCEPT ![t] = to]

Latch == {"aec", "adc", "result"}

\* The latch given to a thread's constructor.
LatchOf(t) == IF t \in Producer THEN "aec" ELSE "adc"

Group(t) == IF t \in Producer THEN Producer ELSE Consumer

\* endecrypt up to the first thread: all the QueueItems wait for a producer.
Init ==
  /\ main = "start"
  /\ toProducer = [i \in 1..NItems |-> i]
  /\ toConsumer = <<>>
  /\ pc = [t \in Thread |-> "new"]
  /\ cur = [t \in Thread |-> NoItem]
  /\ made = [p \in Producer |-> 0]
  /\ stop = [c \in Consumer |-> FALSE]
  /\ data = [i \in Item |-> NoPacket]
  /\ ref = [i \in Item |-> NoPacket]
  /\ verified = {}
  /\ left = [l \in Latch |-> IF l = "result" THEN Workers ELSE Workers \div 2]
  /\ results = <<>>
-----------------------------------------------------------------------------
(* Faulty variants of the actions below, one slip each; the runs must reject *)
(* them.                                                                     *)

\* "i <= pattern"
ProducerPop_OneMore(p) ==
  /\ made[p] <= Pattern /\ toProducer # <<>>
  /\ Goto(p, "pop", "encrypt")
  /\ cur' = [cur EXCEPT ![p] = Head(toProducer)]
  /\ toProducer' = Tail(toProducer)
  /\ UNCHANGED <<main, toConsumer, made, stop, items, left, results>>

\* setRefPtr is left out.
SetRef_Missing(p) ==
  /\ Goto(p, "setRef", "push")
  /\ UNCHANGED <<main, queues, cur, made, stop, items, left, results>>

\* The item is pushed a second time.
ProducerPush_Twice(p) ==
  /\ p \in Producer
  /\ Goto(p, "push", "pop")
  /\ toConsumer' = toConsumer \o <<cur[p], cur[p]>>
  /\ cur' = [cur EXCEPT ![p] = NoItem]
  /\ made' = [made EXCEPT ![p] = @ + 1]
  /\ UNCHANGED <<main, toProducer, stop, items, left, results>>

\* front() without pop()
ConsumerPop_Peek(c) ==
  /\ toConsumer # <<>>
  /\ Goto(c, "pop", "check") \/ Goto(c, "missed", "check")
  /\ cur' = [cur EXCEPT ![c] = Head(toConsumer)]
  /\ UNCHANGED <<main, queues, made, stop, items, left, results>>

\* The consumer does not give the item back.
ConsumerPush_Dropped(c) ==
  /\ c \in Consumer
  /\ Goto(c, "push", "pop")
  /\ cur' = [cur EXCEPT ![c] = NoItem]
  /\ UNCHANGED <<main, queues, made, stop, items, left, results>>

\* One producer less is waited for.
ProducersFinished_OneShort ==
  /\ main = "start"
  /\ \A t \in Thread : pc[t] # "new"
  /\ left["aec"] <= 1
  /\ main' = "stop"
  /\ UNCHANGED <<queues, pc, cur, made, stop, items, left, results>>

\* The list is read without result.wait().
ReadResults_NoWait ==
  /\ main = "wait"
  /\ main' = "read"
  /\ UNCHANGED <<queues, pc, cur, made, stop, items, left, results>>

\* The consumers are not joined.
JoinConsumersDestroyResult_NoJoin ==
  /\ main = "joinConsumers"
  /\ main' = "returned"
  /\ UNCHANGED <<queues, pc, cur, made, stop, items, left, results>>
-----------------------------------------------------------------------------
(* ActionEncryptProducer::run *)

\* for (i < pattern): item = result.toProducer.pop(), which blocks while empty.
ProducerPop(p) ==
  /\ made[p] < Pattern
  /\ toProducer # <<>>
  /\ Goto(p, "pop", "encrypt")
  /\ cur' = [cur EXCEPT ![p] = Head(toProducer)]
  /\ toProducer' = Tail(toProducer)
  /\ UNCHANGED <<main, toConsumer, made, stop, items, left, results>>

\* item->setSize(ctx.encrypt(pat->packet, ..., item->getData(), ...))
Encrypt(p) ==
  /\ Goto(p, "encrypt", "setRef")
  /\ data' = [data EXCEPT ![cur[p]] = <<p, made[p]>>]
  /\ UNCHANGED <<main, queues, cur, made, stop, ref, verified, left, results>>

\* item->setRefPtr(pat->packet, pat->size)
SetRef(p) ==
  /\ Goto(p, "setRef", "push")
  /\ ref' = [ref EXCEPT ![cur[p]] = <<p, made[p]>>]
  /\ UNCHANGED <<main, queues, cur, made, stop, data, verified, left, results>>

\* result.toConsumer.push(item); ++i
ProducerPush(p) ==
  /\ p \in Producer
  /\ Goto(p, "push", "pop")
  /\ toConsumer' = Append(toConsumer, cur[p])
  /\ cur' = [cur EXCEPT ![p] = NoItem]
  /\ made' = [made EXCEPT ![p] = @ + 1]
  /\ UNCHANGED <<main, toProducer, stop, items, left, results>>

ProducerFinish(p) ==
  /\ made[p] = Pattern
  /\ Goto(p, "pop", "countDown")
  /\ UNCHANGED <<main, queues, cur, made, stop, items, left, results>>
-----------------------------------------------------------------------------
(* ActionDecryptConsumer::run *)

\* result.toConsumer.pop_wait_for(duration, &qi) returns true,
ConsumerPop(c) ==
  /\ toConsumer # <<>>
  /\ Goto(c, "pop", "check") \/ Goto(c, "missed", "check")
  /\ cur' = [cur EXCEPT ![c] = Head(toConsumer)]
  /\ toConsumer' = Tail(toConsumer)
  /\ UNCHANGED <<main, toProducer, made, stop, items, left, results>>

\* ... or it finds the queue empty
ConsumerMiss(c) ==
  /\ c \in Consumer
  /\ toConsumer = <<>>
  /\ Goto(c, "pop", "missed")
  /\ UNCHANGED <<main, queues, cur, made, stop, items, left, results>>

\* ... and returns false.
ConsumerTimeout(c) ==
  /\ Goto(c, "missed", "check")
  /\ cur' = [cur EXCEPT ![c] = NoItem]
  /\ UNCHANGED <<main, queues, made, stop, items, left, results>>

\* if (request_stop) break, which abandons an item just popped;
\* if (!ret) continue
CheckStop(c) ==
  /\ Goto(c, "check", IF stop[c] THEN "countDown"
                      ELSE IF cur[c] = NoItem THEN "pop" ELSE "decrypt")
  /\ UNCHANGED <<main, queues, cur, made, stop, items, left, results>>

\* ctx.decrypt(qi->getData(), ...) compared with qi->getRefPtr()
Decrypt(c) ==
  /\ Goto(c, "decrypt", "push")
  /\ verified' = verified \cup {data[cur[c]]}
  /\ UNCHANGED <<main, queues, cur, made, stop, data, ref, left, results>>

\* result.toProducer.push(qi); the next iteration has a new qi.
ConsumerPush(c) ==
  /\ c \in Consumer
  /\ Goto(c, "push", "pop")
  /\ toProducer' = Append(toProducer, cur[c])
  /\ cur' = [cur EXCEPT ![c] = NoItem]
  /\ UNCHANGED <<main, toConsumer, made, stop, items, left, results>>
-----------------------------------------------------------------------------
(* The end of both run()s *)

\* cdl.countDown() up to its effect: count_mutex is held from here ...
CountDown(t) ==
  /\ \A u \in Group(t) : pc[u] # "inCountDown"
  /\ Goto(t, "countDown", "inCountDown")
  /\ left' = [left EXCEPT ![LatchOf(t)] = @ - 1]
  /\ UNCHANGED <<main, queues, cur, made, stop, items, results>>

\* ... to here.
CountDownReturns(t) ==
  /\ Goto(t, "inCountDown", "result")
  /\ UNCHANGED <<main, queues, cur, made, stop, items, left, results>>

\* result.countDown(bench): lock_guard lock(results_mutex) is held by the
\* thread in one of these three places
InResults == {"pushBack", "countResult", "leaveResult"}

LockResults(t) ==
  /\ \A u \in Thread : pc[u] \notin InResults
  /\ Goto(t, "result", "pushBack")
  /\ UNCHANGED <<main, queues, cur, made, stop, items, left, results>>

\* results.push_back(result)
PushBack(t) ==
  /\ Goto(t, "pushBack", "countResult")
  /\ results' = Append(results, t)
  /\ UNCHANGED <<main, queues, cur, made, stop, items, left>>

\* cdl.countDown() of the Result
CountResult(t) ==
  /\ Goto(t, "countResult", "leaveResult")
  /\ left' = [left EXCEPT !["result"] = @ - 1]
  /\ UNCHANGED <<main, queues, cur, made, stop, items, results>>

LeaveResults(t) ==
  /\ Goto(t, "leaveResult", "done")
  /\ UNCHANGED <<main, queues, cur, made, stop, items, left, results>>
-----------------------------------------------------------------------------
(* endecrypt, in main's thread *)

\* (new ActionDecryptConsumer(...))->start(), and then the producers
StartThread(t) ==
  /\ main = "start"
  /\ t \in Producer => \A c \in Consumer : pc[c] # "new"
  /\ Goto(t, "new", "pop")
  /\ UNCHANGED <<main, queues, cur, made, stop, items, left, results>>

\* aec_cdl.wait()
ProducersFinished ==
  /\ main = "start"
  /\ \A t \in Thread : pc[t] # "new"
  /\ left["aec"] = 0
  /\ main' = "stop"
  /\ UNCHANGED <<queues, pc, cur, made, stop, items, left, results>>

\* (*i)->stop()
Stop(c) ==
  /\ main = "stop"
  /\ ~stop[c]
  /\ stop' = [stop EXCEPT ![c] = TRUE]
  /\ UNCHANGED <<main, queues, pc, cur, made, items, left, results>>

\* adc_cdl.wait()
ConsumersFinished ==
  /\ main = "stop"
  /\ \A c \in Consumer : stop[c]
  /\ left["adc"] = 0
  /\ main' = "wait"
  /\ UNCHANGED <<queues, pc, cur, made, stop, items, left, results>>

\* TestEnDecryption::wait(result) returns from result.wait() and reads the list
ReadResults ==
  /\ main = "wait"
  /\ left["result"] = 0
  /\ main' = "read"
  /\ UNCHANGED <<queues, pc, cur, made, stop, items, left, results>>

\* The locals of endecrypt die in the reverse order of their declaration:
\* aec_cdl; lst_aecworkers, joining the producers; adc_cdl; lst_adcworkers,
\* joining the consumers; queueItems and result.
DestroyProducerLatch ==
  /\ main = "read"
  /\ main' = "joinProducers"
  /\ UNCHANGED <<queues, pc, cur, made, stop, items, left, results>>

JoinProducersDestroyConsumerLatch ==
  /\ main = "joinProducers"
  /\ \A p \in Producer : pc[p] = "done"
  /\ main' = "joinConsumers"
  /\ UNCHANGED <<queues, pc, cur, made, stop, items, left, results>>

JoinConsumersDestroyResult ==
  /\ main = "joinConsumers"
  /\ \A c \in Consumer : pc[c] = "done"
  /\ main' = "returned"
  /\ UNCHANGED <<queues, pc, cur, made, stop, items, left, results>>
-----------------------------------------------------------------------------
ProducerStep(p) ==
  \/ ProducerPop(p) \/ Encrypt(p) \/ SetRef(p) \/ ProducerPush(p)
  \/ ProducerFinish(p)

ConsumerStep(c) ==
  \/ ConsumerPop(c) \/ ConsumerMiss(c) \/ ConsumerTimeout(c) \/ CheckStop(c)
  \/ Decrypt(c) \/ ConsumerPush(c)

EndStep(t) ==
  \/ CountDown(t) \/ CountDownReturns(t)
  \/ LockResults(t) \/ PushBack(t) \/ CountResult(t) \/ LeaveResults(t)

ThreadStep(t) ==
  \/ t \in Producer /\ ProducerStep(t)
  \/ t \in Consumer /\ ConsumerStep(t)
  \/ EndStep(t)

MainStep ==
  \/ \E t \in Thread : StartThread(t)
  \/ ProducersFinished
  \/ \E c \in Consumer : Stop(c)
  \/ ConsumersFinished
  \/ ReadResults
  \/ DestroyProducerLatch
  \/ JoinProducersDestroyConsumerLatch
  \/ JoinConsumersDestroyResult

Next == MainStep \/ \E t \in Thread : ThreadStep(t)

Spec == Init /\ [][Next]_vars

\* The operating system runs every thread that can run.
FairSpec == Spec /\ WF_vars(MainStep) /\ \A t \in Thread : WF_vars(ThreadStep(t))
-----------------------------------------------------------------------------
Place == {"new", "pop", "encrypt", "setRef", "push", "missed", "check", "decrypt",
          "countDown", "inCountDown", "result", "pushBack", "countResult",
          "leaveResult", "done"}

TypeOK ==
  /\ main \in {"start", "stop", "wait", "read", "joinProducers", "joinConsumers",
               "returned"}
  /\ toProducer \in Seq(Item)
  /\ toConsumer \in Seq(Item)
  /\ pc \in [Thread -> Place]
  /\ cur \in [Thread -> Item \cup {NoItem}]
  /\ made \in [Producer -> 0..Pattern]
  /\ stop \in [Consumer -> BOOLEAN]
  /\ data \in [Item -> Packet \cup {NoPacket}]
  /\ ref \in [Item -> Packet \cup {NoPacket}]
  /\ verified \subseteq Packet \cup {NoPacket}
  /\ left \in [Latch -> Int]
  /\ results \in Seq(Thread)

\* Every QueueItem is at exactly one place: once in one of the queues, or in
\* the hands of one thread.  No two threads ever work on the same buffer.
OneOwner ==
  /\ IsInjective(toProducer)
  /\ IsInjective(toConsumer)
  /\ Range(toProducer) \cap Range(toConsumer) = {}
  /\ \A t \in Thread : cur[t] \notin Range(toProducer) \cup Range(toConsumer)
  /\ \A t, u \in Thread : t # u /\ cur[t] # NoItem => cur[t] # cur[u]

NothingLost ==
  Item \subseteq Range(toProducer) \cup Range(toConsumer) \cup Range(cur)

\* What a consumer decrypts is what the item's reference points to: an item
\* never reaches a consumer half filled, or refilled under its hands.
DecryptsItsReference ==
  /\ \A i \in Range(toConsumer) : data[i] = ref[i] /\ data[i] # NoPacket
  /\ \A c \in Consumer : pc[c] = "decrypt" => /\ cur[c] # NoItem
                                              /\ data[cur[c]] = ref[cur[c]]

\* Packets pushed and not yet verified: queued, or with a consumer, which
\* may have abandoned its item when it was told to stop.
InFlight ==
  {data[i] : i \in Range(toConsumer)}
    \cup {data[cur[c]] : c \in {d \in Consumer : cur[d] # NoItem /\ pc[d] # "push"}}

\* Every packet pushed is either in flight or verified, and not both: none is
\* lost on the way and none is verified twice.
InFlightOrVerified ==
  /\ verified \cup InFlight = {pkt \in Packet : pkt[2] < made[pkt[1]]}
  /\ verified \cap InFlight = {}

\* A consumer is told to stop only when no producer will ever push again.
StopAfterProducers ==
  (\E c \in Consumer : stop[c]) =>
    \A p \in Producer :
      made[p] = Pattern /\ pc[p] \notin {"new", "pop", "encrypt", "setRef", "push"}

\* When main reads the list of results, it is complete and nobody will write it.
ResultsComplete ==
  main \in {"read", "joinProducers", "joinConsumers", "returned"} =>
    /\ Range(results) = Thread
    /\ Len(results) = Workers
    /\ \A t \in Thread : pc[t] \in {"leaveResult", "done"}

\* Places from which a thread will still use the latch it was given.
NeedsLatch == Place \ {"result", "pushBack", "countResult", "leaveResult", "done"}

\* No thread uses a latch, a queue, an item or the result after main has
\* destroyed it, although the latches die before the threads are joined.
NoUseAfterDestruction ==
  /\ main \in {"joinProducers", "joinConsumers", "returned"} =>
       \A p \in Producer : pc[p] \notin NeedsLatch
  /\ main \in {"joinConsumers", "returned"} =>
       \A c \in Consumer : pc[c] \notin NeedsLatch
  /\ main = "returned" => \A t \in Thread : pc[t] = "done"

\* endecrypt returns: producers and consumers do not block one another, and
\* everybody waited for arrives.
Returns == <>(main = "returned")
=============================================================================
