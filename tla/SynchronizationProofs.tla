------------------------ MODULE SynchronizationProofs ------------------------
(***************************************************************************)
(* Proofs about BlockingQueue, for any sets of threads and items and any   *)
(* bound on the length of the queue, and about CountDownLatch, for any     *)
(* number of counting and of waiting threads and any count, zero included. *)
(***************************************************************************)
EXTENDS BlockingQueue, CountDownLatch, FiniteSetTheorems, SequenceTheorems, TLAPS

\* The operation a thread is in fits the place where it is, and its item is
\* the argument of push or still nothing until front() has been read.
OpMatchesPlace ==
  \A t \in Thread :
    /\ pc[t] = "idle" <=> op[t] = "none"
    /\ pc[t] \in {"append", "notify"} => op[t] = "push"
    /\ pc[t] \notin {"idle", "lock", "append", "notify"} => op[t] \in {"pop", "pop_wait_for"}
    /\ pc[t] \in {"refuse", "expired"} => op[t] = "pop_wait_for"
    /\ op[t] = "push" => item[t] \in Item
    /\ op[t] \in {"pop", "pop_wait_for"} /\ pc[t] # "remove" => item[t] = NoItem
    /\ op[t] = "pop_wait_for" => t \in TimedPopper

\* The inductive invariant.  TypeOK needs it (Head and Tail are taken of a
\* queue that is known not to be empty), and FreshKnowledge needs that no other
\* thread can change the queue between a test and the action that relies on it.
IInv == TypeOK /\ MutexDiscipline /\ FreshKnowledge /\ OpMatchesPlace

USE DEF Goto

LEMMA InitIInv == Init => IInv
  BY QueueAssumption
  DEF Init, IInv, TypeOK, MutexDiscipline, FreshKnowledge, OpMatchesPlace,
      Location, Critical

LEMMA NextIInv == IInv /\ [Next]_vars => IInv'
  <1> SUFFICES ASSUME IInv, [Next]_vars PROVE IInv'
    OBVIOUS
  <1> USE QueueAssumption
      DEF IInv, TypeOK, MutexDiscipline, FreshKnowledge, OpMatchesPlace,
          Location, Critical
  <1>1. ASSUME NEW t \in Thread, NEW i \in Item, CallPush(t, i) PROVE IInv'
    BY <1>1 DEF CallPush
  <1>2. ASSUME NEW t \in Thread, CallPop(t) PROVE IInv'
    BY <1>2 DEF CallPop
  <1>3. ASSUME NEW t \in Thread, SpuriousWakeup(t) PROVE IInv'
    BY <1>3 DEF SpuriousWakeup
  <1>4. ASSUME NEW t \in Thread, Lock(t) PROVE IInv'
    BY <1>4 DEF Lock
  <1>5. ASSUME NEW t \in Thread, Enqueue(t) PROVE IInv'
    BY <1>5 DEF Enqueue
  <1>6. ASSUME NEW t \in Thread, Notify(t) PROVE IInv'
    BY <1>6 DEF Notify
  <1>7. ASSUME NEW t \in Thread, Test(t) PROVE IInv'
    BY <1>7 DEF Test
  <1>8. ASSUME NEW t \in Thread, Wait(t) PROVE IInv'
    BY <1>8 DEF Wait
  <1>9. ASSUME NEW t \in Thread, Timeout(t) PROVE IInv'
    BY <1>9 DEF Timeout
  <1>10. ASSUME NEW t \in Thread, Relock(t) PROVE IInv'
    BY <1>10 DEF Relock
  <1>11. ASSUME NEW t \in Thread, Refuse(t) PROVE IInv'
    BY <1>11 DEF Refuse
  <1>12. ASSUME NEW t \in Thread, Front(t) PROVE IInv'
    BY <1>12, HeadTailProperties DEF Front
  <1>13. ASSUME NEW t \in Thread, Remove(t) PROVE IInv'
    BY <1>13, HeadTailProperties DEF Remove
  <1>14. CASE UNCHANGED vars
    BY <1>14 DEF vars
  <1> QED
    BY <1>1, <1>2, <1>3, <1>4, <1>5, <1>6, <1>7, <1>8, <1>9, <1>10, <1>11,
       <1>12, <1>13, <1>14
    DEF Next, Step

LEMMA Invariance == Spec => []IInv
  BY InitIInv, NextIInv, PTL DEF Spec

\* Every variable keeps its type: front() and pop() of the std::queue are
\* never called on an empty queue (blocking_queue.h:18,19,31,32).
THEOREM TypeCorrect == Spec => []TypeOK
  BY Invariance, PTL DEF IInv

\* mutex_ is owned by the thread between lock and unlock, and by no other.
THEOREM Exclusive == Spec => []MutexDiscipline
  BY Invariance, PTL DEF IInv

\* What a thread has tested is still so when it acts on it, over the unlocking
\* and relocking inside wait() too.
THEOREM Fresh == Spec => []FreshKnowledge
  BY Invariance, PTL DEF IInv
-----------------------------------------------------------------------------
(* No lost wakeup, for a queue without pop_wait_for().                       *)

LEMMA ActiveFinite == IsFiniteSet(Active) /\ Cardinality(Active) \in Nat
  BY QueueAssumption, FS_Subset, FS_CardinalityType DEF Active

\* How the number of active threads changes when some join, when one leaves and
\* when one takes the place of another.
LEMMA ActiveGrows ==
  ASSUME Active \subseteq Active', Active' \subseteq Thread
  PROVE  Cardinality(Active) <= Cardinality(Active') /\ Cardinality(Active') \in Nat
  BY QueueAssumption, FS_Subset, FS_CardinalityType

LEMMA ActiveJoins ==
  ASSUME NEW t, t \notin Active, Active' = Active \cup {t}
  PROVE  Cardinality(Active') = Cardinality(Active) + 1
  BY ActiveFinite, FS_AddElement

LEMMA ActiveLeaves ==
  ASSUME NEW t, t \in Active, Active' = Active \ {t}
  PROVE  Cardinality(Active') = Cardinality(Active) - 1
  BY ActiveFinite, FS_RemoveElement

LEMMA ActiveReplaced ==
  ASSUME NEW t, NEW w, t \in Active, w \notin Active,
         Active' = (Active \ {t}) \cup {w}
  PROVE  Cardinality(Active') = Cardinality(Active)
  <1>1. /\ IsFiniteSet(Active \ {t})
        /\ Cardinality(Active \ {t}) = Cardinality(Active) - 1
    BY ActiveFinite, FS_RemoveElement
  <1>2. Cardinality(Active') = Cardinality(Active \ {t}) + 1
    BY <1>1, FS_AddElement
  <1> QED
    BY <1>1, <1>2, ActiveFinite

\* The next step keeps every item matched by an active thread.  Only the steps
\* that put a thread to sleep, leave the active threads or change the queue
\* can disturb it.
LEMMA NextNoLostWakeup ==
  ASSUME TimedPopper = {}, IInv, NoLostWakeup, [Next]_vars
  PROVE  NoLostWakeup'
  <1> DEFINE Asleep == \E w \in Thread : pc[w] = "asleep"
             Matched == Len(queue) <= Cardinality(Active)
  <1> SUFFICES ASSUME Asleep' PROVE Matched'
    BY DEF NoLostWakeup
  <1>a. Asleep => Matched
    BY DEF NoLostWakeup
  <1>b. /\ queue \in Seq(Item) /\ pc \in [Thread -> Location]
        /\ Len(queue) \in Nat /\ Cardinality(Active) \in Nat
    BY ActiveFinite, LenProperties DEF IInv, TypeOK
  <1>c. Active' \subseteq Thread /\ Cardinality(Active') \in Nat
    <2>1. Active' \subseteq Thread
      BY DEF Active
    <2> QED
      BY <2>1, QueueAssumption, FS_Subset, FS_CardinalityType
  <1>d. ASSUME Active \subseteq Active', Asleep, queue' = queue PROVE Matched'
    BY <1>a, <1>b, <1>c, <1>d, ActiveGrows
  <1>e. ASSUME queue' = <<>> PROVE Matched'
    BY <1>c, <1>e, EmptySeq
  <1> HIDE DEF Asleep, Matched
  \* Calls, spurious wakeups, Lock, Relock and Front only add active threads.
  <1>1. ASSUME NEW t \in Thread,
               \/ \E i \in Item : CallPush(t, i)
               \/ CallPop(t) \/ SpuriousWakeup(t) \/ Lock(t) \/ Relock(t) \/ Front(t)
        PROVE  Matched'
    <2>1. op[t] # "pop_wait_for"
      BY DEF IInv, OpMatchesPlace
    <2>2. Active \subseteq Active' /\ Asleep /\ queue' = queue
      BY <1>1, <1>b, <2>1
      DEF CallPush, CallPop, SpuriousWakeup, Lock, Relock, Front, Active, Asleep,
          IInv, OpMatchesPlace
    <2> QED
      BY <1>d, <2>2
  \* The item that is pushed has the pushing thread, which will notify.
  <1>2. ASSUME NEW t \in Thread, Enqueue(t) PROVE Matched'
    <2>1. t \notin Active /\ Active' = Active \cup {t} /\ Asleep
      BY <1>2, <1>b DEF Enqueue, Active, Asleep
    <2>2. Len(queue') = Len(queue) + 1
      BY <1>2, <1>b, AppendProperties DEF Enqueue, IInv, TypeOK, OpMatchesPlace
    <2>3. Cardinality(Active') = Cardinality(Active) + 1
      BY <2>1, ActiveJoins
    <2> QED
      BY <1>a, <1>b, <2>1, <2>2, <2>3 DEF Matched
  \* It hands its item over to a blocked thread, if there is one.
  <1>3. ASSUME NEW t \in Thread, Notify(t) PROVE Matched'
    <2>1. PICK w \in Thread : /\ pc[w] = "asleep"
                              /\ pc' = [pc EXCEPT ![t] = "idle", ![w] = "notified"]
      BY <1>3, <1>b DEF Notify, Asleep
    <2>2. /\ t \in Active /\ w \notin Active
          /\ Active' = (Active \ {t}) \cup {w}
          /\ queue' = queue /\ Asleep
      BY <1>3, <1>b, <2>1 DEF Notify, Active, Asleep
    <2>3. Cardinality(Active') = Cardinality(Active)
      BY <2>2, ActiveReplaced
    <2> QED
      BY <1>a, <1>b, <2>2, <2>3 DEF Matched
  \* A thread that is going to block has found the queue empty.
  <1>4. ASSUME NEW t \in Thread, Test(t) PROVE Matched'
    <2>1. CASE queue = <<>>
      BY <1>4, <1>e, <2>1 DEF Test
    <2>2. CASE queue # <<>>
      <3>1. Active \subseteq Active' /\ Asleep /\ queue' = queue
        BY <1>4, <1>b, <2>2 DEF Test, Active, Asleep
      <3> QED
        BY <1>d, <3>1
    <2> QED
      BY <2>1, <2>2
  <1>5. ASSUME NEW t \in Thread, Wait(t) PROVE Matched'
    BY <1>5, <1>e DEF Wait, IInv, FreshKnowledge
  \* Without pop_wait_for nobody times out or gives up.
  <1>6. ASSUME NEW t \in Thread, Timeout(t) \/ Refuse(t) PROVE Matched'
    BY <1>6 DEF Timeout, Refuse, IInv, OpMatchesPlace
  \* A thread that leaves with an item takes that item away.
  <1>7. ASSUME NEW t \in Thread, Remove(t) PROVE Matched'
    <2>1. t \in Active /\ Active' = Active \ {t} /\ Asleep
      BY <1>7, <1>b DEF Remove, Active, Asleep
    <2>2. Len(queue') = Len(queue) - 1
      BY <1>7, <1>b, HeadTailProperties DEF Remove, IInv, FreshKnowledge
    <2>3. Cardinality(Active') = Cardinality(Active) - 1
      BY <2>1, ActiveLeaves
    <2> QED
      BY <1>a, <1>b, <2>1, <2>2, <2>3 DEF Matched
  <1>8. CASE UNCHANGED vars
    BY <1>8, <1>d DEF vars, Active, Asleep
  <1> QED
    BY <1>1, <1>2, <1>3, <1>4, <1>5, <1>6, <1>7, <1>8 DEF Next, Step

\* While a thread is blocked in pop(), every item has a thread that will take
\* it or will wake a thread for it, although push notifies after the unlock.
THEOREM EveryItemWakes ==
  ASSUME TimedPopper = {}
  PROVE  Spec => []NoLostWakeup
  <1>1. Init => NoLostWakeup
    BY DEF Init, NoLostWakeup
  <1>2. IInv /\ NoLostWakeup /\ [Next]_vars => NoLostWakeup'
    BY NextNoLostWakeup
  <1> QED
    BY <1>1, <1>2, Invariance, PTL DEF Spec

\* No thread is left blocked in pop() beside an item with nothing under way.
THEOREM NobodyStuck ==
  ASSUME TimedPopper = {}
  PROVE  Spec => []NoStuckPopper
  <1>1. IInv /\ NoLostWakeup => NoStuckPopper
    <2> SUFFICES ASSUME IInv, NoLostWakeup,
                        \A t \in Thread : pc[t] \in {"idle", "asleep"},
                        \E t \in Thread : pc[t] = "asleep"
                 PROVE  queue = <<>>
      BY DEF NoStuckPopper
    <2>1. Active = {}
      BY DEF Active
    <2>2. Len(queue) <= 0
      BY <2>1, FS_EmptySet DEF NoLostWakeup
    <2> QED
      BY <2>2, EmptySeq, LenProperties DEF IInv, TypeOK
  <1> QED
    BY <1>1, Invariance, EveryItemWakes, PTL
-----------------------------------------------------------------------------
(* Refinement.                                                               *)

LEMMA InitRefines == Init => Atomic!Init
  BY QueueAssumption DEF Init, Atomic!Init, callView, itemView

\* Each step of the detailed queue is a step of the atomic one, or leaves what
\* a caller can see unchanged.
LEMMA NextRefines ==
  ASSUME IInv, [Next]_vars
  PROVE  [Atomic!Next]_(Atomic!vars)
  <1> USE DEF Atomic!vars, callView, itemView
  <1>t. /\ pc \in [Thread -> Location]
        /\ op \in [Thread -> {"none", "push", "pop", "pop_wait_for"}]
        /\ item \in [Thread -> Item \cup {NoItem}]
        /\ OpMatchesPlace
    BY DEF IInv, TypeOK
  <1>1. ASSUME NEW t \in Thread, NEW i \in Item, CallPush(t, i)
        PROVE  Atomic!CallPush(t, i)
    BY <1>1, <1>t DEF CallPush, Atomic!CallPush, OpMatchesPlace
  <1>2. ASSUME NEW t \in Thread, CallPop(t) PROVE Atomic!CallPop(t)
    BY <1>2, <1>t DEF CallPop, Atomic!CallPop, OpMatchesPlace
  <1>3. ASSUME NEW t \in Thread, Enqueue(t) PROVE Atomic!Push(t)
    BY <1>3, <1>t DEF Enqueue, Atomic!Push, OpMatchesPlace
  \* Finding the queue empty makes pop_wait_for give up, unless it looks again.
  <1>4. ASSUME NEW t \in Thread, Test(t)
        PROVE  Atomic!Miss(t) \/ UNCHANGED Atomic!vars
    <2>1. CASE queue = <<>> /\ op[t] = "pop_wait_for"
      BY <1>4, <1>t, <2>1 DEF Test, Atomic!Miss, OpMatchesPlace
    <2>2. CASE ~(queue = <<>> /\ op[t] = "pop_wait_for")
      BY <1>4, <1>t, <2>2 DEF Test, OpMatchesPlace
    <2> QED
      BY <2>1, <2>2
  <1>5. ASSUME NEW t \in Thread, Relock(t)
        PROVE  Atomic!Retry(t) \/ UNCHANGED Atomic!vars
    <2>1. CASE pc'[t] = "test" /\ op[t] = "pop_wait_for"
      BY <1>5, <1>t, <2>1 DEF Relock, Atomic!Retry, OpMatchesPlace
    <2>2. CASE ~(pc'[t] = "test" /\ op[t] = "pop_wait_for")
      BY <1>5, <1>t, <2>2 DEF Relock, OpMatchesPlace
    <2> QED
      BY <2>1, <2>2
  <1>6. ASSUME NEW t \in Thread, Refuse(t) PROVE Atomic!Refuse(t)
    BY <1>6, <1>t DEF Refuse, Atomic!Refuse, OpMatchesPlace
  \* The item read by front() is the one that pop() removes.
  <1>7. ASSUME NEW t \in Thread, Remove(t) PROVE Atomic!Take(t)
    BY <1>7, <1>t DEF Remove, Atomic!Take, OpMatchesPlace, IInv, FreshKnowledge
  <1>8. ASSUME NEW t \in Thread,
               \/ Lock(t) \/ Wait(t) \/ SpuriousWakeup(t)
               \/ Timeout(t) \/ Front(t)
        PROVE  UNCHANGED Atomic!vars
    BY <1>8, <1>t DEF Lock, Wait, SpuriousWakeup, Timeout, Front, OpMatchesPlace
  <1>9. ASSUME NEW t \in Thread, Notify(t) PROVE UNCHANGED Atomic!vars
    BY <1>9, <1>t DEF Notify, OpMatchesPlace
  <1>10. CASE UNCHANGED vars
    BY <1>10 DEF vars
  <1> QED
    BY <1>1, <1>2, <1>3, <1>4, <1>5, <1>6, <1>7, <1>8, <1>9, <1>10
    DEF Next, Step, Atomic!Next

\* The queue with its mutex and condition variable implements the atomic one:
\* every push and pop takes effect in one step between its call and its return
\* (linearizability), in first-in-first-out order.
THEOREM Linearizable == Spec => ImplementsAtomicQueue
  BY InitRefines, NextRefines, Invariance, PTL
  DEF Spec, ImplementsAtomicQueue, Atomic!Spec
-----------------------------------------------------------------------------
(* CountDownLatch                                                            *)

\* Where a thread owns count_mutex, and the calls past their decrement.
Counting == {"load", "store", "test", "open", "leave"}
Past == {t \in Counter : at[t] \notin {"countDown", "load", "store"}}

\* count_mutex makes --count and the test one step for the other threads.
CountMutex ==
  /\ \A t \in Counter : at[t] \in Counting <=> countMutex = t
  /\ \A t \in Counter : at[t] \in Counting \cup {"countDown", "counted"}
  /\ \A t \in Counter : at[t] = "store" => loaded[t] = count

\* wait_all is the constructor's until the count is zero and one thread has
\* seen it; from then on no thread will see zero again.
WaitAll ==
  /\ \A t \in Counter : at[t] = "open" => count = 0 /\ waitAll = Creator
  /\ waitAll # Creator =>
       /\ count <= 0
       /\ \A t \in Counter : at[t] = "test" => count < 0
       /\ Cardinality(Counted) >= Count
  /\ \A w \in Waiter :
       /\ at[w] \in {"wait", "release", "passed"}
       /\ at[w] = "release" <=> waitAll = w
       /\ at[w] = "passed" => waitAll # Creator

LatchIInv == LatchTypeOK /\ CountMutex /\ CountExact /\ WaitAll

USE DEF Move

\* The calls that have taken effect are those past --count, except the one
\* between its decrement and the opening.
LEMMA CountsFinite ==
  /\ IsFiniteSet(Past) /\ Cardinality(Past) \in Nat
  /\ IsFiniteSet(Counted) /\ Cardinality(Counted) \in Nat
  /\ Cardinality(Counted') \in Nat
  /\ Counted \subseteq Counted' => Cardinality(Counted') >= Cardinality(Counted)
  <1>1. Past \subseteq Counter /\ Counted \subseteq Counter /\ Counted' \subseteq Counter
    BY DEF Past, Counted
  <1>2. IsFiniteSet(Past) /\ IsFiniteSet(Counted) /\ IsFiniteSet(Counted')
    BY <1>1, LatchAssumption, FS_Subset
  <1> QED
    BY <1>2, FS_CardinalityType, FS_Subset

LEMMA InitLatchIInv == LatchInit => LatchIInv
  <1> SUFFICES ASSUME LatchInit PROVE LatchIInv
    OBVIOUS
  <1>1. LatchTypeOK /\ CountMutex /\ WaitAll
    BY LatchAssumption DEF LatchInit, LatchTypeOK, CountMutex, WaitAll, Counting, Caller
  <1>2. CountExact
    <2>1. Past = {}
      BY LatchAssumption DEF LatchInit, Past, Caller
    <2> QED
      BY <2>1, FS_EmptySet, LatchAssumption DEF LatchInit, CountExact, Past
  <1> QED
    BY <1>1, <1>2 DEF LatchIInv

LEMMA NextLatchTypeOK ==
  ASSUME LatchIInv, [LatchNext]_latchVars
  PROVE  LatchTypeOK' /\ CountMutex'
  <1> USE LatchAssumption DEF LatchIInv, LatchTypeOK, CountMutex, Counting, Caller
  <1>1. ASSUME NEW t \in Counter, CountStep(t) PROVE LatchTypeOK' /\ CountMutex'
    <2>1. CASE EnterCount(t)
      BY <2>1 DEF EnterCount
    <2>2. CASE Load(t)
      BY <2>2 DEF Load
    <2>3. CASE Store(t)
      BY <2>3 DEF Store
    <2>4. CASE TestZero(t)
      BY <2>4 DEF TestZero
    <2>5. CASE Open(t)
      BY <2>5 DEF Open
    <2>6. CASE LeaveCount(t)
      BY <2>6 DEF LeaveCount
    <2> QED
      BY <1>1, <2>1, <2>2, <2>3, <2>4, <2>5, <2>6 DEF CountStep
  <1>2. ASSUME NEW w \in Waiter, WaitStep(w) PROVE LatchTypeOK' /\ CountMutex'
    BY <1>2 DEF WaitStep, LockWaitAll, ReleaseWaitAll
  <1>3. CASE UNCHANGED latchVars
    BY <1>3 DEF latchVars
  <1> QED
    BY <1>1, <1>2, <1>3 DEF LatchNext

\* Only Store changes count and the set of threads past it.
LEMMA NextCountExact ==
  ASSUME LatchIInv, [LatchNext]_latchVars
  PROVE  CountExact'
  <1>t. /\ at \in [Caller -> Counting \cup {"countDown", "counted", "wait", "release", "passed"}]
        /\ count \in Int /\ count = Count - Cardinality(Past)
        /\ \A t \in Counter : at[t] = "store" => loaded[t] = count
    BY DEF LatchIInv, LatchTypeOK, CountMutex, CountExact, Past, Counting
  <1>c. CountExact' <=> count' = Count - Cardinality(Past')
    BY DEF CountExact, Past
  <1>1. ASSUME NEW t \in Counter, Store(t) PROVE CountExact'
    <2>1. t \notin Past /\ Past' = Past \cup {t}
      BY <1>1, <1>t DEF Store, Past, Caller
    <2>2. Cardinality(Past') = Cardinality(Past) + 1
      BY <2>1, CountsFinite, FS_AddElement
    <2>3. count' = count - 1
      BY <1>1, <1>t DEF Store
    <2> QED
      BY <1>t, <1>c, <2>2, <2>3, CountsFinite, LatchAssumption
  <1>2. ASSUME NEW t \in Counter,
               EnterCount(t) \/ Load(t) \/ TestZero(t) \/ Open(t) \/ LeaveCount(t)
        PROVE  CountExact'
    <2>1. Past' = Past /\ count' = count
      BY <1>2, <1>t DEF EnterCount, Load, TestZero, Open, LeaveCount, Past, Caller
    <2> QED
      BY <1>t, <1>c, <2>1
  <1>3. ASSUME NEW w \in Waiter, WaitStep(w) PROVE CountExact'
    <2>1. Past' = Past /\ count' = count
      BY <1>3, <1>t, LatchAssumption
      DEF WaitStep, LockWaitAll, ReleaseWaitAll, Past, Caller
    <2> QED
      BY <1>t, <1>c, <2>1
  <1>4. CASE UNCHANGED latchVars
    BY <1>4, <1>t, <1>c DEF latchVars, Past
  <1> QED
    BY <1>1, <1>2, <1>3, <1>4 DEF LatchNext, CountStep

\* The thread about to open the latch is the only one that is not done.
LEMMA OpenIsLast ==
  ASSUME LatchIInv, NEW t \in Counter, Open(t)
  PROVE  Cardinality(Counted') >= Count
  <1>1. Counted' = Past
    BY LatchAssumption
    DEF LatchIInv, LatchTypeOK, CountMutex, Counting, Open, Past, Counted, Caller
  <1>2. count = 0 /\ count = Count - Cardinality(Past)
    BY DEF LatchIInv, WaitAll, CountExact, Past, Open
  <1> QED
    BY <1>1, <1>2, CountsFinite, LatchAssumption

LEMMA NextWaitAll ==
  ASSUME LatchIInv, [LatchNext]_latchVars
  PROVE  WaitAll'
  <1>d. ASSUME Counted \subseteq Counted', Cardinality(Counted) >= Count
        PROVE  Cardinality(Counted') >= Count
    BY <1>d, CountsFinite, LatchAssumption
  <1>t. LatchTypeOK /\ CountMutex /\ WaitAll
    BY DEF LatchIInv
  <1> USE LatchAssumption, <1>t DEF LatchTypeOK, CountMutex, WaitAll, Counting, Caller
  <1>1. ASSUME NEW t \in Counter, CountStep(t) PROVE WaitAll'
    <2>1. CASE EnterCount(t)
      <3>1. Counted \subseteq Counted'
        BY <2>1 DEF EnterCount, Counted
      <3> QED
        BY <2>1, <3>1, <1>d DEF EnterCount
    <2>2. CASE Load(t)
      <3>1. Counted \subseteq Counted'
        BY <2>2 DEF Load, Counted
      <3> QED
        BY <2>2, <3>1, <1>d DEF Load
    <2>3. CASE Store(t)
      <3>1. Counted \subseteq Counted'
        BY <2>3 DEF Store, Counted
      <3> QED
        BY <2>3, <3>1, <1>d DEF Store
    <2>4. CASE TestZero(t)
      <3>1. Counted \subseteq Counted'
        BY <2>4 DEF TestZero, Counted
      <3> QED
        BY <2>4, <3>1, <1>d DEF TestZero
    <2>5. CASE Open(t)
      <3>1. Cardinality(Counted') >= Count
        BY <2>5, OpenIsLast
      <3>2. \A u \in Counter : at'[u] \notin {"open", "test"}
        BY <2>5 DEF Open
      <3>3. /\ waitAll = Creator /\ waitAll' = Free /\ count' = count /\ count = 0
            /\ \A w \in Waiter : at'[w] = at[w]
        BY <2>5 DEF Open, LatchIInv
      <3> QED
        BY <3>1, <3>2, <3>3
    <2>6. CASE LeaveCount(t)
      <3>1. Counted \subseteq Counted'
        BY <2>6 DEF LeaveCount, Counted
      <3> QED
        BY <2>6, <3>1, <1>d DEF LeaveCount
    <2> QED
      BY <1>1, <2>1, <2>2, <2>3, <2>4, <2>5, <2>6 DEF CountStep
  <1>2. ASSUME NEW w \in Waiter, WaitStep(w) PROVE WaitAll'
    <2>1. Counted' = Counted
      BY <1>2 DEF WaitStep, LockWaitAll, ReleaseWaitAll, Counted
    <2> QED
      BY <1>2, <2>1 DEF WaitStep, LockWaitAll, ReleaseWaitAll
  <1>3. CASE UNCHANGED latchVars
    BY <1>3 DEF latchVars, Counted
  <1> QED
    BY <1>1, <1>2, <1>3 DEF LatchNext

LEMMA LatchInvariance == LatchSpec => []LatchIInv
  <1>1. LatchIInv /\ [LatchNext]_latchVars => LatchIInv'
    BY NextLatchTypeOK, NextCountExact, NextWaitAll DEF LatchIInv
  <1> QED
    BY <1>1, InitLatchIInv, PTL DEF LatchSpec

\* Every variable keeps its type in every state.
THEOREM LatchTypeCorrect == LatchSpec => []LatchTypeOK
  BY LatchInvariance, PTL DEF LatchIInv

\* count is the constructor's argument less the calls of countDown() that are
\* past their decrement: count_mutex loses no call.
THEOREM NoCallLost == LatchSpec => []CountExact
  BY LatchInvariance, PTL DEF LatchIInv

\* wait_all is unlocked once, by the call that reaches zero, while nobody but
\* the constructor holds it, however many calls follow.
THEOREM OpensOnce == LatchSpec => []OpenedOnce
  <1>1. LatchIInv => OpenedOnce
    BY DEF LatchIInv, WaitAll, OpenedOnce
  <1> QED
    BY <1>1, LatchInvariance, PTL

\* With Count = 0 no waiter ever passes.
THEOREM ZeroNeverOpens == LatchSpec => []NeverOpensAtZero
  <1> DEFINE Closed == Count = 0 => count <= 0 /\ waitAll = Creator
                                    /\ \A t \in Counter : /\ at[t] = "test" => count < 0
                                                          /\ at[t] # "open"
  <1>1. LatchInit => Closed
    BY LatchAssumption DEF LatchInit, Caller
  <1>2. LatchIInv /\ Closed /\ [LatchNext]_latchVars => Closed'
    <2> SUFFICES ASSUME LatchIInv, Closed, [LatchNext]_latchVars, Count = 0 PROVE Closed'
      OBVIOUS
    <2> USE LatchAssumption DEF LatchIInv, LatchTypeOK, CountMutex, Counting, WaitAll, Caller
    <2>1. ASSUME NEW t \in Counter, CountStep(t) PROVE Closed'
      BY <2>1
      DEF CountStep, EnterCount, Load, Store, TestZero, Open, LeaveCount
    <2>2. ASSUME NEW w \in Waiter, WaitStep(w) PROVE Closed'
      BY <2>2 DEF WaitStep, LockWaitAll, ReleaseWaitAll
    <2>3. CASE UNCHANGED latchVars
      BY <2>3 DEF latchVars
    <2> QED
      BY <2>1, <2>2, <2>3 DEF LatchNext
  <1>3. LatchIInv /\ Closed => NeverOpensAtZero
    BY LatchAssumption DEF LatchIInv, WaitAll, NeverOpensAtZero, Caller
  <1> QED
    BY <1>1, <1>2, <1>3, LatchInvariance, PTL DEF LatchSpec
-----------------------------------------------------------------------------
LEMMA LatchNextRefines ==
  ASSUME LatchIInv, [LatchNext]_latchVars
  PROVE  [Latch!Next]_(Latch!vars)
  <1> USE LatchAssumption DEF Latch!vars
  <1>t. /\ at \in [Caller -> Counting \cup {"countDown", "counted", "wait", "release", "passed"}]
        /\ \A w \in Waiter : at[w] \in {"wait", "release", "passed"}
    BY DEF LatchIInv, LatchTypeOK, WaitAll, Counting
  <1>1. ASSUME NEW t \in Counter, TestZero(t)
        PROVE  Latch!CountDown(t) \/ UNCHANGED Latch!vars
    BY <1>1, <1>t DEF TestZero, Latch!CountDown, Counted, Passed, Caller
  <1>2. ASSUME NEW t \in Counter, Open(t) PROVE Latch!CountDown(t)
    BY <1>2, <1>t DEF Open, Latch!CountDown, Counted, Passed, Caller
  <1>3. ASSUME NEW t \in Counter, EnterCount(t) \/ Load(t) \/ Store(t) \/ LeaveCount(t)
        PROVE  UNCHANGED Latch!vars
    BY <1>3, <1>t DEF EnterCount, Load, Store, LeaveCount, Counted, Passed, Caller
  <1>4. ASSUME NEW w \in Waiter, LockWaitAll(w) PROVE Latch!Pass(w)
    <2>1. Cardinality(Counted) >= Count
      BY <1>4 DEF LatchIInv, WaitAll, LockWaitAll
    <2>2. Passed' = Passed \cup {w} /\ w \notin Passed /\ Counted' = Counted
      BY <1>4, <1>t DEF LockWaitAll, Counted, Passed, Caller
    <2>3. Latch!Cardinality(Counted) = Cardinality(Counted)
      BY DEF Latch!Cardinality, Cardinality
    <2> QED
      BY <2>1, <2>2, <2>3 DEF Latch!Pass
  <1>5. ASSUME NEW w \in Waiter, ReleaseWaitAll(w) PROVE UNCHANGED Latch!vars
    BY <1>5, <1>t DEF ReleaseWaitAll, Counted, Passed, Caller
  <1>6. CASE UNCHANGED latchVars
    BY <1>6 DEF latchVars, Counted, Passed
  <1> QED
    BY <1>1, <1>2, <1>3, <1>4, <1>5, <1>6
    DEF LatchNext, CountStep, WaitStep, Latch!Next

\* The latch with its two mutexes implements the atomic one: nobody passes
\* wait() before countDown() has been called Count times.
THEOREM ImplementsLatch == LatchSpec => ImplementsAtomicLatch
  <1>1. LatchInit => Latch!Init
    BY LatchAssumption DEF LatchInit, Latch!Init, Counted, Passed, Caller
  <1> QED
    BY <1>1, LatchNextRefines, LatchInvariance, PTL DEF LatchSpec, ImplementsAtomicLatch, Latch!Spec
=============================================================================
