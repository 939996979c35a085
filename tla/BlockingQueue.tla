---------------------------- MODULE BlockingQueue ----------------------------
(***************************************************************************)
(* BlockingQueue<T> (src/unused/blocking_queue.h) at the grain of its      *)
(* mutex and its condition variable.  Every thread calls the operations of *)
(* its role again and again; a thread may have several roles.              *)
(*                                                                         *)
(* std::mutex and std::condition_variable are modelled by what C++         *)
(* promises of them: wait() releases the mutex and blocks in one step,     *)
(* notify_one() releases one blocked thread if there is one, a blocked     *)
(* thread may also wake spuriously, and wait_for() reports a timeout       *)
(* whenever its deadline has passed by the time it owns the mutex again,   *)
(* even if the thread had been notified.                                   *)
(***************************************************************************)
EXTENDS Naturals, Sequences, FiniteSets

CONSTANTS
  Pusher,       \* threads that call push()
  Popper,       \* threads that call pop() or pop(T&)
  TimedPopper,  \* threads that call pop_wait_for()
  Item,         \* the values pushed
  NoItem,       \* no value: nothing popped, or pop_wait_for() returned false
  NoThread,     \* the mutex is free
  MaxLen        \* bound: push() is not called on a queue this long

Thread == Pusher \cup Popper \cup TimedPopper

ASSUME QueueAssumption ==
  /\ IsFiniteSet(Thread)
  /\ NoThread \notin Thread
  /\ NoItem \notin Item
  /\ MaxLen \in Nat \ {0}

VARIABLES
  queue,  \* queue_
  mutex,  \* the owner of mutex_, or NoThread
  pc,     \* pc[t]: where thread t is
  op,     \* op[t]: the operation t is in, "none" between two calls
  item    \* item[t]: the argument of push, or the item popped

vars == <<queue, mutex, pc, op, item>>

\* Points of the code at which a thread owns mutex_.
Critical == {"append", "test", "wait", "refuse", "front", "remove"}

Location == {"idle", "lock", "notify", "asleep", "notified", "expired"} \cup Critical

Goto(t, from, to) ==
  /\ pc[t] = from
  /\ pc' = [pc EXCEPT ![t] = to]

Init ==
  /\ queue = <<>>
  /\ mutex = NoThread
  /\ pc = [t \in Thread |-> "idle"]
  /\ op = [t \in Thread |-> "none"]
  /\ item = [t \in Thread |-> NoItem]
-----------------------------------------------------------------------------
(* Faulty variants of the actions below, one slip each; the runs must reject *)
(* them.                                                                     *)

\* The newest item is put where the oldest is expected.
Enqueue_AtFront(t) ==
  /\ Goto(t, "append", "notify")
  /\ queue' = <<item[t]>> \o queue
  /\ mutex' = NoThread
  /\ UNCHANGED <<op, item>>

\* Only a push to an empty queue notifies.
Notify_OnlyFirst(t) ==
  /\ pc[t] = "notify"
  /\ \/ /\ Len(queue) # 1 \/ \A w \in Thread : pc[w] # "asleep"
        /\ pc' = [pc EXCEPT ![t] = "idle"]
     \/ \E w \in Thread :
          /\ Len(queue) = 1 /\ pc[w] = "asleep"
          /\ pc' = [pc EXCEPT ![t] = "idle", ![w] = "notified"]
  /\ op' = [op EXCEPT ![t] = "none"]
  /\ UNCHANGED <<queue, mutex, item>>

\* "if (queue_.empty())" instead of "while".
Relock_NoRetest(t) ==
  /\ mutex = NoThread /\ mutex' = t
  /\ \/ Goto(t, "notified", "front")
     \/ Goto(t, "expired", "refuse")
  /\ UNCHANGED <<queue, op, item>>

\* "return false" leaves the mutex locked.
Refuse_KeepsMutex(t) ==
  /\ Goto(t, "refuse", "idle")
  /\ op' = [op EXCEPT ![t] = "none"]
  /\ UNCHANGED <<queue, mutex, item>>
-----------------------------------------------------------------------------
\* A thread calls push(i), pop() or pop_wait_for().
CallPush(t, i) ==
  /\ t \in Pusher
  /\ Len(queue) < MaxLen
  /\ Goto(t, "idle", "lock")
  /\ op' = [op EXCEPT ![t] = "push"]
  /\ item' = [item EXCEPT ![t] = i]
  /\ UNCHANGED <<queue, mutex>>

CallPop(t) ==
  /\ \/ t \in Popper /\ op' = [op EXCEPT ![t] = "pop"]
     \/ t \in TimedPopper /\ op' = [op EXCEPT ![t] = "pop_wait_for"]
  /\ Goto(t, "idle", "lock")
  /\ item' = [item EXCEPT ![t] = NoItem]
  /\ UNCHANGED <<queue, mutex>>

\* std::unique_lock<std::mutex> mlock(mutex_)
Lock(t) ==
  /\ mutex = NoThread
  /\ mutex' = t
  /\ Goto(t, "lock", IF op[t] = "push" THEN "append" ELSE "test")
  /\ UNCHANGED <<queue, op, item>>

\* queue_.push(item); mlock.unlock()
Enqueue(t) ==
  /\ Goto(t, "append", "notify")
  /\ queue' = Append(queue, item[t])
  /\ mutex' = NoThread
  /\ UNCHANGED <<op, item>>

\* cond_.notify_one(), after the unlock: some blocked thread, if there is one.
Notify(t) ==
  /\ pc[t] = "notify"
  /\ \/ /\ \A w \in Thread : pc[w] # "asleep"
        /\ pc' = [pc EXCEPT ![t] = "idle"]
     \/ \E w \in Thread :
          /\ pc[w] = "asleep"
          /\ pc' = [pc EXCEPT ![t] = "idle", ![w] = "notified"]
  /\ op' = [op EXCEPT ![t] = "none"]
  /\ UNCHANGED <<queue, mutex, item>>

\* while (queue_.empty())
Test(t) ==
  /\ Goto(t, "test", IF queue = <<>> THEN "wait" ELSE "front")
  /\ UNCHANGED <<queue, mutex, op, item>>

\* cond_.wait(mlock), cond_.wait_for(mlock, duration): release and block.
Wait(t) ==
  /\ Goto(t, "wait", "asleep")
  /\ mutex' = NoThread
  /\ UNCHANGED <<queue, op, item>>

\* A blocked thread wakes though nobody notified it.
SpuriousWakeup(t) ==
  /\ Goto(t, "asleep", "notified")
  /\ UNCHANGED <<queue, mutex, op, item>>

\* The deadline of wait_for passes.
Timeout(t) ==
  /\ op[t] = "pop_wait_for"
  /\ Goto(t, "asleep", "expired")
  /\ UNCHANGED <<queue, mutex, op, item>>

\* wait() and wait_for() own the mutex again and return.  The status is
\* timeout when the deadline has passed, which it may have done for a notified
\* thread too, while that thread was waiting for the mutex.
Relock(t) ==
  /\ mutex = NoThread
  /\ mutex' = t
  /\ \/ Goto(t, "notified", "test")
     \/ op[t] = "pop_wait_for" /\ Goto(t, "notified", "refuse")
     \/ Goto(t, "expired", "refuse")
  /\ UNCHANGED <<queue, op, item>>

\* return false
Refuse(t) ==
  /\ Goto(t, "refuse", "idle")
  /\ mutex' = NoThread
  /\ op' = [op EXCEPT ![t] = "none"]
  /\ UNCHANGED <<queue, item>>

\* item = queue_.front()
Front(t) ==
  /\ Goto(t, "front", "remove")
  /\ item' = [item EXCEPT ![t] = Head(queue)]
  /\ UNCHANGED <<queue, mutex, op>>

\* queue_.pop(); the return releases the mutex
Remove(t) ==
  /\ Goto(t, "remove", "idle")
  /\ queue' = Tail(queue)
  /\ mutex' = NoThread
  /\ op' = [op EXCEPT ![t] = "none"]
  /\ UNCHANGED item
-----------------------------------------------------------------------------
\* The steps of a call once it is made.
Step(t) ==
  \/ Lock(t) \/ Enqueue(t) \/ Notify(t)
  \/ Test(t) \/ Wait(t) \/ Timeout(t) \/ Relock(t) \/ Refuse(t)
  \/ Front(t) \/ Remove(t)

Next ==
  \E t \in Thread :
    \/ \E i \in Item : CallPush(t, i)
    \/ CallPop(t)
    \/ SpuriousWakeup(t)
    \/ Step(t)

Spec == Init /\ [][Next]_vars

\* The operating system runs every thread that can run and fires every timer;
\* nobody is obliged to call the queue, and no wakeup is ever spurious for sure.
Fairness == \A t \in Thread : WF_vars(Step(t))

FairSpec == Spec /\ Fairness

\* Callers of pop_wait_for that poll, as ActionDecryptConsumer::run does.
PollingSpec == FairSpec /\ \A t \in TimedPopper : WF_vars(CallPop(t))
-----------------------------------------------------------------------------
TypeOK ==
  /\ queue \in Seq(Item)
  /\ mutex \in Thread \cup {NoThread}
  /\ pc \in [Thread -> Location]
  /\ op \in [Thread -> {"none", "push", "pop", "pop_wait_for"}]
  /\ item \in [Thread -> Item \cup {NoItem}]

\* mutex_ protects the queue: exactly the thread between lock and unlock owns
\* it.  In particular wait() is the only way to leave the critical section and
\* come back to it, and it comes back as the owner.
MutexDiscipline ==
  \A t \in Thread : pc[t] \in Critical <=> mutex = t

\* What a thread has learned about the queue is still true when it acts on it:
\* it blocks only while the queue is empty, it calls front() and pop() only
\* while it is not, and pop() removes the very item that front() returned.
FreshKnowledge ==
  \A t \in Thread :
    /\ pc[t] = "wait" => queue = <<>>
    /\ pc[t] \in {"front", "remove"} => queue # <<>>
    /\ pc[t] = "remove" => item[t] = Head(queue)

\* Threads that will notify, or will look at the queue before they block.
Active ==
  {t \in Thread : pc[t] \in {"notify", "notified", "test", "front", "remove"}}

\* No lost wakeup: while a thread is blocked, every item in the queue has a
\* thread that is going to take it or to wake a thread for it.
NoLostWakeup ==
  (\E t \in Thread : pc[t] = "asleep") => Len(queue) <= Cardinality(Active)

\* Nobody is left blocked beside an item with nothing under way: when all
\* threads are blocked or outside the queue, a blocked one means an empty queue.
NoStuckPopper ==
  /\ \A t \in Thread : pc[t] \in {"idle", "asleep"}
  /\ \E t \in Thread : pc[t] = "asleep"
  => queue = <<>>

\* push and pop(): an item and a blocked thread do not stay so for ever; the
\* queue is drained, or some pop is about to return an item.
Progress ==
  (queue # <<>> /\ \E t \in Thread : pc[t] = "asleep")
    ~> (queue = <<>> \/ \E t \in Thread : pc[t] = "remove")

\* pop_wait_for(): a notification may be spent on a thread that reports a
\* timeout, but threads that keep polling still take every item.
Polled == (queue # <<>>) ~> (\E t \in Thread : pc[t] = "remove")
-----------------------------------------------------------------------------
\* Refinement: a call takes effect when push appends, when a pop removes, when
\* pop_wait_for has seen the queue empty.
callView ==
  [t \in Thread |->
    CASE op[t] = "pop_wait_for"
           /\ pc[t] \in {"wait", "asleep", "notified", "expired", "refuse"} -> "missed"
      [] pc[t] = "notify" -> "none"
      [] OTHER -> op[t]]

\* The result of a pop is visible when it returns.
itemView == [t \in Thread |-> IF pc[t] = "remove" THEN NoItem ELSE item[t]]

Atomic == INSTANCE AtomicQueue WITH call <- callView, item <- itemView

\* The queue with its mutex and condition variable behaves as the atomic one:
\* items come out once each, in the order they went in, and pop_wait_for
\* returns false only after having seen the queue empty.
ImplementsAtomicQueue == Atomic!Spec
=============================================================================
