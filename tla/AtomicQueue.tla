----------------------------- MODULE AtomicQueue -----------------------------
(***************************************************************************)
(* What a BlockingQueue<T> promises its callers, without its mutex and its *)
(* condition variable: a call is made, takes effect in one step and        *)
(* returns.  pop() returns the oldest item, pop_wait_for() may also give   *)
(* up, but only when it has found the queue empty during the call.         *)
(***************************************************************************)
EXTENDS Naturals, Sequences

CONSTANTS Thread,   \* the threads that call the queue
          Item,     \* what can be pushed
          NoItem    \* "no result": a call in progress, or pop_wait_for() = false

VARIABLES queue,    \* the items pushed and not popped, oldest first
          call,     \* call[t]: the operation t is in, as far as a caller sees it
          item      \* item[t]: argument of push, or result of the last pop

vars == <<queue, call, item>>

Init ==
  /\ queue = <<>>
  /\ call = [t \in Thread |-> "none"]
  /\ item = [t \in Thread |-> NoItem]

\* Thread t calls push(i).
CallPush(t, i) ==
  /\ call[t] = "none"
  /\ call' = [call EXCEPT ![t] = "push"]
  /\ item' = [item EXCEPT ![t] = i]
  /\ UNCHANGED queue

\* Thread t calls pop() or pop_wait_for().
CallPop(t) ==
  /\ call[t] = "none"
  /\ \E c \in {"pop", "pop_wait_for"} : call' = [call EXCEPT ![t] = c]
  /\ item' = [item EXCEPT ![t] = NoItem]
  /\ UNCHANGED queue

\* push takes effect.
Push(t) ==
  /\ call[t] = "push"
  /\ queue' = Append(queue, item[t])
  /\ call' = [call EXCEPT ![t] = "none"]
  /\ UNCHANGED item

\* A pop takes the oldest item and returns it.
Take(t) ==
  /\ call[t] \in {"pop", "pop_wait_for"}
  /\ queue # <<>>
  /\ queue' = Tail(queue)
  /\ item' = [item EXCEPT ![t] = Head(queue)]
  /\ call' = [call EXCEPT ![t] = "none"]

\* pop_wait_for finds the queue empty and may give up from now on.
Miss(t) ==
  /\ call[t] = "pop_wait_for"
  /\ queue = <<>>
  /\ call' = [call EXCEPT ![t] = "missed"]
  /\ UNCHANGED <<queue, item>>

\* ... or it looks again,
Retry(t) ==
  /\ call[t] = "missed"
  /\ call' = [call EXCEPT ![t] = "pop_wait_for"]
  /\ UNCHANGED <<queue, item>>

\* ... or it returns false.
Refuse(t) ==
  /\ call[t] = "missed"
  /\ call' = [call EXCEPT ![t] = "none"]
  /\ UNCHANGED <<queue, item>>

Next ==
  \E t \in Thread :
    \/ \E i \in Item : CallPush(t, i)
    \/ CallPop(t)
    \/ Push(t)
    \/ Take(t)
    \/ Miss(t)
    \/ Retry(t)
    \/ Refuse(t)

Spec == Init /\ [][Next]_vars
=============================================================================
