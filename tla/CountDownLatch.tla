--------------------------- MODULE CountDownLatch ---------------------------
(***************************************************************************)
(* CountDownLatch (src/unused/count_down_latch.h) at the grain of its two  *)
(* mutexes.  The constructor locks wait_all, the countDown() that reaches  *)
(* zero unlocks it from another thread, and wait() locks and releases it,  *)
(* so that waiters pass one after the other.                               *)
(*                                                                         *)
(* C++ leaves unlocking a mutex of another thread undefined; the mutex of  *)
(* the platform the Makefile builds for (linuxapp-gcc, a futex without an  *)
(* owner check) is a binary semaphore, and that is how wait_all is         *)
(* modelled.  Each thread makes one call, as in TestEnDecryption.cc.       *)
(***************************************************************************)
EXTENDS Integers, FiniteSets

CONSTANTS
  Counter,   \* threads that call countDown(), once each
  Waiter,    \* threads that call wait(), once each
  Count,     \* the argument of the constructor
  Free,      \* a mutex is free
  Creator    \* wait_all is still locked by the constructor

Caller == Counter \cup Waiter

ASSUME LatchAssumption ==
  /\ IsFiniteSet(Counter)
  /\ Counter \cap Waiter = {}
  /\ {Free, Creator} \cap Caller = {}
  /\ Free # Creator
  /\ Count \in Nat

VARIABLES
  count,       \* count
  countMutex,  \* the owner of count_mutex, or Free
  waitAll,     \* the owner of wait_all: Creator, a waiter, or Free
  at,          \* at[t]: where thread t is
  loaded       \* loaded[t]: the value of count that t's --count has read

latchVars == <<count, countMutex, waitAll, at, loaded>>

Move(t, from, to) ==
  /\ at[t] = from
  /\ at' = [at EXCEPT ![t] = to]

LatchInit ==
  /\ count = Count
  /\ countMutex = Free
  /\ waitAll = Creator
  /\ at = [t \in Caller |-> IF t \in Counter THEN "countDown" ELSE "wait"]
  /\ loaded = [t \in Counter |-> Count]
-----------------------------------------------------------------------------
(* Faulty variants of the actions below, one slip each; the runs must reject *)
(* them.                                                                     *)

\* count_mutex is not taken.
EnterCount_Unguarded(t) ==
  /\ countMutex' = t
  /\ Move(t, "countDown", "load")
  /\ UNCHANGED <<count, waitAll, loaded>>

\* "if (count == 1)"
TestZero_TooEarly(t) ==
  /\ Move(t, "test", IF count = 1 THEN "open" ELSE "leave")
  /\ UNCHANGED <<count, countMutex, waitAll, loaded>>

\* "if (count <= 0)"
TestZero_Again(t) ==
  /\ Move(t, "test", IF count <= 0 THEN "open" ELSE "leave")
  /\ UNCHANGED <<count, countMutex, waitAll, loaded>>

\* The waiter that passes keeps wait_all locked.
ReleaseWaitAll_Kept(w) ==
  /\ Move(w, "release", "passed")
  /\ UNCHANGED <<count, countMutex, waitAll, loaded>>
-----------------------------------------------------------------------------
\* countDown(): lock_guard lock(count_mutex)
EnterCount(t) ==
  /\ countMutex = Free
  /\ countMutex' = t
  /\ Move(t, "countDown", "load")
  /\ UNCHANGED <<count, waitAll, loaded>>

\* --count reads ...
Load(t) ==
  /\ Move(t, "load", "store")
  /\ loaded' = [loaded EXCEPT ![t] = count]
  /\ UNCHANGED <<count, countMutex, waitAll>>

\* ... and writes.
Store(t) ==
  /\ Move(t, "store", "test")
  /\ count' = loaded[t] - 1
  /\ UNCHANGED <<countMutex, waitAll, loaded>>

\* if (count == 0)
TestZero(t) ==
  /\ Move(t, "test", IF count = 0 THEN "open" ELSE "leave")
  /\ UNCHANGED <<count, countMutex, waitAll, loaded>>

\* wait_all.unlock()
Open(t) ==
  /\ Move(t, "open", "leave")
  /\ waitAll' = Free
  /\ UNCHANGED <<count, countMutex, loaded>>

\* ~lock_guard
LeaveCount(t) ==
  /\ Move(t, "leave", "counted")
  /\ countMutex' = Free
  /\ UNCHANGED <<count, waitAll, loaded>>

\* wait(): lock_guard lock(wait_all)
LockWaitAll(w) ==
  /\ waitAll = Free
  /\ waitAll' = w
  /\ Move(w, "wait", "release")
  /\ UNCHANGED <<count, countMutex, loaded>>

\* ~lock_guard: the waiter has passed, and lets the next one pass.
ReleaseWaitAll(w) ==
  /\ Move(w, "release", "passed")
  /\ waitAll' = Free
  /\ UNCHANGED <<count, countMutex, loaded>>

CountStep(t) ==
  EnterCount(t) \/ Load(t) \/ Store(t) \/ TestZero(t) \/ Open(t) \/ LeaveCount(t)

WaitStep(w) == LockWaitAll(w) \/ ReleaseWaitAll(w)

LatchNext ==
  \/ \E t \in Counter : CountStep(t)
  \/ \E w \in Waiter : WaitStep(w)

LatchSpec == LatchInit /\ [][LatchNext]_latchVars

\* Every thread that can run is run.
FairLatchSpec ==
  /\ LatchSpec
  /\ \A t \in Counter : WF_latchVars(CountStep(t))
  /\ \A w \in Waiter : WF_latchVars(WaitStep(w))
-----------------------------------------------------------------------------
LatchTypeOK ==
  /\ count \in Int
  /\ countMutex \in Counter \cup {Free}
  /\ waitAll \in Waiter \cup {Free, Creator}
  /\ at \in [Caller -> {"countDown", "load", "store", "test", "open", "leave",
                        "counted", "wait", "release", "passed"}]
  /\ loaded \in [Counter -> Int]

\* No countDown is lost: count is what the threads past --count have left of
\* the constructor's argument.
CountExact ==
  count = Count
            - Cardinality({t \in Counter : at[t] \notin {"countDown", "load", "store"}})

\* wait_all.unlock() is called on a mutex that the constructor still holds:
\* the latch opens once, and never unlocks wait_all under a waiter that is
\* inside its lock_guard, however many calls follow the last one counted.
OpenedOnce ==
  /\ \A t \in Counter : at[t] = "open" => waitAll = Creator
  /\ \A w \in Waiter : at[w] = "release" <=> waitAll = w

\* Once the calls have begun every waiter passes: there are enough of them to open
\* the latch, and what one waiter holds it gives to the next.
EverybodyPasses ==
  \A w \in Waiter : (\E t \in Counter : at[t] # "countDown") ~> at[w] = "passed"

\* A latch made for zero calls never lets anybody pass: no call reaches zero.
NeverOpensAtZero == Count = 0 => \A w \in Waiter : at[w] = "wait"
-----------------------------------------------------------------------------
\* Refinement: countDown takes effect when it has opened the latch, or has
\* found that it must not; wait when it owns wait_all.
Counted == {t \in Counter : at[t] \in {"leave", "counted"}}
Passed == {w \in Waiter : at[w] \in {"release", "passed"}}

Latch == INSTANCE AtomicLatch WITH counted <- Counted, passed <- Passed

ImplementsAtomicLatch == Latch!Spec
=============================================================================
