----------------------------- MODULE AtomicLatch -----------------------------
(***************************************************************************)
(* What a CountDownLatch promises: nobody passes wait() before countDown() *)
(* has been called Count times.                                            *)
(***************************************************************************)
EXTENDS Naturals, FiniteSets

CONSTANTS Counter,  \* threads that call countDown(), once each
          Waiter,   \* threads that call wait()
          Count     \* the argument of the constructor

VARIABLES counted,  \* the counters whose countDown() has taken effect
          passed    \* the waiters whose wait() has returned

vars == <<counted, passed>>

Init ==
  /\ counted = {}
  /\ passed = {}

CountDown(t) ==
  /\ t \notin counted
  /\ counted' = counted \cup {t}
  /\ UNCHANGED passed

Pass(w) ==
  /\ Cardinality(counted) >= Count
  /\ w \notin passed
  /\ passed' = passed \cup {w}
  /\ UNCHANGED counted

Next ==
  \/ \E t \in Counter : CountDown(t)
  \/ \E w \in Waiter : Pass(w)

Spec == Init /\ [][Next]_vars
=============================================================================
