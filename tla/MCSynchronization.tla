-------------------------- MODULE MCSynchronization ---------------------------
(* Threads meet at a latch (CountDownLatch) or at a queue (BlockingQueue).  The    *)
(* two share no state, so that an instance in which all calls are those of the one *)
(* or all those of the other shows what both do together.                          *)
EXTENDS BlockingQueue, CountDownLatch

VARIABLE counting   \* the calls are those of the latch

allVars == <<latchVars, vars, counting>>

Either == LatchInit /\ Init /\ counting \in BOOLEAN

AnyCall ==
  \/ counting /\ LatchNext /\ UNCHANGED <<vars, counting>>
  \/ ~counting /\ Next /\ UNCHANGED <<latchVars, counting>>

\* With the fairness of FairLatchSpec, or that of FairSpec
SynchronizationSpec ==
  /\ Either /\ [][AnyCall]_allVars
  /\ \A t \in Counter : WF_allVars(counting /\ CountStep(t) /\ UNCHANGED <<vars, counting>>)
  /\ \A w \in Waiter : WF_allVars(counting /\ WaitStep(w) /\ UNCHANGED <<vars, counting>>)
  /\ \A t \in Thread : WF_allVars(~counting /\ Step(t) /\ UNCHANGED <<latchVars, counting>>)
=============================================================================
