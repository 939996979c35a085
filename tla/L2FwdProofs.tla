----------------------------- MODULE L2FwdProofs -----------------------------
(***************************************************************************)
(* Proofs about L2Fwd, for any number of ports, lcores and packets: the    *)
(* types, the bounds of the buffers among them, that no two lcores ever    *)
(* send to one port, and that no packet and no mbuf is lost.               *)
(***************************************************************************)
EXTENDS L2Fwd, FiniteSetTheorems, WellFoundedInduction, TLAPS

USE DEF Port, Lcore

LEMMA Sizes ==
  /\ MaxPorts \in Nat /\ MaxPorts > 0 /\ MaxLcore \in Nat /\ MaxLcore > 0
  /\ MaskBits \in Nat /\ MaxQueues \in Nat /\ MaxQueues > 0
  /\ MaxPktBurst \in Nat /\ MaxPktBurst > 0
  /\ MaxCheckTime \in Nat /\ MaxCheckTime > 0
  /\ NbMbuf \in Nat /\ Null \notin Nat
  BY L2FwdAssumption DEF L2FwdAssumption
-----------------------------------------------------------------------------
(* Types.  Those of main's variables rest on how far main has come and on    *)
(* the end of the link check, those of the loops on which buffer may be full.*)

Numbers ==
  /\ main \in {"eal", "options", "pool", "pair", "assign", "start", "links", "launch",
               "running", "exited"}
  /\ nbPorts \in 0..MaxPorts
  /\ portid \in 0..nbPorts
  /\ inMask \in 0..nbPorts
  /\ rxLcore \in 0..MaxLcore
  /\ main \in {"eal", "options", "pool"} => nbPorts = 0 /\ portid = 0 /\ inMask = 0
  /\ main = "pair" => inMask <= portid
  /\ main \in {"eal", "options", "pool", "pair"} => rxLcore = 0
  /\ main = "assign" => rxLcore < MaxLcore

Shapes ==
  /\ enabled \subseteq Lcore
  /\ options \in [mask : SUBSET (0..MaskBits-1), queues : 0..MaxQueues]
  /\ dst \in [Port -> Port] /\ lastPort \in Port
  /\ rxPorts \in [Lcore -> SUBSET Port]
  /\ started \subseteq Port
  /\ links \in [count : 0..MaxCheckTime, print : BOOLEAN, printed : BOOLEAN]
  /\ ~links.print => links.count < MaxCheckTime

MainTypes == Numbers /\ Shapes

\* Only the buffer that is being sent is full.
LoopTypes ==
  /\ pc \in [Lcore -> {"wait", "top", "drain", "receive", "forward", "returned"}]
  /\ todo \in [Lcore -> SUBSET Port]
  /\ batch \in [Lcore -> Burst \cup {NoBatch}]
  /\ len \in [Lcore -> [Port -> 0..MaxPktBurst]]
  /\ burst \in [Lcore -> Burst \cup {Null}]
  /\ stats \in [Port -> Counters]
  /\ pool \in Nat
  /\ wire \in [Port -> Nat]
  /\ \A l \in Lcore, p \in Port :
       len[l][p] = MaxPktBurst => burst[l] # Null /\ burst[l].port = p

Typed == MainTypes /\ LoopTypes

LEMMA InitTyped == Init => Typed
  BY Sizes
  DEF Init, Typed, MainTypes, Numbers, Shapes, LoopTypes, Burst, Counters, NoTraffic, NoLinks, NoBatch

\* What main does leaves the loops alone until the launch.
LEMMA MainStepTyped == Typed /\ MainStep => Typed'
  <1> SUFFICES ASSUME Numbers, Shapes, LoopTypes, MainStep
               PROVE  Numbers' /\ Shapes' /\ LoopTypes'
    BY DEF Typed, MainTypes
  <1>u. ASSUME UNCHANGED loop PROVE LoopTypes'
    BY <1>u DEF LoopTypes, loop, traffic
  <1>s. ASSUME UNCHANGED setup PROVE /\ UNCHANGED <<nbPorts, portid, inMask, rxLcore>>
                                     /\ UNCHANGED enabled => Shapes'
    BY <1>s DEF setup, pairing, Shapes
  <1>1. CASE EalInit
    BY <1>1, <1>u, <1>s DEF EalInit, GoOn, Numbers
  <1>2. ASSUME NEW arg \in (SUBSET (0..MaskBits)) \cup {Null}, ParsePortmask(arg)
         PROVE  Numbers' /\ Shapes' /\ LoopTypes'
    <2> DEFINE mask == IF arg = Null \/ arg = {} THEN 0..MaskBits-1
                       ELSE arg \cap (0..MaskBits-1)
    <2>1. mask \in SUBSET (0..MaskBits-1)
      OBVIOUS
    <2> HIDE DEF mask
    <2>2. options' = [options EXCEPT !.mask = mask]
      BY <1>2 DEF ParsePortmask, mask
    <2>3. /\ main = "options" /\ main' \in {"options", "exited"}
          /\ UNCHANGED <<enabled, nbPorts, portid, dst, lastPort, inMask, rxLcore, rxPorts,
                         started, links, loop>>
      BY <1>2 DEF ParsePortmask, GoOn, pairing
    <2>4. Numbers'
      BY <2>3 DEF Numbers
    <2>5. Shapes'
      BY <2>1, <2>2, <2>3 DEF Shapes
    <2> QED
      BY <2>3, <2>4, <2>5, <1>u
  <1>3. ASSUME NEW arg \in 0..MaxQueues \cup {Null}, ParseQueues(arg)
         PROVE  Numbers' /\ Shapes' /\ LoopTypes'
    <2> DEFINE n == IF arg = Null \/ arg >= MaxQueues THEN 0 ELSE arg
    <2>1. n \in 0..MaxQueues
      BY Sizes
    <2> HIDE DEF n
    <2>2. options' = [options EXCEPT !.queues = n]
      BY <1>3 DEF ParseQueues, n
    <2>3. /\ main = "options" /\ main' \in {"options", "exited"}
          /\ UNCHANGED <<enabled, nbPorts, portid, dst, lastPort, inMask, rxLcore, rxPorts,
                         started, links, loop>>
      BY <1>3 DEF ParseQueues, GoOn, pairing
    <2>4. Numbers'
      BY <2>3 DEF Numbers
    <2>5. Shapes'
      BY <2>1, <2>2, <2>3 DEF Shapes
    <2> QED
      BY <2>3, <2>4, <2>5, <1>u
  <1>4. ASSUME NEW valid \in BOOLEAN, ParseTimer(valid)
         PROVE  Numbers' /\ Shapes' /\ LoopTypes'
    BY <1>4, <1>u, <1>s DEF ParseTimer, GoOn, Numbers
  <1>5. CASE EndOfOptions
    BY <1>5, <1>u, <1>s DEF EndOfOptions, GoOn, Numbers
  <1>6. ASSUME NEW found \in 0..MaxPorts+1, CountPorts(found)
         PROVE  Numbers' /\ Shapes' /\ LoopTypes'
    <2>1. /\ main = "pool" /\ main' \in {"exited", "pair"}
          /\ nbPorts' = IF found > MaxPorts THEN MaxPorts ELSE found
          /\ UNCHANGED <<enabled, options, portid, dst, lastPort, inMask, rxLcore, rxPorts, started, links,
                         loop>>
      BY <1>6 DEF CountPorts, GoOn, pairing
    <2>2. Numbers'
      BY <2>1, Sizes DEF Numbers
    <2>3. Shapes'
      BY <2>1 DEF Shapes
    <2> QED
      BY <2>1, <2>2, <2>3, <1>u
  <1>7. CASE PairPort
    <2>1. /\ main = "pair" /\ main' = "pair" /\ portid < nbPorts /\ portid' = portid + 1
          /\ UNCHANGED <<enabled, options, nbPorts, rxLcore, rxPorts, started, links,
                         loop>>
      BY <1>7 DEF PairPort, GoOn, pairing
    <2>2. /\ dst' \in [Port -> Port] /\ lastPort' \in Port
          /\ inMask' \in {inMask, inMask + 1}
      <3>1. portid \in Port
        BY <2>1, Sizes DEF Numbers
      <3> QED
        BY <1>7, <3>1 DEF PairPort, Shapes, pairing
    <2>3. Numbers'
      BY <2>1, <2>2, Sizes DEF Numbers
    <2>4. Shapes'
      BY <2>1, <2>2 DEF Shapes
    <2> QED
      BY <2>1, <2>3, <2>4, <1>u
  <1>8. CASE EndOfPairs
    <2>1. /\ main = "pair" /\ main' = "assign" /\ portid' = 0
          /\ UNCHANGED <<enabled, options, nbPorts, lastPort, inMask, rxLcore, rxPorts, started, links,
                         loop>>
      BY <1>8 DEF EndOfPairs, GoOn, pairing
    <2>2. dst' \in [Port -> Port]
      BY <1>8 DEF EndOfPairs, Shapes
    <2>3. Numbers'
      BY <2>1, Sizes DEF Numbers
    <2>4. Shapes'
      BY <2>1, <2>2 DEF Shapes
    <2> QED
      BY <2>1, <2>3, <2>4, <1>u
  <1>9. CASE NextLcore
    <2>1. /\ main = "assign" /\ rxLcore' = rxLcore + 1
          /\ main' = IF rxLcore + 1 >= MaxLcore THEN "exited" ELSE "assign"
          /\ UNCHANGED <<enabled, options, nbPorts, portid, dst, lastPort, inMask, rxPorts, started, links,
                         loop>>
      BY <1>9 DEF NextLcore, GoOn, pairing
    <2>2. Numbers'
      BY <2>1, Sizes DEF Numbers
    <2>3. Shapes'
      BY <2>1 DEF Shapes
    <2> QED
      BY <2>1, <2>2, <2>3, <1>u
  <1>10. CASE AssignPort
    <2>1. /\ main = "assign" /\ main' = "assign" /\ portid < nbPorts /\ portid' = portid + 1
          /\ UNCHANGED <<enabled, options, nbPorts, dst, lastPort, inMask, rxLcore, started, links,
                         loop>>
      BY <1>10 DEF AssignPort, GoOn, pairing
    <2>2. rxPorts' \in [Lcore -> SUBSET Port]
      <3>1. portid \in Port /\ rxLcore \in Lcore
        BY <2>1, Sizes DEF Numbers
      <3> QED
        BY <1>10, <3>1 DEF AssignPort, Shapes
    <2>3. Numbers'
      BY <2>1, Sizes DEF Numbers
    <2>4. Shapes'
      BY <2>1, <2>2 DEF Shapes
    <2> QED
      BY <2>1, <2>3, <2>4, <1>u
  <1>11. CASE EndOfAssignment
    <2>1. /\ main = "assign" /\ main' = "start" /\ portid' = 0
          /\ UNCHANGED <<enabled, options, nbPorts, dst, lastPort, inMask, rxLcore, rxPorts, started, links,
                         loop>>
      BY <1>11 DEF EndOfAssignment, GoOn, pairing
    <2>2. Numbers'
      BY <2>1, Sizes DEF Numbers
    <2>3. Shapes'
      BY <2>1 DEF Shapes
    <2> QED
      BY <2>1, <2>2, <2>3, <1>u
  <1>12. CASE StartPort
    <2>1. /\ main = "start" /\ main' = "start" /\ portid < nbPorts /\ portid' = portid + 1
          /\ UNCHANGED <<enabled, options, nbPorts, dst, lastPort, inMask, rxLcore, rxPorts, links,
                         loop>>
      BY <1>12 DEF StartPort, GoOn, pairing
    <2>2. started' \subseteq Port
      BY <1>12, <2>1, Sizes DEF StartPort, Numbers, Shapes
    <2>3. Numbers'
      BY <2>1, Sizes DEF Numbers
    <2>4. Shapes'
      BY <2>1, <2>2 DEF Shapes
    <2> QED
      BY <2>1, <2>3, <2>4, <1>u
  <1>13. CASE EndOfPorts
    BY <1>13, <1>u, <1>s DEF EndOfPorts, GoOn, Numbers
  <1>14. ASSUME NEW allUp \in BOOLEAN, CheckLinks(allUp)
         PROVE  Numbers' /\ Shapes' /\ LoopTypes'
    <2>1. /\ main = "links" /\ main' \in {"launch", "links"}
          /\ UNCHANGED <<enabled, options, nbPorts, portid, dst, lastPort, inMask, rxLcore, rxPorts, started,
                         loop>>
      BY <1>14 DEF CheckLinks, GoOn, pairing
    <2>2. /\ links' \in [count : 0..MaxCheckTime, print : BOOLEAN, printed : BOOLEAN]
          /\ ~links'.print => links'.count < MaxCheckTime
      <3>1. CASE links.print
        <4>1. links' = [count |-> 0, print |-> FALSE, printed |-> links.print]
          BY <1>14, <3>1 DEF CheckLinks, NoLinks
        <4>2. links.print \in BOOLEAN /\ 0 \in 0..MaxCheckTime /\ 0 < MaxCheckTime
          BY Sizes DEF Shapes
        <4> QED
          BY <4>1, <4>2
      <3>2. CASE ~links.print
        <4> DEFINE up == allUp \/ links.count = MaxCheckTime - 1
        <4>1. links.count \in 0..MaxCheckTime /\ links.count < MaxCheckTime
          BY <3>2 DEF Shapes
        <4>2. links' = [links EXCEPT !.count = links.count + 1, !.print = up]
          BY <1>14, <3>2, <4>1, Sizes DEF CheckLinks
        <4>3. up \in BOOLEAN
          OBVIOUS
        <4>4. /\ ~up => links.count + 1 < MaxCheckTime
              /\ links.count + 1 \in 0..MaxCheckTime
          BY <4>1, Sizes
        <4> HIDE DEF up
        <4> QED
          BY <4>2, <4>3, <4>4 DEF Shapes
      <3> QED
        BY <3>1, <3>2
    <2>3. Numbers'
      BY <2>1, <2>2, Sizes DEF Numbers
    <2>4. Shapes'
      BY <2>1, <2>2 DEF Shapes
    <2> QED
      BY <2>1, <2>3, <2>4, <1>u
  <1>15. CASE Launch
    <2>1. /\ main = "launch" /\ main' = "running" /\ UNCHANGED <<enabled, setup>>
          /\ pc' = [l \in Lcore |->
                      IF l \in enabled /\ rxPorts[l] # {} THEN "top" ELSE "returned"]
          /\ UNCHANGED <<todo, batch, len, burst, stats, pool, wire>>
      BY <1>15 DEF Launch, traffic
    <2>2. LoopTypes'
      BY <2>1 DEF LoopTypes
    <2> QED
      BY <2>1, <2>2, <1>s DEF Numbers
  <1> QED
    BY <1>1, <1>2, <1>3, <1>4, <1>5, <1>6, <1>7, <1>8, <1>9, <1>10, <1>11, <1>12, <1>13,
       <1>14, <1>15 DEF MainStep

\* A step of a loop leaves main's variables alone.
LEMMA LcoreStepFrame ==
  ASSUME NEW l \in Lcore, LcoreStep(l)
  PROVE  UNCHANGED <<main, enabled, setup>>
  BY DEF LcoreStep, StartDrain, StartRound, EndDrain, EndOfRound, DrainPort, BurstReturns,
         Receive, Forward, EndOfBatch, Goto

LEMMA LcoreStepTyped ==
  ASSUME Numbers, Shapes, LoopTypes, NEW l \in Lcore, LcoreStep(l)
  PROVE  LoopTypes'
  <1>f. UNCHANGED dst
    BY LcoreStepFrame DEF setup, pairing
  <1>t. /\ pc[l] \in {"wait", "top", "drain", "receive", "forward", "returned"}
        /\ rxPorts[l] \in SUBSET Port /\ todo[l] \in SUBSET Port
        /\ len[l] \in [Port -> 0..MaxPktBurst]
        /\ batch[l] \in Burst \cup {NoBatch}
        /\ burst[l] \in Burst \cup {Null}
    BY DEF LoopTypes, Shapes
  <1>1. CASE StartDrain(l)
    BY <1>1 DEF StartDrain, Goto, LoopTypes, traffic
  <1>2. CASE StartRound(l)
    BY <1>2, <1>t DEF StartRound, Goto, LoopTypes, traffic
  <1>3. CASE EndDrain(l)
    BY <1>3, <1>t DEF EndDrain, Goto, LoopTypes, traffic
  <1>4. CASE EndOfRound(l)
    BY <1>4 DEF EndOfRound, Goto, LoopTypes, traffic
  <1>5. ASSUME NEW p \in Port, DrainPort(l, p) PROVE LoopTypes'
    <2>1. /\ burst' = [burst EXCEPT ![l] = [port |-> p, n |-> len[l][p]]]
          /\ UNCHANGED <<todo, batch, len, stats, pool, wire>>
          /\ pc' = [pc EXCEPT ![l] = "drain"]
          /\ burst[l] = Null
      BY <1>5 DEF DrainPort, SendBurst, Goto
    <2>2. [port |-> p, n |-> len[l][p]] \in Burst
      BY <1>t DEF Burst
    <2>3. burst' \in [Lcore -> Burst \cup {Null}]
      BY <2>1, <2>2 DEF LoopTypes
    <2>4. \A k \in Lcore, q \in Port :
            len'[k][q] = MaxPktBurst => burst'[k] # Null /\ burst'[k].port = q
      BY <2>1, <2>2 DEF LoopTypes
    <2> QED
      BY <2>1, <2>3, <2>4 DEF LoopTypes
  <1>6. ASSUME NEW sent \in 0..MaxPktBurst, BurstReturns(l, sent) PROVE LoopTypes'
    <2> DEFINE p == burst[l].port
               lost == burst[l].n - sent
    <2>1. burst[l] # Null /\ p \in Port /\ burst[l].n \in 0..MaxPktBurst
      BY <1>6, <1>t DEF BurstReturns, Burst
    <2>2. lost \in Nat
      BY <1>6, <2>1, Sizes DEF BurstReturns
    <2>3. /\ stats' = [stats EXCEPT ![p].tx = @ + sent, ![p].dropped = @ + lost]
          /\ pool' = pool + lost
          /\ wire' = [wire EXCEPT ![p] = @ + sent]
          /\ len' = [len EXCEPT ![l][p] = 0]
          /\ burst' = [burst EXCEPT ![l] = Null]
          /\ UNCHANGED <<pc, todo, batch>>
      BY <1>6 DEF BurstReturns
    <2> HIDE DEF p, lost
    <2>p. p \in Port
      BY <2>1
    <2>4. stats' \in [Port -> Counters]
      <3>1. stats \in [Port -> Counters] /\ stats[p] \in Counters
        BY <2>p DEF LoopTypes
      <3>2. [stats[p] EXCEPT !.tx = @ + sent, !.dropped = @ + lost] \in Counters
        <4>1. /\ stats[p].tx + sent \in Nat /\ stats[p].dropped + lost \in Nat
              /\ stats[p] = [tx |-> stats[p].tx, rx |-> stats[p].rx,
                             dropped |-> stats[p].dropped]
              /\ stats[p].rx \in Nat
          BY <3>1, <2>2 DEF Counters
        <4> QED
          BY <4>1 DEF Counters
      <3>3. stats' = [stats EXCEPT
                        ![p] = [stats[p] EXCEPT !.tx = @ + sent, !.dropped = @ + lost]]
        BY <2>3, <2>p, <3>1 DEF Counters
      <3> QED
        BY <3>1, <3>2, <3>3
    <2>5. pool' \in Nat /\ wire' \in [Port -> Nat]
      <3>1. pool \in Nat /\ wire \in [Port -> Nat] /\ wire[p] \in Nat
        BY <2>p DEF LoopTypes
      <3>2. wire[p] + sent \in Nat /\ pool + lost \in Nat
        BY <2>2, <3>1
      <3> QED
        BY <2>3, <3>1, <3>2
    <2>e. 0 \in 0..MaxPktBurst /\ 0 # MaxPktBurst
      BY Sizes
    <2>h. /\ len \in [Lcore -> [Port -> 0..MaxPktBurst]]
          /\ burst \in [Lcore -> Burst \cup {Null}]
      BY DEF LoopTypes
    <2>6. /\ len' \in [Lcore -> [Port -> 0..MaxPktBurst]]
          /\ burst' \in [Lcore -> Burst \cup {Null}]
      BY <2>p, <2>3, <2>e, <2>h
    <2>7. ASSUME NEW k \in Lcore, NEW q \in Port, len'[k][q] = MaxPktBurst
          PROVE  burst'[k] # Null /\ burst'[k].port = q
      <3>1. ~(k = l /\ q = p)
        BY <2>7, <2>p, <2>3, <2>e, <2>h
      <3>2. len[k][q] = MaxPktBurst
        BY <2>7, <2>p, <2>3, <2>h, <3>1
      <3>3. burst[k] # Null /\ burst[k].port = q
        BY <3>2 DEF LoopTypes
      <3>4. k # l
        BY <3>1, <3>3 DEF p
      <3> QED
        BY <2>3, <2>h, <3>3, <3>4
    <2> QED
      BY <2>3, <2>4, <2>5, <2>6, <2>7 DEF LoopTypes
  <1>7. ASSUME NEW p \in Port, NEW n \in 0..MaxPktBurst, Receive(l, p, n) PROVE LoopTypes'
    <2>1. /\ pc' = [pc EXCEPT ![l] = "forward"]
          /\ pool' = pool - n /\ n <= pool
          /\ stats' = [stats EXCEPT ![p].rx = @ + n]
          /\ batch' = [batch EXCEPT ![l] = [port |-> p, n |-> n]]
          /\ todo' = [todo EXCEPT ![l] = @ \ {p}]
          /\ UNCHANGED <<len, burst, wire>>
      BY <1>7 DEF Receive, Goto
    <2>2. /\ pool' \in Nat
          /\ stats' \in [Port -> Counters]
      <3>1. /\ pool \in Nat
            /\ stats \in [Port -> Counters] /\ stats[p] \in Counters
        BY DEF LoopTypes
      <3>2. [stats[p] EXCEPT !.rx = @ + n] \in Counters
        BY <3>1 DEF Counters
      <3> QED
        BY <2>1, <3>1, <3>2
    <2>3. /\ batch' \in [Lcore -> Burst \cup {NoBatch}]
          /\ todo' \in [Lcore -> SUBSET Port]
      BY <2>1 DEF LoopTypes, Burst
    <2> QED
      BY <2>1, <2>2, <2>3 DEF LoopTypes
  <1>8. CASE Forward(l)
    <2> DEFINE p == dst[batch[l].port]
    <2>1. /\ burst[l] = Null /\ batch[l].n > 0
          /\ batch' = [batch EXCEPT ![l].n = @ - 1]
          /\ len' = [len EXCEPT ![l][p] = @ + 1]
          /\ pc' = [pc EXCEPT ![l] = "forward"]
          /\ UNCHANGED <<todo, stats, pool, wire>>
          /\ IF len'[l][p] = MaxPktBurst
             THEN burst' = [burst EXCEPT ![l] = [port |-> p, n |-> len'[l][p]]]
             ELSE burst' = burst
      BY <1>8 DEF Forward, SendBurst, Goto
    <2>2. batch[l] \in Burst
      BY <2>1, <1>t DEF NoBatch
    <2>3. p \in Port
      BY <2>2 DEF Burst, Shapes
    <2> HIDE DEF p
    <2>4. len[l][p] \in 0..MaxPktBurst /\ len[l][p] < MaxPktBurst
      BY <2>1, <2>3, <1>t, Sizes DEF LoopTypes
    <2>5. /\ len' \in [Lcore -> [Port -> 0..MaxPktBurst]]
          /\ len'[l][p] = len[l][p] + 1
          /\ \A k \in Lcore, q \in Port : k # l \/ q # p => len'[k][q] = len[k][q]
      <3>1. len[l][p] + 1 \in 0..MaxPktBurst
        BY <2>4, Sizes
      <3>2. len \in [Lcore -> [Port -> 0..MaxPktBurst]]
        BY DEF LoopTypes
      <3> QED
        BY <2>1, <2>3, <3>1, <3>2
    <2>6. batch' \in [Lcore -> Burst \cup {NoBatch}]
      <3>1. [batch[l] EXCEPT !.n = @ - 1] \in Burst
        BY <2>1, <2>2, Sizes DEF Burst
      <3> QED
        BY <2>1, <3>1 DEF LoopTypes
    <2>7. burst' \in [Lcore -> Burst \cup {Null}]
      <3>1. [port |-> p, n |-> len'[l][p]] \in Burst
        BY <2>3, <2>5 DEF Burst
      <3> QED
        BY <2>1, <3>1 DEF LoopTypes
    <2>8. ASSUME NEW k \in Lcore, NEW q \in Port, len'[k][q] = MaxPktBurst
          PROVE  burst'[k] # Null /\ burst'[k].port = q
      <3>1. CASE k = l /\ q = p
        <4>1. burst'[l] = [port |-> p, n |-> len'[l][p]]
          BY <2>1, <2>8, <3>1 DEF LoopTypes
        <4>2. burst'[l] # Null
          <5>1. len'[l][p] \in 0..MaxPktBurst
            BY <2>3, <2>5
          <5>2. burst'[l] \in Burst
            BY <4>1, <2>3, <5>1 DEF Burst
          <5> QED
            BY <5>2, NullAssumption
        <4> QED
          BY <3>1, <4>1, <4>2
      <3>2. CASE k # l \/ q # p
        <4>1. len[k][q] = MaxPktBurst
          BY <2>5, <2>8, <3>2
        <4>2. k # l /\ burst[k] # Null /\ burst[k].port = q
          BY <4>1, <2>1 DEF LoopTypes
        <4> QED
          BY <4>2, <2>1 DEF LoopTypes
      <3> QED
        BY <3>1, <3>2
    <2> QED
      BY <2>1, <2>5, <2>6, <2>7, <2>8 DEF LoopTypes
  <1>9. CASE EndOfBatch(l)
    BY <1>9 DEF EndOfBatch, Goto, LoopTypes, traffic
  <1> QED
    BY <1>1, <1>2, <1>3, <1>4, <1>5, <1>6, <1>7, <1>8, <1>9 DEF LcoreStep

LEMMA SentTyped ==
  ASSUME LoopTypes, NEW p \in Port, NEW n \in 1..NbMbuf, Sent(p, n)
  PROVE  LoopTypes'
  <1>1. /\ wire' = [wire EXCEPT ![p] = @ - n] /\ n \in 1..wire[p]
        /\ pool' = pool + n
        /\ UNCHANGED <<pc, todo, batch, len, burst, stats>>
    BY DEF Sent
  <1>2. pool' \in Nat /\ wire' \in [Port -> Nat]
    <2>1. pool \in Nat /\ wire \in [Port -> Nat] /\ wire[p] \in Nat
      BY DEF LoopTypes
    <2>2. wire[p] - n \in Nat
      BY <1>1, <2>1
    <2> QED
      BY <1>1, <2>1, <2>2, Sizes
  <1> QED
    BY <1>1, <1>2 DEF LoopTypes

LEMMA NextTyped == Typed /\ [Next]_vars => Typed'
  <1> SUFFICES ASSUME Numbers, Shapes, LoopTypes, [Next]_vars
               PROVE  Numbers' /\ Shapes' /\ LoopTypes'
    BY DEF Typed, MainTypes
  <1>m. ASSUME UNCHANGED <<main, enabled, setup>> PROVE Numbers' /\ Shapes'
    BY <1>m DEF setup, pairing, Numbers, Shapes
  <1>1. CASE MainStep
    BY <1>1, MainStepTyped DEF Typed, MainTypes
  <1>2. CASE Failure
    BY <1>2 DEF Failure, Exit, setup, pairing, loop, traffic, Numbers, Shapes, LoopTypes
  <1>3. ASSUME NEW l \in Lcore, LcoreStep(l) PROVE Numbers' /\ Shapes' /\ LoopTypes'
    BY <1>3, <1>m, LcoreStepFrame, LcoreStepTyped
  <1>4. ASSUME NEW p \in Port, NEW n \in 1..NbMbuf, Sent(p, n)
        PROVE  Numbers' /\ Shapes' /\ LoopTypes'
    BY <1>4, <1>m, SentTyped DEF Sent
  <1>5. CASE UNCHANGED vars
    BY <1>5, <1>m DEF vars, loop, traffic, LoopTypes
  <1> QED
    BY <1>1, <1>2, <1>3, <1>4, <1>5 DEF Next

LEMMA AlwaysTyped == Spec => []Typed
  BY InitTyped, NextTyped, PTL DEF Spec

\* Every variable keeps its type: no buffer of an lcore outgrows its table, no
\* counter of mbufs falls below zero, and the dealing out of ports never looks at
\* an lcore that does not exist.
THEOREM TypeCorrect == Spec => []TypeOK
  <1>1. Typed => TypeOK
    BY DEF Typed, MainTypes, Numbers, Shapes, LoopTypes, TypeOK
  <1> QED
    BY <1>1, AlwaysTyped, PTL

\* Whatever the driver takes of the bursts, Forward never writes behind the table
\* m_table of a port: a table is full only while it is being sent.
THEOREM AlwaysFits == Spec => []WithinTable
  <1>1. Typed => WithinTable
    <2> SUFFICES ASSUME LoopTypes, NEW l \in Lcore, NEW p \in Port
                 PROVE  /\ len[l][p] <= MaxPktBurst
                        /\ len[l][p] = MaxPktBurst => burst[l] # Null /\ burst[l].port = p
      BY DEF Typed, WithinTable
    <2>1. len[l][p] \in 0..MaxPktBurst
      <3>1. len \in [Lcore -> [Port -> 0..MaxPktBurst]]
        BY DEF LoopTypes
      <3> QED
        BY <3>1
    <2>2. len[l][p] = MaxPktBurst => burst[l] # Null /\ burst[l].port = p
      BY DEF LoopTypes
    <2> QED
      BY <2>1, <2>2, Sizes
  <1> QED
    BY <1>1, AlwaysTyped, PTL

\* However long the link check is allowed to last, it does not end before the round
\* that prints: by its last round but one, print_flag is set.  The argument is the
\* last conjunct of Shapes, which leaves the loop one way out.
THEOREM PrintsFirst == Spec => []LinksPrinted
  <1>1. Init => LinksPrinted
    BY DEF Init, LinksPrinted
  <1>2. Typed /\ LinksPrinted /\ [Next]_vars => LinksPrinted'
    <2> SUFFICES ASSUME Shapes, LinksPrinted, [Next]_vars,
                        main' \in {"launch", "running"}
                 PROVE  links'.printed
      BY DEF Typed, MainTypes, LinksPrinted
    <2>1. ASSUME NEW allUp \in BOOLEAN, CheckLinks(allUp) PROVE links'.printed
      <3>1. links.print
        <4>1. links.print \/ links.count = MaxCheckTime
          BY <2>1 DEF CheckLinks, GoOn
        <4>2. links.count \in 0..MaxCheckTime /\ (~links.print => links.count < MaxCheckTime)
          BY DEF Shapes
        <4> QED
          BY <4>1, <4>2, Sizes
      <3>2. links' = [count |-> 0, print |-> FALSE, printed |-> links.print]
        BY <2>1, <3>1 DEF CheckLinks, NoLinks
      <3> QED
        BY <3>1, <3>2
    <2>2. CASE Launch
      BY <2>2 DEF Launch, LinksPrinted, setup
    <2>3. ASSUME UNCHANGED <<main, enabled, setup>> PROVE links'.printed
      BY <2>3 DEF setup, LinksPrinted
    <2>4. ASSUME NEW l \in Lcore, LcoreStep(l) PROVE links'.printed
      BY <2>3, <2>4, LcoreStepFrame
    <2>5. ASSUME NEW p \in Port, NEW n \in 1..NbMbuf, Sent(p, n) PROVE links'.printed
      BY <2>3, <2>5 DEF Sent
    <2>6. CASE UNCHANGED vars
      BY <2>3, <2>6 DEF vars
    <2>7. CASE Failure
      BY <2>7 DEF Failure, Exit
    <2>8. MainStep => Launch \/ \E allUp \in BOOLEAN : CheckLinks(allUp)
      BY DEF MainStep, EalInit, ParsePortmask, ParseQueues, ParseTimer, EndOfOptions,
             CountPorts, PairPort, EndOfPairs, NextLcore, AssignPort, EndOfAssignment,
             StartPort, EndOfPorts, GoOn
    <2> QED
      BY <2>1, <2>2, <2>4, <2>5, <2>6, <2>7, <2>8 DEF Next
  <1> QED
    BY <1>1, <1>2, AlwaysTyped, PTL DEF Spec
-----------------------------------------------------------------------------
(* One sender.  dst pairs the enabled ports, so it is injective on them; the *)
(* ports are dealt out to one lcore each; and an lcore sends only to the     *)
(* partners of the ports it was dealt.                                       *)

Enabled == {q \in Port : InMask(q) /\ q < nbPorts}
Below == {q \in Port : InMask(q) /\ q < portid}

PairsUp(S) == \A q \in S : dst[q] \in S /\ dst[dst[q]] = q

\* While main pairs the ports, the last one waits for its partner every other
\* time.
Paired ==
  /\ main = "pair" =>
       IF inMask % 2 = 1 THEN lastPort \in Below /\ PairsUp(Below \ {lastPort})
       ELSE PairsUp(Below)
  /\ main \in {"assign", "start", "links", "launch", "running"} => PairsUp(Enabled)

Dealt ==
  /\ main \in {"eal", "options", "pool", "pair"} => \A l \in Lcore : rxPorts[l] = {}
  /\ main = "assign" => \A l \in Lcore : rxPorts[l] \subseteq Below
  /\ main \in {"start", "links", "launch", "running"} =>
       \A l \in Lcore : rxPorts[l] \subseteq Enabled
  /\ \A l, k \in Lcore : l # k => rxPorts[l] \cap rxPorts[k] = {}

Quiet(l) ==
  /\ todo[l] = {} /\ batch[l] = NoBatch /\ burst[l] = Null
  /\ \A p \in Port : len[l][p] = 0

Idle == main # "running" => \A l \in Lcore : pc[l] = "wait" /\ Quiet(l)

\* What lcore l holds came from its own ports and goes to their partners.
Holds(l) ==
  /\ todo[l] \subseteq rxPorts[l]
  /\ batch[l].n > 0 => batch[l].port \in rxPorts[l]
  /\ \A p \in Port : Sends(l, p) => \E q \in rxPorts[l] : dst[q] = p

Own == \A l \in Lcore : Holds(l)

Separate == Paired /\ Dealt /\ Idle /\ Own

LEMMA QuietHolds == \A l \in Lcore : Quiet(l) => Holds(l)
  BY DEF Quiet, Holds, Sends, NoBatch

LEMMA Parity == \A n \in Nat : (n % 2 = 1) <=> ((n + 1) % 2 # 1)
  OBVIOUS

LEMMA InitSeparate == Init => Separate
  <1> SUFFICES ASSUME Init PROVE Separate
    OBVIOUS
  <1>1. \A l \in Lcore : Quiet(l)
    BY DEF Init, Quiet
  <1>2. Own
    BY <1>1, QuietHolds DEF Own
  <1>3. Idle
    BY <1>1 DEF Idle, Init
  <1>4. Paired /\ Dealt
    BY DEF Init, Paired, Dealt
  <1> QED
    BY <1>2, <1>3, <1>4 DEF Separate

\* main leaves the loops quiet, so that only the ports are left to look at.
LEMMA MainStepSeparate == Typed /\ Separate /\ MainStep => Separate'
  <1> SUFFICES ASSUME Numbers, Shapes, Paired, Dealt, Idle, MainStep
               PROVE  Separate'
    BY DEF Typed, MainTypes, Separate
  <1>r. main # "running" /\ UNCHANGED <<enabled, todo, batch, len, burst>>
        /\ (main' = "running" \/ UNCHANGED pc)
    BY DEF MainStep, EalInit, ParsePortmask, ParseQueues, ParseTimer, EndOfOptions, CountPorts,
           PairPort, EndOfPairs, NextLcore, AssignPort, EndOfAssignment, StartPort,
           EndOfPorts, CheckLinks, Launch, GoOn, loop, traffic
  <1>q. \A l \in Lcore : Quiet(l)'
    BY <1>r DEF Idle, Quiet
  <1>o. Own' /\ Idle'
    BY <1>q, <1>r, QuietHolds DEF Own, Idle, Quiet, Holds, Sends, NoBatch
  <1> SUFFICES Paired' /\ Dealt'
    BY <1>o DEF Separate
  <1>n. \A l \in Lcore : main \in {"eal", "options", "pool", "pair"} => rxPorts[l] = {}
    BY DEF Dealt
  \* Before the pairing there is nothing to say, and at its start nothing is paired.
  <1>1. CASE main \in {"eal", "options", "pool"}
    <2>1. /\ main' \in {"options", "pool", "pair", "exited"}
          /\ UNCHANGED <<portid, inMask, rxPorts>>
      BY <1>1 DEF MainStep, EalInit, ParsePortmask, ParseQueues, ParseTimer, EndOfOptions,
             CountPorts, PairPort, EndOfPairs, NextLcore, AssignPort, EndOfAssignment,
             StartPort, EndOfPorts, CheckLinks, Launch, GoOn, setup, pairing
    <2>2. portid' = 0 /\ inMask' = 0
      BY <1>1, <2>1 DEF Numbers
    <2>3. Below' = {} /\ inMask' % 2 # 1
      BY <2>2 DEF Below
    <2>4. Paired'
      BY <2>1, <2>3 DEF Paired, PairsUp
    <2>5. Dealt'
      BY <2>1, <1>1, <1>n DEF Dealt
    <2> QED
      BY <2>4, <2>5
  <1>2. CASE PairPort
    <2>1. /\ main = "pair" /\ main' = "pair" /\ portid < nbPorts /\ portid' = portid + 1
          /\ UNCHANGED <<options, nbPorts, rxPorts>>
      BY <1>2 DEF PairPort, GoOn
    <2>2. Dealt'
      BY <2>1, <1>n DEF Dealt
    <2>3. portid \in Port /\ portid \in Nat /\ inMask \in Nat
      BY <2>1, Sizes DEF Numbers
    <2>4. portid \notin Below /\ Below \subseteq Port
      BY <2>3 DEF Below
    <2>5. CASE ~InMask(portid)
      <3>1. UNCHANGED <<dst, lastPort, inMask>>
        BY <1>2, <2>5 DEF PairPort, pairing
      <3>2. Below' = Below
        BY <2>1, <2>3, <2>5 DEF Below, InMask
      <3>3. Paired'
        BY <2>1, <3>1, <3>2 DEF Paired, PairsUp
      <3> QED
        BY <2>2, <3>3
    <2>6. CASE InMask(portid)
      <3>1. Below' = Below \cup {portid}
        BY <2>1, <2>3, <2>6 DEF Below, InMask
      <3>2. inMask' = inMask + 1
        BY <1>2, <2>6 DEF PairPort
      <3>3. CASE inMask % 2 = 1
        <4>1. dst' = [dst EXCEPT ![portid] = lastPort, ![lastPort] = portid]
          BY <1>2, <2>6, <3>3 DEF PairPort
        <4>2. inMask' % 2 # 1
          BY <2>3, <3>2, <3>3, Parity
        <4>3. lastPort \in Below /\ PairsUp(Below \ {lastPort})
          BY <2>1, <3>3 DEF Paired
        <4>4. dst'[portid] = lastPort /\ dst'[lastPort] = portid
          BY <2>3, <2>4, <4>1, <4>3 DEF Shapes
        <4>5. \A q \in Below \ {lastPort} : dst'[q] = dst[q] /\ dst'[dst[q]] = q
          BY <2>4, <4>1, <4>3 DEF Shapes, PairsUp
        <4>6. PairsUp(Below)'
          BY <3>1, <4>3, <4>4, <4>5 DEF PairsUp
        <4> QED
          BY <2>1, <2>2, <4>2, <4>6 DEF Paired
      <3>4. CASE inMask % 2 # 1
        <4>1. lastPort' = portid /\ dst' = dst
          BY <1>2, <2>6, <3>4 DEF PairPort
        <4>2. inMask' % 2 = 1
          BY <2>3, <3>2, <3>4, Parity
        <4>3. PairsUp(Below)
          BY <2>1, <3>4 DEF Paired
        <4>4. lastPort' \in Below' /\ Below' \ {lastPort'} = Below
          BY <2>4, <3>1, <4>1
        <4>5. PairsUp(Below \ {lastPort})'
          BY <4>1, <4>3, <4>4 DEF PairsUp
        <4> QED
          BY <2>1, <2>2, <4>2, <4>4, <4>5 DEF Paired
      <3> QED
        BY <3>3, <3>4
    <2> QED
      BY <2>5, <2>6
  <1>3. CASE EndOfPairs
    <2>1. /\ main = "pair" /\ main' = "assign" /\ portid = nbPorts
          /\ dst' = IF inMask % 2 = 1 THEN [dst EXCEPT ![lastPort] = lastPort] ELSE dst
          /\ UNCHANGED <<options, nbPorts, rxPorts>>
      BY <1>3 DEF EndOfPairs, GoOn
    <2>2. Enabled' = Below /\ Below \subseteq Port
      BY <2>1 DEF Enabled, Below, InMask
    <2>3. PairsUp(Enabled)'
      <3>1. CASE inMask % 2 = 1
        <4>1. lastPort \in Below /\ PairsUp(Below \ {lastPort})
          BY <2>1, <3>1 DEF Paired
        <4>2. dst'[lastPort] = lastPort /\ \A q \in Port : q # lastPort => dst'[q] = dst[q]
          BY <2>1, <3>1 DEF Shapes
        <4> QED
          BY <2>2, <4>1, <4>2 DEF PairsUp
      <3>2. CASE inMask % 2 # 1
        BY <2>1, <2>2, <3>2 DEF Paired, PairsUp
      <3> QED
        BY <3>1, <3>2
    <2>4. Dealt'
      BY <2>1, <1>n DEF Dealt
    <2> QED
      BY <2>1, <2>3, <2>4 DEF Paired
  <1>p. ASSUME main # "pair", UNCHANGED <<dst, options, nbPorts>>,
               main \in {"assign", "start", "links", "launch"},
               main' \in {"assign", "start", "links", "launch", "running", "exited"}
        PROVE  Paired'
    BY <1>p DEF Paired, PairsUp, Enabled, InMask
  <1>4. CASE NextLcore
    <2>1. /\ main = "assign" /\ main' \in {"assign", "exited"}
          /\ UNCHANGED <<dst, options, nbPorts, portid, rxPorts>>
      BY <1>4 DEF NextLcore, GoOn, pairing
    <2> QED
      BY <2>1, <1>p DEF Dealt, Below, InMask
  <1>5. CASE AssignPort
    <2>1. /\ main = "assign" /\ main' = "assign" /\ portid < nbPorts /\ portid' = portid + 1
          /\ UNCHANGED <<dst, options, nbPorts>>
      BY <1>5 DEF AssignPort, GoOn, pairing
    <2>2. portid \in Port /\ portid \in Nat /\ rxLcore \in Lcore
      BY <2>1, Sizes DEF Numbers
    <2>3. Below \subseteq Below' /\ portid \notin Below
          /\ (InMask(portid) => portid \in Below')
      BY <2>1, <2>2 DEF Below, InMask
    <2>4. \A l \in Lcore : \/ rxPorts'[l] = rxPorts[l]
                           \/ /\ l = rxLcore /\ InMask(portid)
                              /\ rxPorts'[l] = rxPorts[l] \cup {portid}
      BY <1>5, <2>2 DEF AssignPort, Shapes
    <2>5. \A l \in Lcore : rxPorts[l] \subseteq Below
      BY <2>1 DEF Dealt
    <2>6. \A l, k \in Lcore : l # k => rxPorts'[l] \cap rxPorts'[k] = {}
      BY <2>3, <2>4, <2>5 DEF Dealt
    <2>7. \A l \in Lcore : rxPorts'[l] \subseteq Below'
      BY <2>3, <2>4, <2>5
    <2> QED
      BY <2>1, <2>6, <2>7, <1>p DEF Dealt
  <1>6. CASE EndOfAssignment
    <2>1. /\ main = "assign" /\ main' = "start" /\ portid = nbPorts
          /\ UNCHANGED <<dst, options, nbPorts, rxPorts>>
      BY <1>6 DEF EndOfAssignment, GoOn, pairing
    <2>2. Enabled' = Below
      BY <2>1 DEF Enabled, Below, InMask
    <2> QED
      BY <2>1, <2>2, <1>p DEF Dealt
  <1>7. CASE main \in {"start", "links", "launch"}
    <2>1. /\ main' \in {"start", "links", "launch", "running", "exited"}
          /\ UNCHANGED <<dst, options, nbPorts, rxPorts>>
      BY <1>7 DEF MainStep, EalInit, ParsePortmask, ParseQueues, ParseTimer, EndOfOptions,
             CountPorts, PairPort, EndOfPairs, NextLcore, AssignPort, EndOfAssignment,
             StartPort, EndOfPorts, CheckLinks, Launch, GoOn, setup, pairing
    <2> QED
      BY <1>7, <2>1, <1>p DEF Dealt, Enabled, InMask
  <1>8. \/ main \in {"eal", "options", "pool"} \/ main \in {"start", "links", "launch"}
        \/ PairPort \/ EndOfPairs \/ NextLcore \/ AssignPort \/ EndOfAssignment
    BY DEF MainStep, EalInit, ParsePortmask, ParseQueues, ParseTimer, EndOfOptions, CountPorts,
           StartPort, EndOfPorts, CheckLinks, Launch, GoOn
  <1> QED
    BY <1>1, <1>2, <1>3, <1>4, <1>5, <1>6, <1>7, <1>8

\* What an lcore does concerns the packets it holds only.
LEMMA LcoreStepSeparate ==
  ASSUME Numbers, Shapes, LoopTypes, Separate, NEW l \in Lcore, LcoreStep(l)
  PROVE  Separate'
  <1>f. UNCHANGED <<main, enabled, options, nbPorts, portid, dst, lastPort, inMask, rxPorts>>
    BY LcoreStepFrame DEF setup, pairing
  <1>1. Paired' /\ Dealt'
    BY <1>f DEF Separate, Paired, PairsUp, Dealt, Below, Enabled, InMask
  <1>2. pc[l] # "wait" \/ burst[l] # Null
    BY DEF LcoreStep, StartDrain, StartRound, EndDrain, EndOfRound, DrainPort, BurstReturns,
           Receive, Forward, EndOfBatch, Goto
  <1>3. Idle'
    BY <1>2, <1>f DEF Separate, Idle, Quiet
  <1>h. Holds(l)
    BY DEF Separate, Own
  <1>t. /\ rxPorts[l] \in SUBSET Port /\ todo[l] \in SUBSET Port
        /\ len[l] \in [Port -> 0..MaxPktBurst]
        /\ batch[l] \in Burst \cup {NoBatch}
        /\ burst[l] \in Burst \cup {Null}
    BY DEF LoopTypes, Shapes
  <1>e. /\ todo \in [Lcore -> SUBSET Port] /\ batch \in [Lcore -> Burst \cup {NoBatch}]
        /\ len \in [Lcore -> [Port -> 0..MaxPktBurst]]
        /\ burst \in [Lcore -> Burst \cup {Null}]
    BY DEF LoopTypes
  <1>4. Holds(l)' /\ \A k \in Lcore \ {l} : /\ todo'[k] = todo[k] /\ batch'[k] = batch[k]
                                            /\ len'[k] = len[k] /\ burst'[k] = burst[k]
    <2>1. CASE StartDrain(l)
      BY <2>1, <1>h, <1>f DEF StartDrain, traffic, Holds, Sends
    <2>2. CASE StartRound(l)
      BY <2>2, <1>h, <1>f, <1>e DEF StartRound, traffic, Holds, Sends
    <2>3. CASE EndDrain(l)
      BY <2>3, <1>h, <1>f, <1>e DEF EndDrain, traffic, Holds, Sends
    <2>4. CASE EndOfRound(l)
      BY <2>4, <1>h, <1>f DEF EndOfRound, traffic, Holds, Sends
    <2>5. ASSUME NEW p \in Port, DrainPort(l, p)
          PROVE  Holds(l)' /\ \A k \in Lcore \ {l} :
                   /\ todo'[k] = todo[k] /\ batch'[k] = batch[k]
                   /\ len'[k] = len[k] /\ burst'[k] = burst[k]
      <3>1. /\ burst' = [burst EXCEPT ![l] = [port |-> p, n |-> len[l][p]]]
            /\ len[l][p] > 0
            /\ UNCHANGED <<todo, batch, len>>
        BY <2>5 DEF DrainPort, SendBurst, Goto
      <3>2. burst'[l].port = p /\ Sends(l, p)
        BY <3>1, <1>e DEF Sends
      <3>3. \A q \in Port : Sends(l, q)' => Sends(l, q)
        BY <3>1, <3>2 DEF Sends
      <3> QED
        BY <3>1, <3>3, <1>h, <1>f, <1>e DEF Holds
    <2>6. ASSUME NEW sent \in 0..MaxPktBurst, BurstReturns(l, sent)
          PROVE  Holds(l)' /\ \A k \in Lcore \ {l} :
                   /\ todo'[k] = todo[k] /\ batch'[k] = batch[k]
                   /\ len'[k] = len[k] /\ burst'[k] = burst[k]
      <3> DEFINE p == burst[l].port
      <3>1. /\ burst' = [burst EXCEPT ![l] = Null]
            /\ len' = [len EXCEPT ![l][p] = 0]
            /\ UNCHANGED <<todo, batch>>
        BY <2>6 DEF BurstReturns
      <3> HIDE DEF p
      <3>2. burst'[l] = Null /\ \A q \in Port : len'[l][q] \in {0, len[l][q]}
        BY <3>1, <1>e
      <3>3. \A q \in Port : Sends(l, q)' => Sends(l, q)
        BY <3>2 DEF Sends
      <3> QED
        BY <3>1, <3>3, <1>h, <1>f, <1>e DEF Holds
    <2>7. ASSUME NEW p \in Port, NEW n \in 0..MaxPktBurst, Receive(l, p, n)
          PROVE  Holds(l)' /\ \A k \in Lcore \ {l} :
                   /\ todo'[k] = todo[k] /\ batch'[k] = batch[k]
                   /\ len'[k] = len[k] /\ burst'[k] = burst[k]
      <3>1. /\ batch' = [batch EXCEPT ![l] = [port |-> p, n |-> n]]
            /\ todo' = [todo EXCEPT ![l] = @ \ {p}] /\ p \in todo[l]
            /\ UNCHANGED <<len, burst>>
        BY <2>7 DEF Receive, Goto
      <3>2. batch'[l].port = p /\ todo'[l] \subseteq todo[l] /\ p \in rxPorts[l]
        BY <3>1, <1>e, <1>h DEF Holds
      <3>3. \A q \in Port : Sends(l, q)' = Sends(l, q)
        BY <3>1 DEF Sends
      <3> QED
        BY <3>1, <3>2, <3>3, <1>h, <1>f, <1>e DEF Holds
    <2>8. CASE Forward(l)
      <3> DEFINE p == dst[batch[l].port]
      <3>1. /\ burst[l] = Null /\ batch[l].n > 0
            /\ batch' = [batch EXCEPT ![l].n = @ - 1]
            /\ len' = [len EXCEPT ![l][p] = @ + 1]
            /\ UNCHANGED todo
            /\ \/ burst' = [burst EXCEPT ![l] = [port |-> p, n |-> len'[l][p]]]
               \/ burst' = burst
        BY <2>8 DEF Forward, SendBurst, Goto
      <3>2. batch[l] \in Burst
        BY <3>1, <1>t DEF NoBatch
      <3>3. batch[l].port \in rxPorts[l] /\ batch[l].port \in Port /\ p \in Port
        BY <3>1, <3>2, <1>h DEF Holds, Burst, Shapes
      <3>4. batch'[l].port = batch[l].port
        BY <3>1, <3>2, <1>e DEF Burst
      <3>5. \A q \in Port : Sends(l, q)' => Sends(l, q) \/ q = p
        <4> HIDE DEF p
        <4>1. \A q \in Port : q # p => len'[l][q] = len[l][q]
          BY <3>1, <3>3, <1>e
        <4>2. burst'[l] # Null => burst'[l].port = p
          <5>1. CASE burst' = burst
            BY <3>1, <5>1
          <5>2. CASE burst' = [burst EXCEPT ![l] = [port |-> p, n |-> len'[l][p]]]
            <6>1. burst'[l] = [port |-> p, n |-> len'[l][p]]
              BY <5>2, <1>e
            <6> QED
              BY <6>1
          <5> QED
            BY <3>1, <5>1, <5>2
        <4> QED
          BY <4>1, <4>2 DEF Sends
      <3>6. Holds(l)'
        BY <3>1, <3>3, <3>4, <3>5, <1>h, <1>f DEF Holds
      <3> QED
        BY <3>1, <3>6, <1>e
    <2>9. CASE EndOfBatch(l)
      BY <2>9, <1>h, <1>f, <1>e DEF EndOfBatch, traffic, Holds, Sends, NoBatch
    <2> QED
      BY <2>1, <2>2, <2>3, <2>4, <2>5, <2>6, <2>7, <2>8, <2>9 DEF LcoreStep
  <1>5. \A k \in Lcore \ {l} : Holds(k)'
    BY <1>4, <1>f DEF Separate, Own, Holds, Sends
  <1>6. Own'
    BY <1>4, <1>5 DEF Own
  <1> QED
    BY <1>1, <1>3, <1>6 DEF Separate

LEMMA NextSeparate == Typed /\ Separate /\ [Next]_vars => Separate'
  <1> SUFFICES ASSUME Typed, Separate, [Next]_vars PROVE Separate'
    OBVIOUS
  <1>u. ASSUME UNCHANGED <<options, nbPorts, portid, dst, lastPort, inMask, rxPorts>>,
               UNCHANGED <<pc, todo, batch, len, burst>>,
               main' = main \/ (main # "running" /\ main' = "exited")
        PROVE  Separate'
    BY <1>u DEF Separate, Paired, PairsUp, Dealt, Below, Enabled, InMask, Idle, Quiet, Own,
                Holds, Sends
  <1>1. CASE MainStep
    BY <1>1, MainStepSeparate
  <1>2. CASE Failure
    BY <1>2, <1>u DEF Failure, Exit, setup, pairing, loop, traffic
  <1>3. ASSUME NEW l \in Lcore, LcoreStep(l) PROVE Separate'
    BY <1>3, LcoreStepSeparate DEF Typed, MainTypes
  <1>4. ASSUME NEW p \in Port, NEW n \in 1..NbMbuf, Sent(p, n) PROVE Separate'
    BY <1>4, <1>u DEF Sent, setup, pairing
  <1>5. CASE UNCHANGED vars
    BY <1>5, <1>u DEF vars, setup, pairing, loop, traffic
  <1> QED
    BY <1>1, <1>2, <1>3, <1>4, <1>5 DEF Next

LEMMA SeparateIsOneSender == Typed /\ Separate => OneSender
  <1> SUFFICES ASSUME Typed, Separate, NEW l \in Lcore, NEW k \in Lcore, l # k
               PROVE  /\ rxPorts[l] \cap rxPorts[k] = {}
                      /\ \A p \in Port : ~(Sends(l, p) /\ Sends(k, p))
    BY DEF OneSender
  <1>1. rxPorts[l] \cap rxPorts[k] = {}
    BY DEF Separate, Dealt
  <1>2. ASSUME NEW p \in Port, Sends(l, p), Sends(k, p) PROVE FALSE
    <2>1. main = "running"
      BY <1>2 DEF Separate, Idle, Quiet, Sends
    <2>2. PICK q \in rxPorts[l] : dst[q] = p
      BY <1>2 DEF Separate, Own, Holds
    <2>3. PICK r \in rxPorts[k] : dst[r] = p
      BY <1>2 DEF Separate, Own, Holds
    <2>4. q \in Enabled /\ r \in Enabled
      BY <2>1 DEF Separate, Dealt
    <2>5. dst[p] = q /\ dst[p] = r
      BY <2>1, <2>2, <2>3, <2>4 DEF Separate, Paired, PairsUp
    <2> QED
      BY <2>5, <1>1
  <1> QED
    BY <1>1, <1>2

\* No two lcores ever receive from one port, send to one, or write the send
\* counters of one: the loops need no lock, for any ports, lcores and options.
THEOREM NoSharing == Spec => []OneSender
  <1>1. Spec => [](Typed /\ Separate)
    BY InitTyped, InitSeparate, NextTyped, NextSeparate, PTL DEF Spec
  <1> QED
    BY <1>1, SeparateIsOneSender, PTL
-----------------------------------------------------------------------------
(* Sums.  Total is a fold over the domain, which takes its elements in some  *)
(* order that is the same for all functions on it.                           *)

Pick(s) == CHOOSE x \in s : TRUE

Adds(it, f, D) == it = [s \in D |-> IF s = {} THEN 0 ELSE f[Pick(s)] + it[s \ {Pick(s)}]]

Sums(f) ==
  LET iter[s \in SUBSET DOMAIN f] ==
        IF s = {} THEN 0 ELSE f[Pick(s)] + iter[s \ {Pick(s)}]
  IN  iter

LEMMA TotalIsSums == ASSUME NEW f PROVE Total(f) = Sums(f)[DOMAIN f]
  BY DEF Total, Sums, Pick, FoldFunction, FoldFunctionOnSet, MapThenFoldSet

LEMMA Lowest ==
  ASSUME NEW T, T \subseteq Nat, T # {}
  PROVE  \E l \in T : \A m \in T : l <= m
  <1> DEFINE R == OpToRel(<, Nat)
  <1>1. IsWellFoundedOn(R, Nat)
    BY NatLessThanWellFounded
  <1>2. \A x, y \in Nat : x < y => <<x, y>> \in R
    BY DEF OpToRel
  <1> HIDE DEF R
  <1>3. PICK l \in T : \A m \in T : <<m, l>> \notin R
    BY <1>1, WFMin
  <1>4. \A m \in T : ~(m < l)
    BY <1>2, <1>3
  <1> QED
    BY <1>4

\* Every collection of subsets of a finite set has one from which no element can be
\* taken without leaving the collection.
LEMMA Smallest ==
  ASSUME NEW S, IsFiniteSet(S), NEW Bad, Bad \subseteq SUBSET S, Bad # {}
  PROVE  \E s \in Bad : \A x \in s : s \ {x} \notin Bad
  <1> DEFINE N == {Cardinality(s) : s \in Bad}
  <1>1. \A s \in SUBSET S : IsFiniteSet(s) /\ Cardinality(s) \in Nat
    BY FS_Subset, FS_CardinalityType
  <1>2. N \subseteq Nat /\ N # {}
    BY <1>1
  <1>3. PICK n \in N : \A m \in N : n <= m
    BY <1>2, Lowest
  <1>4. PICK s \in Bad : Cardinality(s) = n
    BY <1>3
  <1>5. ASSUME NEW x \in s, s \ {x} \in Bad PROVE FALSE
    <2>1. Cardinality(s \ {x}) = Cardinality(s) - 1
      BY <1>1, <1>5, FS_RemoveElement
    <2>2. n <= Cardinality(s \ {x})
      BY <1>3, <1>5
    <2> QED
      BY <1>1, <1>4, <2>1, <2>2
  <1> QED
    BY <1>5

LEMMA SumsExist ==
  ASSUME NEW S, IsFiniteSet(S), NEW f \in [S -> Int]
  PROVE  \E it : Adds(it, f, SUBSET S)
  <1> DEFINE D(n) == {s \in SUBSET S : Cardinality(s) <= n}
             N == {n \in Nat : ~ \E it : Adds(it, f, D(n))}
  <1>1. \A s \in SUBSET S : IsFiniteSet(s) /\ Cardinality(s) \in Nat
    BY FS_Subset, FS_CardinalityType
  <1>2. ASSUME N # {} PROVE FALSE
    <2>1. N \subseteq Nat
      OBVIOUS
    <2> HIDE DEF N
    <2>2. PICK n \in N : \A m \in N : n <= m
      BY <1>2, <2>1, Lowest
    <2>3. CASE n = 0
      <3>1. D(0) = {{}}
        BY <1>1, FS_EmptySet
      <3>2. Adds([s \in D(0) |-> 0], f, D(0))
        BY <3>1 DEF Adds
      <3> QED
        BY <2>2, <2>3, <3>2 DEF N
    <2>4. CASE n # 0
      <3>1. n \in Nat /\ n - 1 \in Nat /\ n - 1 \notin N
        BY <2>1, <2>2, <2>4
      <3>2. PICK it : Adds(it, f, D(n - 1))
        BY <3>1 DEF N
      <3> DEFINE step(s) == IF s = {} THEN 0 ELSE f[Pick(s)] + it[s \ {Pick(s)}]
                 new == [s \in D(n) |-> step(s)]
      <3>a. \A s \in D(n - 1) : it[s] = step(s)
        <4> DEFINE E == D(n - 1)
        <4>1. it = [s \in E |-> IF s = {} THEN 0 ELSE f[Pick(s)] + it[s \ {Pick(s)}]]
          BY <3>2 DEF Adds
        <4> HIDE DEF E
        <4>2. \A s \in E : it[s] = IF s = {} THEN 0 ELSE f[Pick(s)] + it[s \ {Pick(s)}]
          BY <4>1
        <4> QED
          BY <4>2 DEF E
      <3>3. \A s \in D(n - 1) : s \in D(n) /\ it[s] = step(s)
        <4>1. \A s \in D(n - 1) : s \in D(n)
          BY <1>1, <3>1
        <4> QED
          BY <3>a, <4>1
      <3>4. ASSUME NEW s \in D(n), s # {} PROVE s \ {Pick(s)} \in D(n - 1)
        <4>1. Pick(s) \in s
          BY <3>4 DEF Pick
        <4>2. Cardinality(s \ {Pick(s)}) = Cardinality(s) - 1
          BY <1>1, <4>1, FS_RemoveElement
        <4> QED
          BY <1>1, <3>1, <4>2
      <3> HIDE DEF D
      <3>5. \A s \in D(n - 1) : new[s] = it[s]
        BY <3>3
      <3>6. \A s \in D(n) : step(s) = IF s = {} THEN 0 ELSE f[Pick(s)] + new[s \ {Pick(s)}]
        BY <3>4, <3>5
      <3>7. Adds(new, f, D(n))
        BY <3>6 DEF Adds
      <3> QED
        BY <2>2, <3>7 DEF N
    <2> QED
      BY <2>3, <2>4
  <1>3. D(Cardinality(S)) = SUBSET S
    BY <1>1, FS_Subset
  <1>4. Cardinality(S) \in Nat
    BY FS_CardinalityType
  <1> QED
    BY <1>2, <1>3, <1>4

LEMMA SumsAdd ==
  ASSUME NEW S, IsFiniteSet(S), NEW f \in [S -> Int]
  PROVE  /\ Sums(f)[{}] = 0
         /\ \A s \in SUBSET S : s # {} =>
              /\ Pick(s) \in s
              /\ Sums(f)[s] = f[Pick(s)] + Sums(f)[s \ {Pick(s)}]
  <1>1. DOMAIN f = S
    OBVIOUS
  <1>2. PICK it : Adds(it, f, SUBSET S)
    BY SumsExist
  <1>3. Adds(Sums(f), f, SUBSET S)
    BY <1>1, <1>2 DEF Sums, Adds
  <1>4. \A s \in SUBSET S : s # {} => Pick(s) \in s
    BY DEF Pick
  <1> DEFINE g == Sums(f)
  <1> HIDE DEF g
  <1>5. g = [s \in SUBSET S |-> IF s = {} THEN 0 ELSE f[Pick(s)] + g[s \ {Pick(s)}]]
    BY <1>3 DEF Adds, g
  <1>6. g[{}] = 0 /\ \A s \in SUBSET S : s # {} => g[s] = f[Pick(s)] + g[s \ {Pick(s)}]
    BY <1>5
  <1> QED
    BY <1>4, <1>6 DEF g

LEMMA TotalInt ==
  ASSUME NEW S, IsFiniteSet(S), NEW f \in [S -> Int]
  PROVE  Total(f) \in Int /\ ((\A x \in S : f[x] = 0) => Total(f) = 0)
  <1> DEFINE g == Sums(f)
             Bad == {s \in SUBSET S : ~(g[s] \in Int /\ ((\A x \in S : f[x] = 0) => g[s] = 0))}
  <1>1. /\ g[{}] = 0
        /\ \A s \in SUBSET S : s # {} => /\ Pick(s) \in s
                                         /\ g[s] = f[Pick(s)] + g[s \ {Pick(s)}]
    BY SumsAdd
  <1> HIDE DEF g
  <1>2. ASSUME Bad # {} PROVE FALSE
    <2>1. PICK s \in Bad : \A x \in s : s \ {x} \notin Bad
      BY <1>2, Smallest
    <2>2. s # {}
      <3>1. {} \in SUBSET S /\ g[{}] \in Int /\ g[{}] = 0
        BY <1>1
      <3> QED
        BY <3>1
    <2>3. s \ {Pick(s)} \notin Bad /\ g[s] = f[Pick(s)] + g[s \ {Pick(s)}] /\ Pick(s) \in S
      BY <1>1, <2>1, <2>2
    <2> DEFINE h == g[s \ {Pick(s)}]
               e == f[Pick(s)]
    <2>4. h \in Int /\ ((\A x \in S : f[x] = 0) => h = 0)
      BY <2>3
    <2>5. e \in Int /\ ((\A x \in S : f[x] = 0) => e = 0)
      BY <2>3
    <2> HIDE DEF h, e
    <2>6. g[s] = e + h
      BY <2>3 DEF h, e
    <2> QED
      BY <2>4, <2>5, <2>6
  <1>3. Total(f) = g[S]
    BY TotalIsSums DEF g
  <1> QED
    BY <1>2, <1>3

\* g is f but for one term, which is greater by d.
Grows(S, f, g, x, d) == g[x] = f[x] + d /\ \A y \in S \ {x} : g[y] = f[y]

\* When one term grows by d, so does the sum.
LEMMA TotalGrows ==
  ASSUME NEW S, IsFiniteSet(S), NEW f \in [S -> Int], NEW g \in [S -> Int],
         NEW x \in S, NEW d \in Int, Grows(S, f, g, x, d)
  PROVE  Total(g) = Total(f) + d
  <1> DEFINE F == Sums(f)
             G == Sums(g)
             Bad == {s \in SUBSET S :
                       ~(F[s] \in Int /\ G[s] = F[s] + (IF x \in s THEN d ELSE 0))}
  <1>1. /\ F[{}] = 0
        /\ \A s \in SUBSET S : s # {} => /\ Pick(s) \in s
                                         /\ F[s] = f[Pick(s)] + F[s \ {Pick(s)}]
    BY SumsAdd
  <1>2. /\ G[{}] = 0
        /\ \A s \in SUBSET S : s # {} => G[s] = g[Pick(s)] + G[s \ {Pick(s)}]
    BY SumsAdd
  <1> HIDE DEF F, G
  <1>3. ASSUME Bad # {} PROVE FALSE
    <2>1. PICK s \in Bad : \A y \in s : s \ {y} \notin Bad
      BY <1>3, Smallest
    <2>2. s # {}
      <3>1. F[{}] \in Int /\ F[{}] = 0 /\ G[{}] = 0 /\ x \notin {}
        BY <1>1, <1>2
      <3>2. {} \notin Bad
        BY <3>1
      <3> QED
        BY <3>2
    <2> DEFINE c == Pick(s)
               t == s \ {c}
    <2>3. c \in s /\ c \in S /\ t \notin Bad /\ F[s] = f[c] + F[t] /\ G[s] = g[c] + G[t]
      BY <1>1, <1>2, <2>1, <2>2
    <2> HIDE DEF c
    <2>4. F[t] \in Int /\ G[t] = F[t] + (IF x \in t THEN d ELSE 0)
      BY <2>3
    <2>5. f[c] \in Int /\ g[c] \in Int
      BY <2>3
    <2>6. CASE c = x
      <3>1. x \notin t /\ x \in s /\ g[c] = f[c] + d
        BY <2>3, <2>6 DEF Grows
      <3> HIDE DEF t
      <3>2. F[s] \in Int /\ G[s] = F[s] + d
        BY <2>3, <2>4, <2>5, <3>1
      <3> QED
        BY <3>1, <3>2
    <2>7. CASE c # x
      <3>1. (x \in t <=> x \in s) /\ g[c] = f[c]
        BY <2>3, <2>7 DEF Grows
      <3> HIDE DEF t
      <3>2. F[s] \in Int /\ G[s] = F[s] + (IF x \in s THEN d ELSE 0)
        BY <2>3, <2>4, <2>5, <3>1
      <3> QED
        BY <3>2
    <2> QED
      BY <2>6, <2>7
  <1>4. Total(f) = F[S] /\ Total(g) = G[S]
    BY TotalIsSums DEF F, G
  <1> QED
    BY <1>3, <1>4
-----------------------------------------------------------------------------
(* Where the packets are.  Before the launch there are none.  A burst is the *)
(* whole buffer it was made of, and an lcore that is not forwarding holds    *)
(* nothing but its buffers.                                                  *)

Whole == \A l \in Lcore : burst[l] # Null => burst[l].n = len[l][burst[l].port]
Sorted == \A l \in Lcore : pc[l] # "forward" => batch[l].n = 0

Fresh ==
  main # "running" =>
    stats = [p \in Port |-> NoTraffic] /\ wire = [p \in Port |-> 0] /\ pool = NbMbuf

Up ==
  /\ main \in {"eal", "options", "pool", "pair", "assign"} => started = {}
  /\ main = "start" => started \subseteq Below
  /\ main \in {"links", "launch", "running"} => started \subseteq Enabled

Conserved == Whole /\ Sorted /\ Fresh /\ Up /\ Accounted

\* What lcore l has left of a batch from port p.
Part(l, p) == IF batch[l].port = p THEN batch[l].n ELSE 0
Held == [p \in Port |-> Buffered(p) + Unsorted(p)]

LEMMA Finite == IsFiniteSet(Port) /\ IsFiniteSet(Lcore)
  BY Sizes, FS_Interval

HIDE DEF Port, Lcore

LEMMA PartInt ==
  ASSUME LoopTypes
  PROVE  /\ \A l \in Lcore, p \in Port : Part(l, p) \in Nat /\ len[l][p] \in Nat
         /\ \A p \in Port : Buffered(p) \in Int /\ Unsorted(p) \in Int
  <1>1. ASSUME NEW l \in Lcore, NEW p \in Port PROVE Part(l, p) \in Nat /\ len[l][p] \in Nat
    <2>1. batch[l] \in Burst \cup {NoBatch} /\ len[l][p] \in 0..MaxPktBurst
      BY DEF LoopTypes
    <2> QED
      BY <2>1, Sizes DEF Part, Burst, NoBatch
  <1>2. ASSUME NEW p \in Port PROVE Buffered(p) \in Int /\ Unsorted(p) \in Int
    <2>1. /\ [l \in Lcore |-> len[l][p]] \in [Lcore -> Int]
          /\ [l \in Lcore |-> Part(l, p)] \in [Lcore -> Int]
      BY <1>1
    <2>2. /\ Total([l \in Lcore |-> len[l][p]]) \in Int
          /\ Total([l \in Lcore |-> Part(l, p)]) \in Int
      BY <2>1, Finite, TotalInt
    <2> QED
      BY <2>2 DEF Buffered, Unsorted, Part
  <1> QED
    BY <1>1, <1>2

\* lcore l puts x packets into its buffer for port d, and y into its batch from
\* port r.
Puts(l, d, x, r, y) ==
  \A k \in Lcore, q \in Port :
    /\ len'[k][q] = len[k][q] + IF k = l /\ q = d THEN x ELSE 0
    /\ Part(k, q)' = Part(k, q) + IF k = l /\ q = r THEN y ELSE 0

\* The sums change with what an lcore has.
LEMMA Moves ==
  ASSUME LoopTypes, LoopTypes', NEW l \in Lcore,
         NEW d \in Port, NEW x \in Int, NEW r \in Port, NEW y \in Int,
         Puts(l, d, x, r, y)
  PROVE  /\ \A q \in Port : Buffered(q)' = Buffered(q) + IF q = d THEN x ELSE 0
         /\ \A q \in Port : Unsorted(q)' = Unsorted(q) + IF q = r THEN y ELSE 0
         /\ Total(Held)' = Total(Held) + x + y
  <1>i. /\ \A k \in Lcore, q \in Port : Part(k, q) \in Nat /\ len[k][q] \in Nat
        /\ \A q \in Port : Buffered(q) \in Int /\ Unsorted(q) \in Int
    BY PartInt
  <1>j. \A k \in Lcore, q \in Port : Part(k, q)' \in Nat /\ len'[k][q] \in Nat
    <2>1. ASSUME NEW k \in Lcore, NEW q \in Port PROVE Part(k, q)' \in Nat /\ len'[k][q] \in Nat
      <3>1. batch'[k] \in Burst \cup {NoBatch} /\ len'[k][q] \in 0..MaxPktBurst
        BY DEF LoopTypes
      <3> QED
        BY <3>1, Sizes DEF Part, Burst, NoBatch
    <2> QED
      BY <2>1
  <1>1. ASSUME NEW q \in Port PROVE Buffered(q)' = Buffered(q) + IF q = d THEN x ELSE 0
    <2> DEFINE f == [k \in Lcore |-> len[k][q]]
               g == [k \in Lcore |-> len'[k][q]]
               e == IF q = d THEN x ELSE 0
    <2>1. f \in [Lcore -> Int] /\ g \in [Lcore -> Int] /\ e \in Int
      BY <1>i, <1>j
    <2>2. Grows(Lcore, f, g, l, e)
      BY <1>i DEF Grows, Puts
    <2> HIDE DEF f, g, e
    <2>3. Total(g) = Total(f) + e
      BY <2>1, <2>2, Finite, TotalGrows
    <2> QED
      BY <2>3 DEF f, g, e, Buffered
  <1>2. ASSUME NEW q \in Port PROVE Unsorted(q)' = Unsorted(q) + IF q = r THEN y ELSE 0
    <2> DEFINE f == [k \in Lcore |-> Part(k, q)]
               g == [k \in Lcore |-> Part(k, q)']
               e == IF q = r THEN y ELSE 0
    <2>1. f \in [Lcore -> Int] /\ g \in [Lcore -> Int] /\ e \in Int
      BY <1>i, <1>j
    <2>2. Grows(Lcore, f, g, l, e)
      BY <1>i DEF Grows, Puts
    <2> HIDE DEF f, g, e
    <2>3. Total(g) = Total(f) + e
      BY <2>1, <2>2, Finite, TotalGrows
    <2> QED
      BY <2>3 DEF f, g, e, Unsorted, Part
  <1>3. Total(Held)' = Total(Held) + x + y
    <2> DEFINE mid == [q \in Port |-> Buffered(q)' + Unsorted(q)]
               new == [q \in Port |-> Buffered(q)' + Unsorted(q)']
    <2>1. Held \in [Port -> Int] /\ mid \in [Port -> Int] /\ new \in [Port -> Int]
      BY <1>i, <1>1, <1>2 DEF Held
    <2>a. Grows(Port, Held, mid, d, x)
      BY <1>i, <1>1 DEF Held, Grows
    <2>b. Grows(Port, mid, new, r, y)
      BY <1>i, <1>1, <1>2 DEF Grows
    <2> HIDE DEF mid, new
    <2>2. Total(mid) = Total(Held) + x
      BY <2>1, <2>a, Finite, TotalGrows
    <2>3. Total(new) = Total(mid) + y
      BY <2>1, <2>b, Finite, TotalGrows
    <2>4. new = Held'
      BY DEF new, Held
    <2> QED
      BY <2>1, <2>2, <2>3, <2>4, Finite, TotalInt
  <1> QED
    BY <1>1, <1>2, <1>3

NoPackets ==
  /\ stats = [p \in Port |-> NoTraffic] /\ wire = [p \in Port |-> 0] /\ pool = NbMbuf
  /\ \A l \in Lcore : batch[l] = NoBatch /\ \A p \in Port : len[l][p] = 0

\* With no packets about, the books balance.
LEMMA NothingAccounted == Shapes /\ NoPackets => Accounted
  <1> SUFFICES ASSUME Shapes, NoPackets PROVE Accounted
    OBVIOUS
  <1>1. \A l \in Lcore, p \in Port : len[l][p] = 0 /\ Part(l, p) = 0
    BY DEF NoPackets, Part, NoBatch
  <1>2. ASSUME NEW p \in Port PROVE Buffered(p) = 0 /\ Unsorted(p) = 0
    <2> DEFINE f == [l \in Lcore |-> len[l][p]]
               g == [l \in Lcore |-> Part(l, p)]
    <2>1. /\ f \in [Lcore -> Int] /\ g \in [Lcore -> Int]
          /\ \A l \in Lcore : f[l] = 0 /\ g[l] = 0
      BY <1>1
    <2> HIDE DEF f, g
    <2>2. Total(f) = 0 /\ Total(g) = 0
      BY <2>1, Finite, TotalInt
    <2> QED
      BY <2>2 DEF f, g, Buffered, Unsorted, Part
  <1>3. Total(wire) = 0
    <2>1. wire \in [Port -> Int] /\ \A p \in Port : wire[p] = 0
      BY DEF NoPackets
    <2> QED
      BY <2>1, Finite, TotalInt
  <1>4. Total(Held) = 0
    <2>1. Held \in [Port -> Int] /\ \A p \in Port : Held[p] = 0
      BY <1>2 DEF Held
    <2> QED
      BY <2>1, Finite, TotalInt
  <1>5. \A p \in Port : stats[p].rx = 0 /\ stats[p].tx = 0 /\ stats[p].dropped = 0
    BY DEF NoPackets, NoTraffic
  <1>6. \A p \in started : p \in Port /\ dst[p] \in Port
    BY DEF Shapes
  <1>7. NbMbuf = pool + Total(wire) + Total(Held)
    BY <1>3, <1>4, Sizes DEF NoPackets
  <1> QED
    BY <1>2, <1>5, <1>6, <1>7 DEF Accounted, Held

LEMMA InitConserved == Init => Conserved
  <1> SUFFICES ASSUME Init PROVE Conserved
    OBVIOUS
  <1>1. Shapes /\ NoPackets
    BY InitTyped DEF Init, Typed, MainTypes, NoPackets
  <1>2. Fresh /\ Up
    BY DEF Init, Fresh, Up
  <1>3. Whole /\ Sorted
    BY DEF Init, Whole, Sorted, NoBatch
  <1> QED
    BY <1>1, <1>2, <1>3, NothingAccounted DEF Conserved

\* main brings up ports, and moves no packet.
LEMMA MainStepConserved == Typed /\ Separate /\ Conserved /\ MainStep => Conserved'
  <1> SUFFICES ASSUME Typed, Separate, Conserved, MainStep PROVE Conserved'
    OBVIOUS
  <1>r. main # "running" /\ UNCHANGED <<batch, len, burst, stats, pool, wire>>
    BY DEF MainStep, EalInit, ParsePortmask, ParseQueues, ParseTimer, EndOfOptions, CountPorts,
           PairPort, EndOfPairs, NextLcore, AssignPort, EndOfAssignment, StartPort,
           EndOfPorts, CheckLinks, Launch, GoOn, loop, traffic
  <1>1. Whole'
    BY <1>r DEF Conserved, Whole
  <1>2. Sorted'
    BY <1>r DEF Separate, Idle, Quiet, NoBatch, Sorted
  <1>3. Fresh'
    BY <1>r DEF Conserved, Fresh
  <1>4. Accounted'
    <2>1. Shapes'
      BY MainStepTyped DEF Typed, MainTypes
    <2>2. NoPackets'
      BY <1>r DEF Separate, Idle, Quiet, Conserved, Fresh, NoPackets
    <2>3. (Shapes /\ NoPackets => Accounted)'
      BY NothingAccounted, PTL
    <2> QED
      BY <2>1, <2>2, <2>3
  <1>5. Up'
    <2>1. CASE StartPort
      <3>1. /\ main = "start" /\ main' = "start" /\ portid' = portid + 1
            /\ UNCHANGED <<options, nbPorts>>
            /\ started' = IF InMask(portid) THEN started \cup {portid} ELSE started
            /\ portid < nbPorts
        BY <2>1 DEF StartPort, GoOn
      <3>2. portid \in Port /\ portid \in Nat
        BY <3>1, Sizes DEF Typed, MainTypes, Numbers, Port
      <3>3. Below \subseteq Below' /\ (InMask(portid) => portid \in Below')
        BY <3>1, <3>2 DEF Below, InMask, Port
      <3> QED
        BY <3>1, <3>3 DEF Conserved, Up
    <2>2. CASE EndOfPorts
      <3>1. /\ main = "start" /\ main' \in {"exited", "links"} /\ portid = nbPorts
            /\ UNCHANGED <<options, nbPorts, started>>
        BY <2>2 DEF EndOfPorts, GoOn, setup
      <3>2. Enabled' = Below
        BY <3>1 DEF Enabled, Below, InMask
      <3> QED
        BY <3>1, <3>2 DEF Conserved, Up
    <2>3. CASE main \in {"links", "launch"}
      <3>1. /\ main' \in {"links", "launch", "running", "exited"}
            /\ UNCHANGED <<options, nbPorts, started>>
        BY <2>3 DEF MainStep, EalInit, ParsePortmask, ParseQueues, ParseTimer, EndOfOptions,
               CountPorts, PairPort, EndOfPairs, NextLcore, AssignPort, EndOfAssignment,
               StartPort, EndOfPorts, CheckLinks, Launch, GoOn, setup
      <3>2. Enabled' = Enabled
        BY <3>1 DEF Enabled, InMask
      <3> QED
        BY <2>3, <3>1, <3>2 DEF Conserved, Up
    <2>4. CASE main \in {"eal", "options", "pool", "pair", "assign"}
      <3>1. /\ main' \in {"eal", "options", "pool", "pair", "assign", "start", "exited"}
            /\ UNCHANGED started
        BY <2>4 DEF MainStep, EalInit, ParsePortmask, ParseQueues, ParseTimer, EndOfOptions,
               CountPorts, PairPort, EndOfPairs, NextLcore, AssignPort, EndOfAssignment,
               StartPort, EndOfPorts, CheckLinks, Launch, GoOn, setup
      <3> QED
        BY <2>4, <3>1 DEF Conserved, Up
    <2>5. \/ main \in {"eal", "options", "pool", "pair", "assign"}
          \/ main \in {"links", "launch"} \/ StartPort \/ EndOfPorts
      BY DEF MainStep, EalInit, ParsePortmask, ParseQueues, ParseTimer, EndOfOptions,
             CountPorts, PairPort, EndOfPairs, NextLcore, AssignPort, EndOfAssignment,
             CheckLinks, Launch, GoOn
    <2> QED
      BY <2>1, <2>2, <2>3, <2>4, <2>5
  <1> QED
    BY <1>1, <1>2, <1>3, <1>4, <1>5 DEF Conserved

PortBalanced(p) ==
  stats[p].rx = stats[dst[p]].tx + stats[dst[p]].dropped + Buffered(dst[p]) + Unsorted(p)

Balanced == NbMbuf = pool + Total(wire) + Total(Held)

LEMMA Books == Accounted <=> Balanced /\ \A p \in started : PortBalanced(p)
  BY DEF Accounted, Balanced, PortBalanced, Held

\* A step that moves no packet leaves the books as they are.
LEMMA BooksKept ==
  ASSUME Accounted, UNCHANGED <<dst, started, batch, len, stats, pool, wire>>
  PROVE  Accounted'
  BY DEF Accounted, Buffered, Unsorted

\* The partners of two ports that are up are two.
LEMMA Partners ==
  ASSUME main = "running", Separate, NEW p \in Enabled, NEW q \in Enabled, dst[p] = dst[q]
  PROVE  p = q
  BY DEF Separate, Paired, PairsUp

\* Forwarding moves a packet from the batch of the port it came from to the buffer
\* of the partner.
LEMMA ForwardAccounted ==
  ASSUME Typed, LoopTypes', Separate, Conserved, main = "running", UNCHANGED <<dst, started>>,
         NEW l \in Lcore, Forward(l)
  PROVE  Accounted'
  <1> DEFINE r == batch[l].port
             d == dst[r]
  <1>1. /\ batch[l].n > 0
        /\ batch' = [batch EXCEPT ![l].n = @ - 1]
        /\ len' = [len EXCEPT ![l][d] = @ + 1]
        /\ UNCHANGED <<stats, pool, wire>>
    BY DEF Forward, SendBurst
  <1>t. /\ batch \in [Lcore -> Burst \cup {NoBatch}]
        /\ len \in [Lcore -> [Port -> 0..MaxPktBurst]]
        /\ stats \in [Port -> Counters] /\ wire \in [Port -> Nat] /\ pool \in Nat
        /\ dst \in [Port -> Port]
    BY DEF Typed, MainTypes, Shapes, LoopTypes
  <1>2. batch[l] \in Burst
    BY <1>1, <1>t DEF NoBatch
  <1>3. r \in rxPorts[l] /\ r \in Enabled
    BY <1>1 DEF Separate, Own, Holds, Dealt
  <1>4. r \in Port /\ d \in Port
    BY <1>2, <1>t DEF Burst
  <1> HIDE DEF r, d
  <1>5. Puts(l, d, 1, r, -1)
    <2>1. ASSUME NEW k \in Lcore, NEW q \in Port
          PROVE  len'[k][q] = len[k][q] + IF k = l /\ q = d THEN 1 ELSE 0
      <3>1. len[k][q] \in 0..MaxPktBurst
        BY <1>t
      <3>2. len'[k][q] = IF k = l /\ q = d THEN len[k][q] + 1 ELSE len[k][q]
        BY <1>1, <1>4, <1>t
      <3> QED
        BY <3>1, <3>2
    <2>2. ASSUME NEW k \in Lcore, NEW q \in Port
          PROVE  Part(k, q)' = Part(k, q) + IF k = l /\ q = r THEN -1 ELSE 0
      <3>1. Part(k, q) \in Nat
        BY PartInt DEF Typed
      <3>2. CASE k = l
        <4>1. batch'[l].port = r /\ batch'[l].n = batch[l].n - 1 /\ batch[l].n \in Nat
          BY <1>1, <1>2, <1>t DEF Burst, r
        <4> QED
          BY <3>1, <3>2, <4>1 DEF Part, r
      <3>3. CASE k # l
        <4>1. batch'[k] = batch[k]
          BY <1>1, <1>t, <3>3
        <4> QED
          BY <3>1, <3>3, <4>1 DEF Part
      <3> QED
        BY <3>2, <3>3
    <2> QED
      BY <2>1, <2>2 DEF Puts
  <1>6. /\ \A q \in Port : Buffered(q)' = Buffered(q) + IF q = d THEN 1 ELSE 0
        /\ \A q \in Port : Unsorted(q)' = Unsorted(q) + IF q = r THEN -1 ELSE 0
        /\ Total(Held)' = Total(Held) + 1 + -1
    BY <1>4, <1>5, Moves DEF Typed
  <1>i. /\ \A q \in Port : Buffered(q) \in Int /\ Unsorted(q) \in Int
        /\ Held \in [Port -> Int]
    BY PartInt DEF Typed, Held
  <1>7. ASSUME NEW p \in started PROVE PortBalanced(p)'
    <2> DEFINE c == dst[p]
    <2>1. p \in Enabled /\ p \in Port /\ c \in Port
      BY <1>t DEF Conserved, Up, Enabled
    <2>2. p = r <=> c = d
      BY <2>1, <1>3, Partners DEF d
    <2> DEFINE buffered == Buffered(c)
               unsorted == Unsorted(p)
    <2>3. buffered \in Int /\ unsorted \in Int
      BY <1>i, <2>1
    <2>4. /\ Buffered(c)' = buffered + IF c = d THEN 1 ELSE 0
          /\ Unsorted(p)' = unsorted + IF p = r THEN -1 ELSE 0
      BY <1>6, <2>1
    <2> DEFINE tx == stats[c].tx
               dropped == stats[c].dropped
    <2>5. tx \in Nat /\ dropped \in Nat
      BY <2>1, <1>t DEF Counters
    <2>6. stats[p].rx = tx + dropped + buffered + unsorted
      BY Books DEF Conserved, PortBalanced
    <2> HIDE DEF buffered, unsorted, tx, dropped
    <2>7. stats[p].rx = tx + dropped + Buffered(c)' + Unsorted(p)'
      <3>1. CASE c = d
        BY <3>1, <2>2, <2>3, <2>4, <2>5, <2>6
      <3>2. CASE c # d
        BY <3>2, <2>2, <2>3, <2>4, <2>5, <2>6
      <3> QED
        BY <3>1, <3>2
    <2> USE DEF tx, dropped
    <2> QED
      BY <2>7, <1>1 DEF PortBalanced
  <1>8. Balanced'
    <2>1. Total(Held) \in Int
      BY <1>i, Finite, TotalInt
    <2>2. Total(Held)' = Total(Held)
      BY <1>6, <2>1
    <2> QED
      BY <2>2, <1>1, Books DEF Conserved, Balanced
  <1>9. (Accounted <=> Balanced /\ \A p \in started : PortBalanced(p))'
    BY Books, PTL
  <1> QED
    BY <1>7, <1>8, <1>9

\* A burst leaves its buffer empty: each mbuf is on the wire, or dropped and free.
LEMMA BurstAccounted ==
  ASSUME Typed, LoopTypes', Conserved, UNCHANGED <<dst, started>>,
         NEW l \in Lcore, NEW sent \in 0..MaxPktBurst, BurstReturns(l, sent)
  PROVE  Accounted'
  <1> DEFINE b == burst[l].port
             n == len[l][b]
             lost == n - sent
  <1>t. /\ burst \in [Lcore -> Burst \cup {Null}]
        /\ len \in [Lcore -> [Port -> 0..MaxPktBurst]]
        /\ stats \in [Port -> Counters] /\ wire \in [Port -> Nat] /\ pool \in Nat
        /\ dst \in [Port -> Port] /\ started \subseteq Port
    BY DEF Typed, MainTypes, Shapes, LoopTypes
  <1>1. burst[l] # Null /\ burst[l].n = n
    BY DEF BurstReturns, Conserved, Whole
  <1>2. /\ stats' = [stats EXCEPT ![b].tx = @ + sent, ![b].dropped = @ + lost]
        /\ pool' = pool + lost
        /\ wire' = [wire EXCEPT ![b] = @ + sent]
        /\ len' = [len EXCEPT ![l][b] = 0]
        /\ lost >= 0 /\ UNCHANGED batch
    BY <1>1 DEF BurstReturns
  <1>3. b \in Port /\ n \in Nat
    BY <1>1, <1>t DEF Burst
  <1>4. lost \in Nat /\ sent \in Nat
    BY <1>2, <1>3
  <1> HIDE DEF b, n, lost
  <1>5. Puts(l, b, 0 - n, b, 0)
    <2>1. ASSUME NEW k \in Lcore, NEW q \in Port
          PROVE  len'[k][q] = len[k][q] + IF k = l /\ q = b THEN 0 - n ELSE 0
      <3>1. len[k][q] \in 0..MaxPktBurst /\ len[l][b] = n
        BY <1>t DEF n
      <3>2. len'[k][q] = IF k = l /\ q = b THEN 0 ELSE len[k][q]
        BY <1>2, <1>3, <1>t
      <3> QED
        BY <3>1, <3>2, <1>3
    <2>2. ASSUME NEW k \in Lcore, NEW q \in Port
          PROVE  Part(k, q)' = Part(k, q) + IF k = l /\ q = b THEN 0 ELSE 0
      <3>1. Part(k, q) \in Nat
        BY PartInt DEF Typed
      <3>2. Part(k, q)' = Part(k, q)
        BY <1>2 DEF Part
      <3> QED
        BY <3>1, <3>2
    <2> QED
      BY <2>1, <2>2 DEF Puts
  <1>i. /\ \A q \in Port : Buffered(q) \in Int /\ Unsorted(q) \in Int
        /\ Held \in [Port -> Int]
    BY PartInt DEF Typed, Held
  <1>6. /\ \A q \in Port : Buffered(q)' = Buffered(q) + IF q = b THEN 0 - n ELSE 0
        /\ \A q \in Port : Unsorted(q)' = Unsorted(q)
        /\ Total(Held)' = Total(Held) - n
    <2>1. 0 - n \in Int /\ Total(Held) \in Int
      BY <1>3, <1>i, Finite, TotalInt
    <2>2. /\ \A q \in Port : Buffered(q)' = Buffered(q) + IF q = b THEN 0 - n ELSE 0
          /\ \A q \in Port : Unsorted(q)' = Unsorted(q) + IF q = b THEN 0 ELSE 0
          /\ Total(Held)' = Total(Held) + (0 - n) + 0
      BY <1>3, <1>5, <2>1, Moves DEF Typed
    <2>3. \A q \in Port : Unsorted(q)' = Unsorted(q)
      BY <2>2, <1>i
    <2>4. Total(Held)' = Total(Held) - n
      BY <2>1, <2>2, <1>3
    <2> QED
      BY <2>2, <2>3, <2>4
  <1>s. \A q \in Port :
          /\ stats'[q].rx = stats[q].rx
          /\ stats'[q].tx = stats[q].tx + IF q = b THEN sent ELSE 0
          /\ stats'[q].dropped = stats[q].dropped + IF q = b THEN lost ELSE 0
    <2>1. ASSUME NEW q \in Port
          PROVE  /\ stats'[q].rx = stats[q].rx
                 /\ stats'[q].tx = stats[q].tx + IF q = b THEN sent ELSE 0
                 /\ stats'[q].dropped = stats[q].dropped + IF q = b THEN lost ELSE 0
      <3>1. stats[q] \in Counters
        BY <1>t
      <3>2. CASE q = b
        BY <1>2, <1>3, <1>4, <1>t, <3>1, <3>2 DEF Counters
      <3>3. CASE q # b
        BY <1>2, <1>3, <1>t, <3>1, <3>3 DEF Counters
      <3> QED
        BY <3>2, <3>3
    <2> QED
      BY <2>1
  <1>7. ASSUME NEW p \in started PROVE PortBalanced(p)'
    <2> DEFINE c == dst[p]
               tx == stats[c].tx
               dropped == stats[c].dropped
               buffered == Buffered(c)
               unsorted == Unsorted(p)
    <2>1. p \in Port /\ c \in Port
      BY <1>t
    <2>2. tx \in Nat /\ dropped \in Nat /\ buffered \in Int /\ unsorted \in Int
      BY <2>1, <1>t, <1>i DEF Counters
    <2>3. stats[p].rx = tx + dropped + buffered + unsorted
      BY Books DEF Conserved, PortBalanced
    <2>4. /\ stats'[p].rx = stats[p].rx
          /\ stats'[c].tx = tx + IF c = b THEN sent ELSE 0
          /\ stats'[c].dropped = dropped + IF c = b THEN lost ELSE 0
          /\ Buffered(c)' = buffered + IF c = b THEN 0 - n ELSE 0
          /\ Unsorted(p)' = unsorted
      BY <1>s, <1>6, <2>1
    <2> HIDE DEF tx, dropped, buffered, unsorted
    <2>5. stats'[p].rx = stats'[c].tx + stats'[c].dropped + Buffered(c)' + Unsorted(p)'
      <3>1. CASE c = b
        BY <3>1, <2>2, <2>3, <2>4, <1>3, <1>4 DEF lost
      <3>2. CASE c # b
        BY <3>2, <2>2, <2>3, <2>4
      <3> QED
        BY <3>1, <3>2
    <2> QED
      BY <2>5 DEF PortBalanced
  <1>8. Balanced'
    <2>1. Total(Held) \in Int /\ Total(wire) \in Int
      <3>1. wire \in [Port -> Int]
        BY <1>t
      <3> QED
        BY <3>1, <1>i, Finite, TotalInt
    <2>2. Total(wire') = Total(wire) + sent
      <3>1. wire \in [Port -> Int] /\ wire' \in [Port -> Int]
        BY <1>t DEF LoopTypes
      <3>2. Grows(Port, wire, wire', b, sent)
        BY <1>2, <1>3, <1>t DEF Grows
      <3>3. sent \in Int
        BY <1>4
      <3> QED
        BY <3>1, <3>2, <3>3, <1>3, Finite, TotalGrows
    <2>3. NbMbuf = pool + Total(wire) + Total(Held)
      BY Books DEF Conserved, Balanced
    <2>4. NbMbuf = pool' + Total(wire') + Total(Held)'
      BY <2>1, <2>2, <2>3, <1>2, <1>3, <1>4, <1>6, <1>t DEF lost
    <2> QED
      BY <2>4 DEF Balanced
  <1>9. (Accounted <=> Balanced /\ \A p \in started : PortBalanced(p))'
    BY Books, PTL
  <1> QED
    BY <1>7, <1>8, <1>9

\* What is received comes out of the pool; the batch before it has been forwarded.
LEMMA ReceiveAccounted ==
  ASSUME Typed, LoopTypes', Conserved, UNCHANGED <<dst, started>>,
         NEW l \in Lcore, NEW r \in Port, NEW n \in 0..MaxPktBurst, Receive(l, r, n)
  PROVE  Accounted'
  <1>t. /\ batch \in [Lcore -> Burst \cup {NoBatch}]
        /\ stats \in [Port -> Counters] /\ wire \in [Port -> Nat] /\ pool \in Nat
        /\ dst \in [Port -> Port] /\ started \subseteq Port
    BY DEF Typed, MainTypes, Shapes, LoopTypes
  <1>1. /\ n <= pool /\ pool' = pool - n
        /\ stats' = [stats EXCEPT ![r].rx = @ + n]
        /\ batch' = [batch EXCEPT ![l] = [port |-> r, n |-> n]]
        /\ UNCHANGED <<len, wire>>
        /\ batch[l].n = 0
    BY DEF Receive, Goto, Conserved, Sorted
  <1>2. n \in Nat
    OBVIOUS
  <1>3. Puts(l, r, 0, r, n)
    <2>1. ASSUME NEW k \in Lcore, NEW q \in Port
          PROVE  len'[k][q] = len[k][q] + IF k = l /\ q = r THEN 0 ELSE 0
      <3>1. len[k][q] \in Nat
        BY PartInt DEF Typed
      <3> QED
        BY <3>1, <1>1
    <2>2. ASSUME NEW k \in Lcore, NEW q \in Port
          PROVE  Part(k, q)' = Part(k, q) + IF k = l /\ q = r THEN n ELSE 0
      <3>1. Part(k, q) \in Nat
        BY PartInt DEF Typed
      <3>2. CASE k = l
        <4>1. batch'[l].port = r /\ batch'[l].n = n /\ Part(l, q) = 0
          BY <1>1, <1>t DEF Part
        <4> QED
          BY <3>2, <4>1, <1>2 DEF Part
      <3>3. CASE k # l
        <4>1. batch'[k] = batch[k]
          BY <1>1, <1>t, <3>3
        <4> QED
          BY <3>1, <3>3, <4>1 DEF Part
      <3> QED
        BY <3>2, <3>3
    <2> QED
      BY <2>1, <2>2 DEF Puts
  <1>i. /\ \A q \in Port : Buffered(q) \in Int /\ Unsorted(q) \in Int
        /\ Held \in [Port -> Int]
    BY PartInt DEF Typed, Held
  <1>4. /\ \A q \in Port : Buffered(q)' = Buffered(q)
        /\ \A q \in Port : Unsorted(q)' = Unsorted(q) + IF q = r THEN n ELSE 0
        /\ Total(Held)' = Total(Held) + n
    <2>1. n \in Int /\ Total(Held) \in Int
      BY <1>2, <1>i, Finite, TotalInt
    <2>2. /\ \A q \in Port : Buffered(q)' = Buffered(q) + IF q = r THEN 0 ELSE 0
          /\ \A q \in Port : Unsorted(q)' = Unsorted(q) + IF q = r THEN n ELSE 0
          /\ Total(Held)' = Total(Held) + 0 + n
      BY <1>3, <2>1, Moves DEF Typed
    <2>3. \A q \in Port : Buffered(q)' = Buffered(q)
      BY <2>2, <1>i
    <2> QED
      BY <2>1, <2>2, <2>3
  <1>s. \A q \in Port :
          /\ stats'[q].rx = stats[q].rx + IF q = r THEN n ELSE 0
          /\ stats'[q].tx = stats[q].tx
          /\ stats'[q].dropped = stats[q].dropped
    <2>1. ASSUME NEW q \in Port
          PROVE  /\ stats'[q].rx = stats[q].rx + IF q = r THEN n ELSE 0
                 /\ stats'[q].tx = stats[q].tx
                 /\ stats'[q].dropped = stats[q].dropped
      <3>1. stats[q] \in Counters
        BY <1>t
      <3>2. CASE q = r
        BY <1>1, <1>2, <1>t, <3>1, <3>2 DEF Counters
      <3>3. CASE q # r
        BY <1>1, <1>t, <3>1, <3>3 DEF Counters
      <3> QED
        BY <3>2, <3>3
    <2> QED
      BY <2>1
  <1>5. ASSUME NEW p \in started PROVE PortBalanced(p)'
    <2> DEFINE c == dst[p]
               tx == stats[c].tx
               dropped == stats[c].dropped
               buffered == Buffered(c)
               unsorted == Unsorted(p)
    <2>1. p \in Port /\ c \in Port
      BY <1>t
    <2>2. tx \in Nat /\ dropped \in Nat /\ buffered \in Int /\ unsorted \in Int
      BY <2>1, <1>t, <1>i DEF Counters
    <2>3. stats[p].rx = tx + dropped + buffered + unsorted
      BY Books DEF Conserved, PortBalanced
    <2>4. /\ stats'[p].rx = stats[p].rx + IF p = r THEN n ELSE 0
          /\ stats'[c].tx = tx /\ stats'[c].dropped = dropped
          /\ Buffered(c)' = buffered
          /\ Unsorted(p)' = unsorted + IF p = r THEN n ELSE 0
      BY <1>s, <1>4, <2>1
    <2> HIDE DEF tx, dropped, buffered, unsorted
    <2>5. stats'[p].rx = stats'[c].tx + stats'[c].dropped + Buffered(c)' + Unsorted(p)'
      <3>1. CASE p = r
        BY <3>1, <2>2, <2>3, <2>4, <1>2
      <3>2. CASE p # r
        BY <3>2, <2>2, <2>3, <2>4
      <3> QED
        BY <3>1, <3>2
    <2> QED
      BY <2>5 DEF PortBalanced
  <1>6. Balanced'
    <2>1. Total(Held) \in Int /\ Total(wire) \in Int
      <3>1. wire \in [Port -> Int]
        BY <1>t
      <3> QED
        BY <3>1, <1>i, Finite, TotalInt
    <2>2. NbMbuf = pool + Total(wire) + Total(Held)
      BY Books DEF Conserved, Balanced
    <2>3. NbMbuf = pool' + Total(wire) + Total(Held)'
      BY <2>1, <2>2, <1>1, <1>2, <1>4, <1>t
    <2> QED
      BY <2>3, <1>1 DEF Balanced
  <1>7. (Accounted <=> Balanced /\ \A p \in started : PortBalanced(p))'
    BY Books, PTL
  <1> QED
    BY <1>5, <1>6, <1>7

\* The end of a batch takes nothing away: it has been forwarded.
LEMMA EndOfBatchAccounted ==
  ASSUME Typed, LoopTypes', Accounted, UNCHANGED <<dst, started>>,
         NEW l \in Lcore, EndOfBatch(l)
  PROVE  Accounted'
  <1>1. /\ batch[l].n = 0 /\ batch' = [batch EXCEPT ![l] = NoBatch]
        /\ UNCHANGED <<len, stats, pool, wire>>
    BY DEF EndOfBatch, traffic
  <1>t. batch \in [Lcore -> Burst \cup {NoBatch}]
    BY DEF Typed, LoopTypes
  <1>2. ASSUME NEW k \in Lcore, NEW q \in Port PROVE Part(k, q)' = Part(k, q)
    <2>1. CASE k = l
      BY <2>1, <1>1, <1>t DEF Part, NoBatch
    <2>2. CASE k # l
      BY <2>2, <1>1, <1>t DEF Part
    <2> QED
      BY <2>1, <2>2
  <1>3. ASSUME NEW q \in Port PROVE Buffered(q)' = Buffered(q) /\ Unsorted(q)' = Unsorted(q)
    <2>1. [k \in Lcore |-> Part(k, q)'] = [k \in Lcore |-> Part(k, q)]
      BY <1>2
    <2> QED
      BY <2>1, <1>1 DEF Buffered, Unsorted, Part
  <1>4. Held' = Held
    BY <1>3 DEF Held
  <1>5. ASSUME NEW p \in started PROVE PortBalanced(p)'
    <2>1. p \in Port /\ dst[p] \in Port
      BY DEF Typed, MainTypes, Shapes
    <2> QED
      BY <2>1, <1>1, <1>3, Books DEF PortBalanced
  <1>6. Balanced'
    BY <1>1, <1>4, Books DEF Balanced
  <1>7. (Accounted <=> Balanced /\ \A p \in started : PortBalanced(p))'
    BY Books, PTL
  <1> QED
    BY <1>5, <1>6, <1>7

\* What the NIC has sent goes back to the pool.
LEMMA SentAccounted ==
  ASSUME Typed, LoopTypes', Accounted, NEW r \in Port, NEW n \in 1..NbMbuf, Sent(r, n)
  PROVE  Accounted'
  <1>1. /\ wire' = [wire EXCEPT ![r] = @ - n] /\ pool' = pool + n
        /\ UNCHANGED <<dst, started, batch, len, stats>>
    BY DEF Sent, setup, pairing
  <1>2. wire \in [Port -> Nat] /\ wire \in [Port -> Int] /\ wire' \in [Port -> Int] /\ pool \in Nat
    BY DEF Typed, LoopTypes
  <1>3. n \in Nat
    BY Sizes
  <1>4. /\ \A q \in Port : Buffered(q)' = Buffered(q) /\ Unsorted(q)' = Unsorted(q)
        /\ Held' = Held /\ Total(Held) \in Int
    <2>1. \A q \in Port : Buffered(q)' = Buffered(q) /\ Unsorted(q)' = Unsorted(q)
      BY <1>1 DEF Buffered, Unsorted
    <2>2. Held \in [Port -> Int]
      BY PartInt DEF Typed, Held
    <2>3. Held' = Held
      BY <2>1 DEF Held
    <2>4. Total(Held) \in Int
      BY <2>2, Finite, TotalInt
    <2> QED
      BY <2>1, <2>3, <2>4
  <1>5. Total(wire') = Total(wire) - n /\ Total(wire) \in Int
    <2>1. Grows(Port, wire, wire', r, 0 - n)
      BY <1>1, <1>2, <1>3 DEF Grows
    <2>2. 0 - n \in Int /\ Total(wire) \in Int
      BY <1>2, <1>3, Finite, TotalInt
    <2>3. Total(wire') = Total(wire) + (0 - n)
      BY <2>1, <2>2, <1>2, Finite, TotalGrows
    <2> QED
      BY <2>2, <2>3, <1>3
  <1>6. Balanced'
    <2>1. NbMbuf = pool + Total(wire) + Total(Held)
      BY Books DEF Balanced
    <2>2. NbMbuf = pool' + Total(wire') + Total(Held)
      BY <2>1, <1>1, <1>2, <1>3, <1>4, <1>5
    <2> QED
      BY <2>2, <1>4 DEF Balanced
  <1>7. ASSUME NEW p \in started PROVE PortBalanced(p)'
    <2>1. p \in Port /\ dst[p] \in Port
      BY DEF Typed, MainTypes, Shapes
    <2> QED
      BY <2>1, <1>1, <1>4, Books DEF PortBalanced
  <1>8. (Accounted <=> Balanced /\ \A p \in started : PortBalanced(p))'
    BY Books, PTL
  <1> QED
    BY <1>1, <1>6, <1>7, <1>8

LEMMA LcoreStepConserved ==
  ASSUME Typed, LoopTypes', Separate, Conserved, NEW l \in Lcore, LcoreStep(l)
  PROVE  Conserved'
  <1>f. UNCHANGED <<main, options, nbPorts, portid, dst, started>>
    BY LcoreStepFrame DEF setup, pairing
  <1>r. main = "running"
    <2>1. pc[l] # "wait" \/ burst[l] # Null
      BY DEF LcoreStep, StartDrain, StartRound, EndDrain, EndOfRound, DrainPort, BurstReturns,
             Receive, Forward, EndOfBatch, Goto
    <2> QED
      BY <2>1 DEF Separate, Idle, Quiet
  <1>1. Fresh' /\ Up'
    <2>1. Enabled' = Enabled
      BY <1>f DEF Enabled, InMask
    <2> QED
      BY <1>r, <1>f, <2>1 DEF Conserved, Fresh, Up
  <1>t. /\ pc \in [Lcore -> {"wait", "top", "drain", "receive", "forward", "returned"}]
        /\ batch \in [Lcore -> Burst \cup {NoBatch}]
        /\ len \in [Lcore -> [Port -> 0..MaxPktBurst]]
        /\ burst \in [Lcore -> Burst \cup {Null}]
        /\ dst \in [Port -> Port]
    BY DEF Typed, MainTypes, Shapes, LoopTypes
  \* Where the loop only goes on, nothing is moved.
  <1>2. CASE StartDrain(l) \/ StartRound(l) \/ EndDrain(l) \/ EndOfRound(l)
    <2>1. /\ UNCHANGED <<batch, len, burst, stats, pool, wire>>
          /\ pc[l] # "forward" /\ \A k \in Lcore \ {l} : pc'[k] = pc[k]
      BY <1>2, <1>t DEF StartDrain, StartRound, EndDrain, EndOfRound, Goto, traffic
    <2>2. Accounted'
      BY <2>1, <1>f, BooksKept DEF Conserved
    <2>3. Whole' /\ Sorted'
      BY <2>1 DEF Conserved, Whole, Sorted
    <2> QED
      BY <2>2, <2>3, <1>1 DEF Conserved
  <1>3. ASSUME NEW p \in Port, DrainPort(l, p) PROVE Conserved'
    <2>1. /\ burst' = [burst EXCEPT ![l] = [port |-> p, n |-> len[l][p]]]
          /\ pc[l] = "drain" /\ pc' = [pc EXCEPT ![l] = "drain"]
          /\ UNCHANGED <<batch, len, stats, pool, wire>>
      BY <1>3 DEF DrainPort, SendBurst, Goto
    <2>2. Accounted'
      BY <2>1, <1>f, BooksKept DEF Conserved
    <2>3. Whole'
      BY <2>1, <1>t DEF Conserved, Whole
    <2>4. Sorted'
      BY <2>1, <1>t DEF Conserved, Sorted
    <2> QED
      BY <2>2, <2>3, <2>4, <1>1 DEF Conserved
  <1>4. ASSUME NEW sent \in 0..MaxPktBurst, BurstReturns(l, sent) PROVE Conserved'
    <2>1. Accounted'
      BY <1>4, <1>f, BurstAccounted
    <2> DEFINE b == burst[l].port
    <2>2. /\ burst' = [burst EXCEPT ![l] = Null] /\ len' = [len EXCEPT ![l][b] = 0]
          /\ UNCHANGED <<pc, batch>>
      BY <1>4 DEF BurstReturns
    <2> HIDE DEF b
    <2>3. Whole'
      <3>1. burst'[l] = Null
        BY <2>2, <1>t
      <3>2. \A k \in Lcore \ {l} : burst'[k] = burst[k] /\ len'[k] = len[k]
        BY <2>2, <1>t
      <3> QED
        BY <3>1, <3>2 DEF Conserved, Whole
    <2>4. Sorted'
      BY <2>2 DEF Conserved, Sorted
    <2> QED
      BY <2>1, <2>3, <2>4, <1>1 DEF Conserved
  <1>5. ASSUME NEW p \in Port, NEW n \in 0..MaxPktBurst, Receive(l, p, n) PROVE Conserved'
    <2>1. Accounted'
      BY <1>5, <1>f, ReceiveAccounted
    <2>2. /\ batch' = [batch EXCEPT ![l] = [port |-> p, n |-> n]]
          /\ pc' = [pc EXCEPT ![l] = "forward"]
          /\ UNCHANGED <<len, burst>>
      BY <1>5 DEF Receive, Goto
    <2>3. Whole'
      BY <2>2 DEF Conserved, Whole
    <2>4. Sorted'
      BY <2>2, <1>t DEF Conserved, Sorted
    <2> QED
      BY <2>1, <2>3, <2>4, <1>1 DEF Conserved
  <1>6. CASE Forward(l)
    <2>1. Accounted'
      BY <1>6, <1>f, <1>r, ForwardAccounted
    <2> DEFINE d == dst[batch[l].port]
    <2>2. /\ burst[l] = Null /\ len' = [len EXCEPT ![l][d] = @ + 1]
          /\ \/ burst' = [burst EXCEPT ![l] = [port |-> d, n |-> len'[l][d]]]
             \/ burst' = burst
          /\ pc[l] = "forward" /\ pc' = [pc EXCEPT ![l] = "forward"]
          /\ batch' = [batch EXCEPT ![l].n = @ - 1]
      BY <1>6 DEF Forward, SendBurst, Goto
    <2> HIDE DEF d
    <2>3. Whole'
      <3>1. \A k \in Lcore \ {l} : burst'[k] = burst[k] /\ len'[k] = len[k]
        BY <2>2, <1>t
      <3>2. burst'[l] # Null => burst'[l].n = len'[l][burst'[l].port]
        BY <2>2, <1>t
      <3> QED
        BY <3>1, <3>2 DEF Conserved, Whole
    <2>4. Sorted'
      BY <2>2, <1>t DEF Conserved, Sorted
    <2> QED
      BY <2>1, <2>3, <2>4, <1>1 DEF Conserved
  <1>7. CASE EndOfBatch(l)
    <2>1. Accounted'
      BY <1>7, <1>f, EndOfBatchAccounted DEF Conserved
    <2>2. /\ batch[l].n = 0 /\ batch' = [batch EXCEPT ![l] = NoBatch]
          /\ pc' = [pc EXCEPT ![l] = "receive"]
          /\ UNCHANGED <<len, burst>>
      BY <1>7 DEF EndOfBatch, Goto, traffic
    <2>3. Whole'
      BY <2>2 DEF Conserved, Whole
    <2>4. Sorted'
      BY <2>2, <1>t DEF Conserved, Sorted, NoBatch
    <2> QED
      BY <2>1, <2>3, <2>4, <1>1 DEF Conserved
  <1> QED
    BY <1>2, <1>3, <1>4, <1>5, <1>6, <1>7 DEF LcoreStep

LEMMA NextConserved == Typed /\ Separate /\ Conserved /\ [Next]_vars => Conserved'
  <1> SUFFICES ASSUME Typed, Separate, Conserved, [Next]_vars PROVE Conserved'
    OBVIOUS
  <1>t. LoopTypes'
    BY NextTyped DEF Typed
  <1>u. ASSUME UNCHANGED <<dst, started, options, nbPorts, portid, loop>>,
               main' = main \/ (main # "running" /\ main' = "exited")
        PROVE  Conserved'
    <2>1. UNCHANGED <<pc, batch, len, burst, stats, pool, wire>>
      BY <1>u DEF loop, traffic
    <2>2. Accounted'
      BY <1>u, <2>1, BooksKept DEF Conserved
    <2>3. Whole' /\ Sorted'
      BY <2>1 DEF Conserved, Whole, Sorted
    <2>4. Fresh' /\ Up'
      BY <1>u, <2>1 DEF Conserved, Fresh, Up, Below, Enabled, InMask
    <2> QED
      BY <2>2, <2>3, <2>4 DEF Conserved
  <1>1. CASE MainStep
    BY <1>1, MainStepConserved
  <1>2. CASE Failure
    BY <1>2, <1>u DEF Failure, Exit, setup, pairing
  <1>3. ASSUME NEW l \in Lcore, LcoreStep(l) PROVE Conserved'
    BY <1>3, <1>t, LcoreStepConserved
  <1>4. ASSUME NEW p \in Port, NEW n \in 1..NbMbuf, Sent(p, n) PROVE Conserved'
    <2>1. Accounted'
      BY <1>4, <1>t, SentAccounted DEF Conserved
    <2>2. /\ UNCHANGED <<main, options, nbPorts, portid, started, pc, batch, len, burst>>
          /\ n \in 1..wire[p]
      BY <1>4 DEF Sent, setup
    <2>3. main = "running"
      <3>1. wire[p] # 0
        BY <2>2, Sizes
      <3> QED
        BY <3>1 DEF Conserved, Fresh
    <2>4. Whole' /\ Sorted' /\ Fresh' /\ Up'
      BY <2>2, <2>3 DEF Conserved, Whole, Sorted, Fresh, Up, Below, Enabled, InMask
    <2> QED
      BY <2>1, <2>4 DEF Conserved
  <1>5. CASE UNCHANGED vars
    BY <1>5, <1>u DEF vars, setup, pairing
  <1> QED
    BY <1>1, <1>2, <1>3, <1>4, <1>5 DEF Next

\* No packet is lost without being counted and no mbuf leaks: what a port has
\* received is sent, dropped or on its way, and every mbuf is free, on the wire or
\* held by an lcore, for any ports, lcores, options and traffic.
THEOREM NothingIsLost == Spec => []Accounted
  <1>1. Spec => [](Typed /\ Separate /\ Conserved)
    BY InitTyped, InitSeparate, InitConserved, NextTyped, NextSeparate, NextConserved, PTL
    DEF Spec
  <1> QED
    BY <1>1, PTL DEF Conserved
=============================================================================
