--------------------------- MODULE DataPlaneProofs ---------------------------
(***************************************************************************)
(* Proofs about DataPlane, for any lcores and any size of the pool and of  *)
(* a burst: the actions are handed out and wired as start() draws them,    *)
(* and the process dies of nothing else.                                   *)
(***************************************************************************)
EXTENDS DataPlane, FiniteSetTheorems, WellFoundedInduction, TLAPS

Launched == main \in {"launch", "running"} \/ \E l \in lcores : pc[l] # "waiting"

\* Where an lcore is in its loop
Loops ==
  /\ at \in [LcoreId -> Nat \ {0}]
  /\ main = "launch" /\ master \in LcoreId => pc[master] = "waiting"
  /\ \A l \in LcoreId :
       /\ pc[l] # "waiting" => l \in lcores /\ main \in {"launch", "running", "crashed"}
       /\ pc[l] \in {"waiting", "returned"} => at[l] = 1
       /\ pc[l] \in {"prepare", "loop", "hung"} => at[l] \in 1..Len(actions[l])

One == <<"distribution">>
Two == <<"distribution", "uncipherRX">>
Three == <<"distribution", "uncipherRX", "cipherTX">>
Four == <<"distribution", "uncipherRX", "cipherTX", "cipherRX">>
Five == <<"distribution", "uncipherRX", "cipherTX", "cipherRX", "uncipherTX">>

\* What the packet lcore and the others have been given so far
HandedOut ==
  /\ lcores # {}
  /\ main # "packetLcore" => packetLcore \in lcores
  /\ main \in {"packetLcore", "distribution"} => \A l \in LcoreId : actions[l] = <<>>
  /\ main = "ciphers" => \A l \in lcores \ {packetLcore} : actions[l] \in {<<>>, <<"cipher">>}
  /\ main \notin {"packetLcore", "distribution", "ciphers"} =>
       \A l \in lcores \ {packetLcore} : actions[l] = <<"cipher">>
  /\ main \in {"ciphers", "uncipherRX"} => actions[packetLcore] = One
  /\ main = "cipherTX" => actions[packetLcore] = Two
  /\ main \in {"forward", "cipherRX"} => actions[packetLcore] = Three
  /\ main = "uncipherTX" => actions[packetLcore] = Four
  /\ main = "backward" \/ Launched => actions[packetLcore] = Five

\* What has been wired so far
Half ==
  /\ portRX[0] = "uncipherRX" /\ rxPort["uncipherRX"] = 0
  /\ portTX[1] = "cipherTX" /\ txPort["cipherTX"] = 1
  /\ rxActions["uncipher2cipher"] = <<"uncipherRX">>
  /\ txActions["uncipher2cipher"] = <<"cipherTX">>

OtherHalf ==
  /\ portRX[1] = "cipherRX" /\ rxPort["cipherRX"] = 1
  /\ portTX[0] = "uncipherTX" /\ txPort["uncipherTX"] = 0
  /\ rxActions["cipher2uncipher"] = <<"cipherRX">>
  /\ txActions["cipher2uncipher"] = <<"uncipherTX">>

Unwired(w) == rxActions[w] = <<>> /\ txActions[w] = <<>>

WiredSoFar ==
  /\ main \in {"packetLcore", "distribution", "ciphers", "uncipherRX", "cipherTX", "forward"}
       => Unwired("uncipher2cipher")
  /\ main \in {"packetLcore", "distribution", "ciphers", "uncipherRX", "cipherTX", "forward",
               "cipherRX", "uncipherTX", "backward"} => Unwired("cipher2uncipher")
  /\ main \in {"cipherRX", "uncipherTX", "backward"} \/ Launched => Half
  /\ Launched => OtherHalf

\* What has been received is not in the pool, which bounds the statistics.
Drawn == pool + rx[0] + rx[1] = Mbufs

Inv == TypeOK /\ Loops /\ HandedOut /\ WiredSoFar /\ DiesOnlyOfNulls /\ Drawn

LEMMA Assumed ==
  /\ LcoreId \subseteq Nat /\ IsFiniteSet(LcoreId) /\ NoLcore \notin LcoreId
  /\ NoPort \notin {0, 1} /\ Mbufs \in Nat /\ Burst \in Nat
  BY DataPlaneAssumption DEF DataPlaneAssumption

\* A set of lcores has a lowest one.
LEMMA Lowest ==
  ASSUME NEW T, T \subseteq Nat, T # {}
  PROVE  \E l \in T : \A m \in T : l <= m
  <1> DEFINE R == OpToRel(<, Nat)
  <1>1. IsWellFoundedOn(R, Nat)
    BY NatLessThanWellFounded
  <1>2. \A x, y \in Nat : x < y => <<x, y>> \in R
    BY DEF OpToRel
  <1> HIDE DEF R
  <1>3. PICK l \in T : \A m \in T : <<m, l>> \notin R
    BY <1>1, WFMin
  <1>4. \A m \in T : ~(m < l)
    BY <1>2, <1>3
  <1> QED
    BY <1>4

\* findFree gives a free lcore, unless there is none.
LEMMA FindFreeWorks ==
  ASSUME TypeOK
  PROVE  \/ FindFree = NoLcore /\ \A l \in lcores : actions[l] # <<>>
         \/ FindFree \in lcores /\ actions[FindFree] = <<>>
  <1> DEFINE free == {l \in lcores : actions[l] = <<>>}
  <1>1. CASE free = {}
    BY <1>1 DEF FindFree
  <1>2. CASE free # {}
    <2>1. free \subseteq Nat
      BY Assumed DEF TypeOK
    <2>2. \E l \in free : \A m \in free : l <= m
      BY <1>2, <2>1, Lowest
    <2>3. FindFree \in free
      BY <1>2, <2>2 DEF FindFree
    <2> QED
      BY <2>3
  <1> QED
    BY <1>1, <1>2

LEMMA InitInv == Init => Inv
  <1> SUFFICES ASSUME Init PROVE Inv
    OBVIOUS
  <1>1. TypeOK
    BY Assumed DEF Init, TypeOK
  <1>2. Loops /\ ~Launched
    BY DEF Init, Loops, Launched
  <1>3. HandedOut
    BY <1>2 DEF Init, HandedOut
  <1>4. WiredSoFar
    BY <1>2 DEF Init, WiredSoFar, Unwired, Worker
  <1>5. DiesOnlyOfNulls /\ Drawn
    BY Assumed DEF Init, DiesOnlyOfNulls, Drawn, Port
  <1> QED
    BY <1>1, <1>2, <1>3, <1>4, <1>5 DEF Inv
-----------------------------------------------------------------------------
(* Handing out the actions *)

\* Before the launch no lcore runs.
LEMMA BeforeLaunch ==
  ASSUME Inv, main \notin {"launch", "running", "crashed"}
  PROVE  ~Launched /\ \A l \in LcoreId : pc[l] = "waiting" /\ at[l] = 1
  BY DEF Inv, Loops, Launched, TypeOK

LEMMA TakePacketLcoreKeeps == ASSUME Inv, TakePacketLcore PROVE Inv'
  <1>1. /\ main = "packetLcore" /\ main' = "distribution" /\ packetLcore' = FindFree
        /\ UNCHANGED <<lcores, master, hasPorts, actions, rxPort, txPort, portRX, portTX,
                       rxActions, txActions, pc, at, pool, rx>>
    BY DEF TakePacketLcore, GoOn, dpdk, wires, loops, mbufs
  <1>2. FindFree \in lcores
    BY <1>1, FindFreeWorks DEF Inv, HandedOut, TypeOK
  <1>3. ~Launched'
    BY <1>1, BeforeLaunch DEF Launched, Inv, TypeOK
  <1>4. TypeOK' /\ Loops'
    BY <1>1, <1>2 DEF Inv, TypeOK, Loops
  <1>5. HandedOut'
    BY <1>1, <1>2, <1>3 DEF Inv, HandedOut
  <1>6. WiredSoFar'
    BY <1>1, <1>3 DEF Inv, WiredSoFar, Unwired
  <1> QED
    BY <1>1, <1>4, <1>5, <1>6 DEF Inv, DiesOnlyOfNulls, Drawn

LEMMA Appended ==
  ASSUME NEW S, NEW s \in Seq(S), NEW t \in Seq(S), NEW e \in S,
         Len(t) = Len(s) + 1, \A i \in 1..Len(s) : t[i] = s[i], t[Len(s) + 1] = e
  PROVE  Append(s, e) = t
  <1>1. Append(s, e) \in Seq(S) /\ Len(Append(s, e)) = Len(t)
    OBVIOUS
  <1>2. \A i \in 1..Len(t) : Append(s, e)[i] = t[i]
    <2> SUFFICES ASSUME NEW i \in 1..Len(s)+1 PROVE Append(s, e)[i] = t[i]
      OBVIOUS
    <2>1. CASE i \in 1..Len(s)
      BY <2>1
    <2>2. CASE i = Len(s) + 1
      BY <2>2
    <2> QED
      BY <2>1, <2>2
  <1> QED
    BY <1>1, <1>2

\* The packet lcore's actions are those in the order of start().
LEMMA Appends ==
  /\ Append(<<>>, "distribution") = One /\ Append(One, "uncipherRX") = Two
  /\ Append(Two, "cipherTX") = Three /\ Append(Three, "cipherRX") = Four
  /\ Append(Four, "uncipherTX") = Five
  <1>1. One \in Seq(Action) /\ Len(One) = 1 /\ One[1] = "distribution"
    BY DEF One, Action
  <1>2. /\ Two \in Seq(Action) /\ Len(Two) = 2
        /\ Two[1] = "distribution" /\ Two[2] = "uncipherRX"
    BY DEF Two, Action, RX
  <1>3. /\ Three \in Seq(Action) /\ Len(Three) = 3
        /\ Three[1] = "distribution" /\ Three[2] = "uncipherRX" /\ Three[3] = "cipherTX"
    BY DEF Three, Action, RX, TX
  <1>4. /\ Four \in Seq(Action) /\ Len(Four) = 4
        /\ Four[1] = "distribution" /\ Four[2] = "uncipherRX" /\ Four[3] = "cipherTX"
        /\ Four[4] = "cipherRX"
    BY DEF Four, Action, RX, TX
  <1>5. /\ Five \in Seq(Action) /\ Len(Five) = 5
        /\ Five[1] = "distribution" /\ Five[2] = "uncipherRX" /\ Five[3] = "cipherTX"
        /\ Five[4] = "cipherRX" /\ Five[5] = "uncipherTX"
    BY DEF Five, Action, RX, TX
  <1>6. {"distribution", "uncipherRX", "cipherTX", "cipherRX", "uncipherTX"} \subseteq Action
    BY DEF Action, RX, TX
  <1>7. Append(<<>>, "distribution") = One
    BY DEF One
  <1>8. Append(One, "uncipherRX") = Two
    <2>1. \A i \in 1..Len(One) : Two[i] = One[i]
      BY <1>1, <1>2
    <2>2. Len(Two) = Len(One) + 1 /\ Two[Len(One) + 1] = "uncipherRX" /\ "uncipherRX" \in Action
      BY <1>1, <1>2, <1>6
    <2> QED
      BY <1>1, <1>2, <2>1, <2>2, Appended
  <1>9. Append(Two, "cipherTX") = Three
    <2>1. \A i \in 1..Len(Two) : Three[i] = Two[i]
      BY <1>2, <1>3
    <2>2. Len(Three) = Len(Two) + 1 /\ Three[Len(Two) + 1] = "cipherTX" /\ "cipherTX" \in Action
      BY <1>2, <1>3, <1>6
    <2> QED
      BY <1>2, <1>3, <2>1, <2>2, Appended
  <1>10. Append(Three, "cipherRX") = Four
    <2>1. \A i \in 1..Len(Three) : Four[i] = Three[i]
      BY <1>3, <1>4
    <2>2. Len(Four) = Len(Three) + 1 /\ Four[Len(Three) + 1] = "cipherRX" /\ "cipherRX" \in Action
      BY <1>3, <1>4, <1>6
    <2> QED
      BY <1>3, <1>4, <2>1, <2>2, Appended
  <1>11. Append(Four, "uncipherTX") = Five
    <2>1. \A i \in 1..Len(Four) : Five[i] = Four[i]
      BY <1>4, <1>5
    <2>2. Len(Five) = Len(Four) + 1 /\ Five[Len(Four) + 1] = "uncipherTX" /\ "uncipherTX" \in Action
      BY <1>4, <1>5, <1>6
    <2> QED
      BY <1>4, <1>5, <2>1, <2>2, Appended
  <1> QED
    BY <1>7, <1>8, <1>9, <1>10, <1>11

LEMMA GiveKeeps == ASSUME Inv, GiveToPacketLcore PROVE Inv'
  <1>1. PICK step \in {<<"distribution", "ciphers">>,
                  <<"uncipherRX", "cipherTX">>, <<"cipherTX", "forward">>,
                  <<"cipherRX", "uncipherTX">>, <<"uncipherTX", "backward">>} :
          /\ main = step[1] /\ main' = step[2]
          /\ actions' = [actions EXCEPT ![packetLcore] = Append(@, step[1])]
          /\ UNCHANGED <<lcores, master, hasPorts, packetLcore, rxPort, txPort, portRX, portTX,
                         rxActions, txActions, pc, at, pool, rx>>
    BY DEF GiveToPacketLcore, GoOn, dpdk, wires, loops, mbufs
  <1>2. /\ main \in {"distribution", "uncipherRX", "cipherTX", "cipherRX", "uncipherTX"}
        /\ main = step[1] /\ main \in Action /\ packetLcore \in lcores
        /\ main' = IF main = "distribution" THEN "ciphers" ELSE
                   IF main = "uncipherRX" THEN "cipherTX" ELSE
                   IF main = "cipherTX" THEN "forward" ELSE
                   IF main = "cipherRX" THEN "uncipherTX" ELSE "backward"
    BY <1>1 DEF Inv, HandedOut, Action, RX, TX
  <1>3. ~Launched' /\ \A l \in LcoreId : pc[l] = "waiting" /\ at[l] = 1
    BY <1>1, <1>2, BeforeLaunch DEF Launched, Inv, TypeOK
  <1>4. /\ actions' \in [LcoreId -> Seq(Action)]
        /\ actions'[packetLcore] = Append(actions[packetLcore], main)
        /\ \A l \in LcoreId : l # packetLcore => actions'[l] = actions[l]
    BY <1>1, <1>2 DEF Inv, TypeOK
  <1>5. TypeOK'
    BY <1>1, <1>2, <1>3, <1>4 DEF Inv, TypeOK
  <1>6. Loops'
    BY <1>1, <1>3 DEF Inv, Loops
  <1>7. lcores \subseteq LcoreId
    BY DEF Inv, TypeOK
  <1>8. ASSUME main = "distribution" PROVE HandedOut'
    <2>1. actions'[packetLcore] = One /\ \A l \in lcores \ {packetLcore} : actions'[l] = <<>>
      BY <1>2, <1>4, <1>7, <1>8, Appends DEF Inv, HandedOut
    <2>2. main' = "ciphers" /\ packetLcore' \in lcores' /\ packetLcore' = packetLcore
          /\ lcores' = lcores
      BY <1>1, <1>2, <1>8
    <2> QED
      BY <1>3, <2>1, <2>2 DEF HandedOut
  <1>9. ASSUME main # "distribution" PROVE HandedOut'
    <2>1. /\ main = "uncipherRX" => actions'[packetLcore] = Two
          /\ main = "cipherTX" => actions'[packetLcore] = Three
          /\ main = "cipherRX" => actions'[packetLcore] = Four
          /\ main = "uncipherTX" => actions'[packetLcore] = Five
      BY <1>4, Appends, Zenon DEF Inv, HandedOut
    <2>2. \A l \in lcores \ {packetLcore} : actions'[l] = <<"cipher">>
      BY <1>2, <1>4, <1>7, <1>9 DEF Inv, HandedOut
    <2>3. /\ main' \in {"cipherTX", "forward", "uncipherTX", "backward"}
          /\ main' = "cipherTX" => main = "uncipherRX"
          /\ main' = "forward" => main = "cipherTX"
          /\ main' = "uncipherTX" => main = "cipherRX"
          /\ main' = "backward" => main = "uncipherTX"
          /\ packetLcore' \in lcores' /\ packetLcore' = packetLcore /\ lcores' = lcores
      BY <1>1, <1>2, <1>9
    <2> QED
      BY <1>3, <2>1, <2>2, <2>3 DEF HandedOut
  <1>10. WiredSoFar'
    BY <1>1, <1>2, <1>3 DEF Inv, WiredSoFar, Unwired, Half
  <1> QED
    BY <1>1, <1>2, <1>5, <1>6, <1>8, <1>9, <1>10 DEF Inv, DiesOnlyOfNulls, Drawn

LEMMA ShareOutKeeps == ASSUME Inv, ShareOut PROVE Inv'
  <1>1. /\ main = "ciphers"
        /\ UNCHANGED <<lcores, master, hasPorts, packetLcore, rxPort, txPort, portRX, portTX,
                       rxActions, txActions, pc, at, pool, rx>>
    BY DEF ShareOut, dpdk, wires, loops, mbufs
  <1>2. main' \in {"ciphers", "uncipherRX"}
    BY <1>1 DEF ShareOut
  <1>3. ~Launched' /\ \A l \in LcoreId : pc[l] = "waiting" /\ at[l] = 1
    BY <1>1, <1>2, BeforeLaunch DEF Launched, Inv, TypeOK
  <1>4. /\ packetLcore \in lcores /\ lcores \subseteq LcoreId /\ NoLcore \notin lcores
        /\ actions[packetLcore] = One /\ One # <<>>
        /\ \A l \in lcores \ {packetLcore} : actions[l] \in {<<>>, <<"cipher">>}
        /\ actions \in [LcoreId -> Seq(Action)]
    BY <1>1, Assumed DEF Inv, HandedOut, TypeOK, One
  <1>5. CASE FindFree = NoLcore
    <2>1. main' = "uncipherRX" /\ actions' = actions
      BY <1>5 DEF ShareOut
    <2>2. \A l \in lcores : actions[l] # <<>>
      BY <1>4, <1>5, FindFreeWorks DEF Inv
    <2>3. HandedOut'
      BY <1>1, <1>3, <1>4, <2>1, <2>2 DEF Inv, HandedOut
    <2> QED
      BY <1>1, <1>3, <2>1, <2>3
      DEF Inv, TypeOK, Loops, WiredSoFar, Unwired, DiesOnlyOfNulls, Drawn
  <1>6. CASE FindFree # NoLcore
    <2> DEFINE f == FindFree
    <2>1. f \in lcores /\ actions[f] = <<>> /\ f # packetLcore
      BY <1>4, <1>6, FindFreeWorks DEF Inv
    <2>2. main' = main /\ actions' = [actions EXCEPT ![f] = Append(@, "cipher")]
      BY <1>6 DEF ShareOut
    <2> HIDE DEF f
    <2>3. Append(<<>>, "cipher") = <<"cipher">> /\ "cipher" \in Action
      BY DEF Action
    <2>4. /\ actions' \in [LcoreId -> Seq(Action)] /\ actions'[f] = <<"cipher">>
          /\ \A l \in LcoreId : l # f => actions'[l] = actions[l]
      BY <1>4, <2>1, <2>2, <2>3
    <2>5. TypeOK' /\ Loops'
      BY <1>1, <1>3, <2>2, <2>4 DEF Inv, TypeOK, Loops
    <2>6. HandedOut'
      BY <1>1, <1>3, <1>4, <2>1, <2>2, <2>4 DEF Inv, HandedOut
    <2> QED
      BY <1>1, <1>3, <2>2, <2>5, <2>6
      DEF Inv, WiredSoFar, Unwired, DiesOnlyOfNulls, Drawn
  <1> QED
    BY <1>5, <1>6
-----------------------------------------------------------------------------
(* Wiring *)

LEMMA ForwardKeeps == ASSUME Inv, Forward PROVE Inv'
  <1>1. /\ main = "forward" /\ main' = "cipherRX" /\ hasPorts
        /\ portRX' = [portRX EXCEPT ![0] = "uncipherRX"]
        /\ rxPort' = [rxPort EXCEPT !["uncipherRX"] = 0]
        /\ rxActions' = [rxActions EXCEPT !["uncipher2cipher"] = Append(@, "uncipherRX")]
        /\ txActions' = [txActions EXCEPT !["uncipher2cipher"] = Append(@, "cipherTX")]
        /\ portTX' = [portTX EXCEPT ![1] = "cipherTX"]
        /\ txPort' = [txPort EXCEPT !["cipherTX"] = 1]
        /\ UNCHANGED <<lcores, master, hasPorts, packetLcore, actions, pc, at, pool, rx>>
    BY DEF Forward, GoOn, FromPort, Through, ToPort, dpdk, loops, mbufs
  <1>2. ~Launched' /\ \A l \in LcoreId : pc[l] = "waiting" /\ at[l] = 1
    BY <1>1, BeforeLaunch DEF Launched, Inv, TypeOK
  <1>3. Unwired("uncipher2cipher") /\ Unwired("cipher2uncipher")
    BY <1>1 DEF Inv, WiredSoFar
  <1>4. /\ "uncipherRX" \in RX /\ "cipherTX" \in TX /\ {0, 1} \subseteq Port
        /\ "uncipher2cipher" \in Worker /\ "cipher2uncipher" \in Worker
    BY DEF RX, TX, Port, Worker
  <1>5. TypeOK'
    BY <1>1, <1>4 DEF Inv, TypeOK
  <1>6. Half' /\ Unwired("cipher2uncipher")'
    <2>1. /\ Append(<<>>, "uncipherRX") = <<"uncipherRX">>
          /\ Append(<<>>, "cipherTX") = <<"cipherTX">>
      OBVIOUS
    <2>2. /\ rxActions'["uncipher2cipher"] = <<"uncipherRX">>
          /\ txActions'["uncipher2cipher"] = <<"cipherTX">>
      BY <1>1, <1>3, <1>4, <2>1 DEF Inv, TypeOK, Unwired
    <2> QED
      BY <1>1, <1>3, <1>4, <2>2 DEF Inv, TypeOK, Half, Unwired
  <1>7. WiredSoFar'
    BY <1>1, <1>2, <1>6 DEF WiredSoFar
  <1>8. Loops' /\ HandedOut'
    BY <1>1, <1>2 DEF Inv, Loops, HandedOut
  <1> QED
    BY <1>1, <1>5, <1>7, <1>8 DEF Inv, DiesOnlyOfNulls, Drawn

LEMMA BackwardKeeps == ASSUME Inv, Backward PROVE Inv'
  <1>1. /\ main = "backward" /\ main' = "launch" /\ hasPorts
        /\ portRX' = [portRX EXCEPT ![1] = "cipherRX"]
        /\ rxPort' = [rxPort EXCEPT !["cipherRX"] = 1]
        /\ rxActions' = [rxActions EXCEPT !["cipher2uncipher"] = Append(@, "cipherRX")]
        /\ txActions' = [txActions EXCEPT !["cipher2uncipher"] = Append(@, "uncipherTX")]
        /\ portTX' = [portTX EXCEPT ![0] = "uncipherTX"]
        /\ txPort' = [txPort EXCEPT !["uncipherTX"] = 0]
        /\ UNCHANGED <<lcores, master, hasPorts, packetLcore, actions, pc, at, pool, rx>>
    BY DEF Backward, GoOn, FromPort, Through, ToPort, dpdk, loops, mbufs
  <1>2. ~Launched /\ \A l \in LcoreId : pc[l] = "waiting" /\ at[l] = 1
    BY <1>1, BeforeLaunch
  <1>3. Half /\ Unwired("cipher2uncipher")
    BY <1>1 DEF Inv, WiredSoFar
  <1>4. /\ {"uncipherRX", "cipherRX"} \subseteq RX /\ {"cipherTX", "uncipherTX"} \subseteq TX
        /\ {0, 1} \subseteq Port /\ {"uncipher2cipher", "cipher2uncipher"} \subseteq Worker
    BY DEF RX, TX, Port, Worker
  <1>5. TypeOK'
    BY <1>1, <1>4 DEF Inv, TypeOK
  <1>6. Half' /\ OtherHalf'
    <2>1. /\ Append(<<>>, "cipherRX") = <<"cipherRX">>
          /\ Append(<<>>, "uncipherTX") = <<"uncipherTX">>
      OBVIOUS
    <2>2. /\ rxActions'["cipher2uncipher"] = <<"cipherRX">>
          /\ txActions'["cipher2uncipher"] = <<"uncipherTX">>
      BY <1>1, <1>3, <1>4, <2>1 DEF Inv, TypeOK, Unwired
    <2>3. /\ rxActions'["uncipher2cipher"] = rxActions["uncipher2cipher"]
          /\ txActions'["uncipher2cipher"] = txActions["uncipher2cipher"]
      BY <1>1, <1>4 DEF Inv, TypeOK
    <2> QED
      BY <1>1, <1>3, <1>4, <2>2, <2>3 DEF Inv, TypeOK, Half, OtherHalf
  <1>7. WiredSoFar'
    BY <1>1, <1>6 DEF WiredSoFar
  <1>8. Loops' /\ HandedOut'
    BY <1>1, <1>2 DEF Inv, Loops, HandedOut, TypeOK
  <1> QED
    BY <1>1, <1>5, <1>7, <1>8 DEF Inv, DiesOnlyOfNulls, Drawn

LEMMA NoPortsKeeps == ASSUME Inv, NoPorts PROVE Inv'
  <1>1. /\ main = "forward" /\ main' = "crashed" /\ ~hasPorts
        /\ UNCHANGED <<lcores, master, hasPorts, packetLcore, actions, rxPort, txPort, portRX,
                       portTX, rxActions, txActions, pc, at, pool, rx>>
    BY DEF NoPorts, GoOn, dpdk, wires, loops, mbufs
  <1>2. ~Launched' /\ \A l \in LcoreId : pc[l] = "waiting" /\ at[l] = 1
    BY <1>1, BeforeLaunch DEF Launched, Inv, TypeOK
  <1> QED
    BY <1>1, <1>2
    DEF Inv, TypeOK, Loops, HandedOut, WiredSoFar, DiesOnlyOfNulls, Drawn
-----------------------------------------------------------------------------
(* The launch and the loops, in which nothing is handed out or wired any more *)

LEMMA LaunchKeeps ==
  ASSUME Inv, NEW l \in LcoreId,
         RemoteLaunch(l) \/ (l = master /\ LaunchMaster /\ master \in lcores)
  PROVE  Inv'
  <1>1. /\ main = "launch" /\ main' \in {"launch", "running"} /\ l \in lcores /\ Enter(l)
        /\ UNCHANGED <<lcores, master, hasPorts, packetLcore, actions, rxPort, txPort, portRX,
                       portTX, rxActions, txActions, at, pool, rx>>
    BY DEF RemoteLaunch, LaunchMaster, dpdk, wires, mbufs
  <1>2. /\ Launched /\ pc \in [LcoreId -> {"waiting", "returned", "prepare", "loop", "hung"}]
        /\ actions \in [LcoreId -> Seq(Action)]
    BY <1>1 DEF Launched, Inv, TypeOK
  <1>3. /\ pc'[l] = IF actions[l] = <<>> THEN "returned" ELSE "prepare"
        /\ \A m \in LcoreId : m # l => pc'[m] = pc[m]
        /\ pc' \in [LcoreId -> {"waiting", "returned", "prepare", "loop", "hung"}]
    BY <1>1, <1>2 DEF Enter
  <1>4. TypeOK'
    BY <1>1, <1>3 DEF Inv, TypeOK
  <1>5. pc[l] \in {"waiting", "returned"} /\ at[l] = 1
    BY <1>1 DEF RemoteLaunch, Inv, Loops, TypeOK
  <1>6. main' = "launch" => l # master
    BY <1>1 DEF RemoteLaunch, LaunchMaster
  <1>9. Loops'
    BY <1>1, <1>2, <1>3, <1>5, <1>6 DEF Inv, Loops, TypeOK
  <1>7. HandedOut' /\ WiredSoFar'
    BY <1>1, <1>2 DEF Inv, HandedOut, WiredSoFar, Half, OtherHalf
  <1> QED
    BY <1>1, <1>4, <1>7, <1>9 DEF Inv, DiesOnlyOfNulls, Drawn

LEMMA NoMasterKeeps == ASSUME Inv, LaunchMaster, master \notin lcores PROVE Inv'
  <1>1. /\ main = "launch" /\ main' = "crashed"
        /\ UNCHANGED <<lcores, master, hasPorts, packetLcore, actions, rxPort, txPort, portRX,
                       portTX, rxActions, txActions, pc, at, pool, rx>>
    BY DEF LaunchMaster, dpdk, wires, mbufs
  <1>2. TypeOK' /\ Loops'
    BY <1>1 DEF Inv, TypeOK, Loops
  <1>3. HandedOut' /\ WiredSoFar'
    BY <1>1 DEF Inv, HandedOut, WiredSoFar, Half, OtherHalf, Launched
  <1> QED
    BY <1>1, <1>2, <1>3 DEF Inv, DiesOnlyOfNulls, Drawn

\* What an lcore in its loop can rely on
LEMMA Running ==
  ASSUME Inv, NEW l \in LcoreId, pc[l] \in {"prepare", "loop"}
  PROVE  /\ l \in lcores /\ Launched /\ main \in {"launch", "running", "crashed"}
         /\ at[l] \in 1..Len(actions[l]) /\ Len(actions[l]) \in Nat \ {0}
         /\ actions[l][at[l]] \in Action
         /\ Following(l) \in 1..Len(actions[l])
         /\ \A r \in RX : rxPort[r] \in Port
  <1>1. l \in lcores /\ main \in {"launch", "running", "crashed"} /\ at[l] \in 1..Len(actions[l])
    BY DEF Inv, Loops
  <1>2. Launched
    BY <1>1 DEF Launched
  <1>3. actions[l] \in Seq(Action)
    BY DEF Inv, TypeOK
  <1>4. Len(actions[l]) \in Nat \ {0} /\ actions[l][at[l]] \in Action
    BY <1>1, <1>3
  <1>5. Following(l) \in 1..Len(actions[l])
    BY <1>1, <1>4 DEF Following
  <1>6. \A r \in RX : rxPort[r] \in Port
    BY <1>2 DEF Inv, WiredSoFar, Half, OtherHalf, RX, Port
  <1> QED
    BY <1>1, <1>2, <1>4, <1>5, <1>6

\* A step of an lcore that changes nothing but where it is and who lives
LEMMA LoopKeeps ==
  ASSUME Inv, NEW l \in LcoreId, pc[l] \in {"prepare", "loop"},
         at' \in {at, [at EXCEPT ![l] = Following(l)]},
         NEW p \in {"prepare", "loop", "hung"}, pc' = [pc EXCEPT ![l] = p],
         main' \in {main, "crashed"},
         UNCHANGED <<lcores, master, hasPorts, packetLcore, actions, rxPort, txPort, portRX,
                     portTX, rxActions, txActions>>,
         pool' \in 0..Mbufs, rx' \in [Port -> 0..Mbufs]
  PROVE  TypeOK' /\ Loops' /\ HandedOut' /\ WiredSoFar'
  <1>1. /\ l \in lcores /\ Launched /\ main \in {"launch", "running", "crashed"}
        /\ at[l] \in 1..Len(actions[l]) /\ Following(l) \in 1..Len(actions[l])
        /\ Len(actions[l]) \in Nat \ {0}
    BY Running
  <1>2. /\ at \in [LcoreId -> Nat \ {0}] /\ actions \in [LcoreId -> Seq(Action)]
        /\ pc \in [LcoreId -> {"waiting", "returned", "prepare", "loop", "hung"}]
    BY DEF Inv, TypeOK, Loops
  <1>3. /\ pc'[l] = p /\ pc' \in [LcoreId -> {"waiting", "returned", "prepare", "loop", "hung"}]
        /\ \A m \in LcoreId : m # l => pc'[m] = pc[m]
    BY <1>2
  <1>4. /\ at' \in [LcoreId -> Nat \ {0}] /\ at'[l] \in 1..Len(actions[l])
        /\ \A m \in LcoreId : m # l => at'[m] = at[m]
    BY <1>1, <1>2
  <1>5. TypeOK'
    <2>1. \A m \in LcoreId : at'[m] = 1 \/ at'[m] \in DOMAIN actions[m]
      BY <1>2, <1>4 DEF Inv, TypeOK
    <2> QED
      BY <1>3, <2>1 DEF Inv, TypeOK
  <1>6. main' = "launch" /\ master \in LcoreId => pc'[master] = "waiting"
    BY <1>3 DEF Inv, Loops
  <1>7. Loops'
    BY <1>1, <1>3, <1>4, <1>6 DEF Inv, Loops
  <1>8. main' \in {"launch", "running", "crashed"}
    BY <1>1
  <1> QED
    BY <1>1, <1>5, <1>7, <1>8 DEF Inv, HandedOut, WiredSoFar, Half, OtherHalf

LEMMA PrepareKeeps == ASSUME Inv, NEW l \in LcoreId, Prepare(l) PROVE Inv'
  <1>1. /\ main # "crashed" /\ pc[l] = "prepare"
        /\ at' = [at EXCEPT ![l] = Following(l)]
        /\ pc' = [pc EXCEPT ![l] = IF at[l] = Len(actions[l]) THEN "loop" ELSE "prepare"]
        /\ UNCHANGED <<lcores, master, hasPorts, packetLcore, actions, rxPort, txPort, portRX,
                       portTX, rxActions, txActions, pool, rx>>
    BY DEF Prepare, dpdk, wires, mbufs
  <1>2. main' = main
    <2>1. \A r \in RX : rxPort[r] # NoPort
      BY <1>1, Running, Assumed DEF Port
    <2> QED
      BY <2>1 DEF Prepare
  <1>3. TypeOK' /\ Loops' /\ HandedOut' /\ WiredSoFar'
    <2> DEFINE p == IF at[l] = Len(actions[l]) THEN "loop" ELSE "prepare"
    <2>1. pool' \in 0..Mbufs /\ rx' \in [Port -> 0..Mbufs]
      BY <1>1 DEF Inv, TypeOK
    <2>2. p \in {"prepare", "loop", "hung"} /\ pc' = [pc EXCEPT ![l] = p]
      BY <1>1
    <2> HIDE DEF p
    <2> QED
      BY <1>1, <1>2, <2>1, <2>2, LoopKeeps
  <1> QED
    BY <1>1, <1>2, <1>3 DEF Inv, DiesOnlyOfNulls, Drawn

LEMMA CallRXKeeps == ASSUME Inv, NEW l \in LcoreId, CallRX(l) PROVE Inv'
  <1> DEFINE port == rxPort[actions[l][at[l]]]
  <1>1. /\ main # "crashed" /\ pc[l] = "loop" /\ actions[l][at[l]] \in RX
        /\ at' = [at EXCEPT ![l] = Following(l)]
        /\ UNCHANGED <<main, lcores, master, hasPorts, packetLcore, actions, rxPort, txPort,
                       portRX, portTX, rxActions, txActions, pc>>
    BY DEF CallRX, Calling, dpdk, wires
  <1>2. port \in Port
    BY <1>1, Running
  <1>3. PICK n \in 0..Burst : /\ n <= pool /\ pool' = pool - n
                              /\ rx' = [rx EXCEPT ![port] = @ + n]
    BY DEF CallRX, Receive
  <1> HIDE DEF port
  <1>4. /\ pool \in 0..Mbufs /\ rx \in [Port -> 0..Mbufs] /\ pool + rx[0] + rx[1] = Mbufs
        /\ Port = {0, 1} /\ n \in Nat
    BY <1>3, Assumed DEF Inv, TypeOK, Drawn, Port
  <1>5. /\ pool' \in 0..Mbufs /\ pool' + rx'[0] + rx'[1] = Mbufs
        /\ rx' \in [Port -> 0..Mbufs]
    <2>1. CASE port = 0
      BY <1>3, <1>4, <2>1, Assumed
    <2>2. CASE port = 1
      BY <1>3, <1>4, <2>2, Assumed
    <2> QED
      BY <1>2, <1>4, <2>1, <2>2
  <1>6. pc' = [pc EXCEPT ![l] = "loop"]
    BY <1>1 DEF Inv, TypeOK
  <1>7. TypeOK' /\ Loops' /\ HandedOut' /\ WiredSoFar'
    BY <1>1, <1>5, <1>6, LoopKeeps
  <1> QED
    BY <1>1, <1>5, <1>7 DEF Inv, DiesOnlyOfNulls, Drawn

LEMMA CallOtherKeeps ==
  ASSUME Inv, NEW l \in LcoreId, CallOther(l) \/ Hang(l) \/ Die(l) PROVE Inv'
  <1>1. /\ main # "crashed" /\ pc[l] = "loop"
        /\ UNCHANGED <<lcores, master, hasPorts, packetLcore, actions, rxPort, txPort, portRX,
                       portTX, rxActions, txActions, pool, rx>>
    BY DEF CallOther, Hang, Die, Calling, dpdk, wires, mbufs
  <1>2. pc = [pc EXCEPT ![l] = "loop"]
    BY <1>1 DEF Inv, TypeOK
  <1>3. /\ at' \in {at, [at EXCEPT ![l] = Following(l)]}
        /\ \E p \in {"prepare", "loop", "hung"} : pc' = [pc EXCEPT ![l] = p]
        /\ main' \in {main, "crashed"}
    <2>1. CASE CallOther(l)
      BY <1>2, <2>1 DEF CallOther
    <2>2. CASE Hang(l)
      BY <2>2 DEF Hang
    <2>3. CASE Die(l)
      BY <1>2, <2>3 DEF Die, loops
    <2> QED
      BY <2>1, <2>2, <2>3
  <1>4. pool' \in 0..Mbufs /\ rx' \in [Port -> 0..Mbufs] /\ Drawn'
    BY <1>1 DEF Inv, TypeOK, Drawn
  <1>5. TypeOK' /\ Loops' /\ HandedOut' /\ WiredSoFar'
    BY <1>1, <1>3, <1>4, LoopKeeps
  <1>6. DiesOnlyOfNulls'
    <2>1. ASSUME CallOther(l) \/ Hang(l) PROVE DiesOnlyOfNulls'
      BY <1>1, <2>1 DEF CallOther, Hang, DiesOnlyOfNulls
    <2>2. ASSUME Die(l) PROVE DiesOnlyOfNulls'
      BY <1>1, <2>2, Running DEF Die, Calling, loops, DiesOnlyOfNulls
    <2> QED
      BY <2>1, <2>2
  <1> QED
    BY <1>4, <1>5, <1>6 DEF Inv
-----------------------------------------------------------------------------
LEMMA NextInv == Inv /\ [Next]_vars => Inv'
  <1> SUFFICES ASSUME Inv, [Next]_vars PROVE Inv'
    OBVIOUS
  <1>1. CASE MainStep
    <2>1. ASSUME NEW l \in lcores, RemoteLaunch(l) PROVE Inv'
      <3>1. l \in LcoreId
        BY DEF Inv, TypeOK
      <3> QED
        BY <2>1, <3>1, LaunchKeeps
    <2>2. ASSUME LaunchMaster PROVE Inv'
      <3>1. CASE master \in lcores
        <4>1. master \in LcoreId
          BY <3>1 DEF Inv, TypeOK
        <4> QED
          BY <2>2, <3>1, <4>1, LaunchKeeps
      <3> QED
        BY <2>2, <3>1, NoMasterKeeps
    <2> QED
      BY <1>1, <2>1, <2>2, TakePacketLcoreKeeps, GiveKeeps, ShareOutKeeps, ForwardKeeps,
         BackwardKeeps, NoPortsKeeps DEF MainStep
  <1>2. ASSUME NEW l \in LcoreId, LcoreStep(l) PROVE Inv'
    BY <1>2, PrepareKeeps, CallRXKeeps, CallOtherKeeps DEF LcoreStep
  <1>3. CASE UNCHANGED vars
    BY <1>3
    DEF vars, Inv, TypeOK, Loops, HandedOut, Launched, WiredSoFar, Unwired, Half, OtherHalf,
        DiesOnlyOfNulls, Drawn
  <1> QED
    BY <1>1, <1>2, <1>3 DEF Next

LEMMA Invariance == Spec => []Inv
  BY InitInv, NextInv, PTL DEF Spec

\* Every variable keeps its type: actions are called by a valid index, and no
\* counter of packets leaves the size of the pool.
THEOREM TypeCorrect == Spec => []TypeOK
  BY Invariance, PTL DEF Inv

\* When the lcores run, the packet lcore has its five actions, every other the
\* cipher controller's only, and the two paths lead from port to port crosswise.
THEOREM WiredAsDrawn == Spec => []Wired
  <1>1. Inv => Wired
    <2> SUFFICES ASSUME Inv, \E l \in lcores : pc[l] # "waiting" PROVE Wired
      BY DEF Wired, Allocated, Crossed
    <2>1. Launched /\ main \in {"launch", "running", "crashed"}
      BY DEF Launched, Inv, Loops, TypeOK
    <2>2. /\ actions[packetLcore] = Five
          /\ \A l \in lcores \ {packetLcore} : actions[l] = <<"cipher">>
      BY <2>1 DEF Inv, HandedOut
    <2>3. Range(Five) = Action \ {"cipher"}
      <3>1. DOMAIN Five = {1, 2, 3, 4, 5}
        BY DEF Five
      <3>2. /\ Five[1] = "distribution" /\ Five[2] = "uncipherRX" /\ Five[3] = "cipherTX"
            /\ Five[4] = "cipherRX" /\ Five[5] = "uncipherTX"
        BY DEF Five
      <3>3. Range(Five) = {Five[1], Five[2], Five[3], Five[4], Five[5]}
        BY <3>1 DEF Range
      <3> QED
        BY <3>2, <3>3 DEF Action, RX, TX
    <2>4. Len(Five) = 5 /\ Cardinality(Action) = 6
      <3>1. Len(Five) = 5
        BY DEF Five
      <3>2. Cardinality({"cipher"}) = 1 /\ IsFiniteSet({"cipher"})
        BY FS_Singleton
      <3> DEFINE A == {"cipher", "distribution"}
                 B == A \cup {"uncipherRX"}
                 C == B \cup {"cipherRX"}
                 D == C \cup {"uncipherTX"}
                 E == D \cup {"cipherTX"}
      <3>3. A = {"cipher"} \cup {"distribution"} /\ "distribution" \notin {"cipher"}
        OBVIOUS
      <3>4. IsFiniteSet(A) /\ Cardinality(A) = 2
        BY <3>2, <3>3, FS_AddElement
      <3>5. IsFiniteSet(B) /\ Cardinality(B) = 3
        BY <3>4, FS_AddElement
      <3>6. IsFiniteSet(C) /\ Cardinality(C) = 4
        BY <3>5, FS_AddElement
      <3>7. IsFiniteSet(D) /\ Cardinality(D) = 5
        BY <3>6, FS_AddElement
      <3>8. IsFiniteSet(E) /\ Cardinality(E) = 6
        BY <3>7, FS_AddElement
      <3>9. Action = E
        BY DEF Action, RX, TX
      <3> QED
        BY <3>1, <3>8, <3>9
    <2>5. Allocated
      BY <2>2, <2>3, <2>4 DEF Allocated
    <2>6. Half /\ OtherHalf
      BY <2>1 DEF Inv, WiredSoFar
    <2>7. Crossed
      <3>1. <<"uncipherRX">> # <<"cipherRX">>
        OBVIOUS
      <3> QED
        BY <2>6, <3>1 DEF Half, OtherHalf, Crossed, Port, RX, TX, Worker
    <2> QED
      BY <2>5, <2>7 DEF Wired
  <1> QED
    BY <1>1, Invariance, PTL

\* The process dies of missing ports, a missing master or the distributor.
THEOREM NoOtherDeath == Spec => []DiesOnlyOfNulls
  BY Invariance, PTL DEF Inv
=============================================================================
