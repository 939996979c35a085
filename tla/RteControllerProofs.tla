------------------------- MODULE RteControllerProofs -------------------------
(***************************************************************************)
(* Proofs about RteController, for any lcores, sockets, ports and failures *)
(* of DPDK: how the lcores are grouped, what start knows of its ports when *)
(* it asks for a socket, and that it never gets one.                       *)
(***************************************************************************)
EXTENDS RteController, FiniteSetTheorems, TLAPS

LcoreRecord == [id : LcoreId, actions : {<<>>}]
SocketRecord == [id : SocketId, lcores : Seq(LcoreRecord)]

\* The calls of Port::start a port has gone through are the first so many.
Prefixes ==
  {<<>>, <<"configure">>, <<"configure", "rx_queue_setup">>,
   <<"configure", "rx_queue_setup", "tx_queue_setup">>, StartCalls}

Types ==
  /\ main \in {"eal", "sockets", "pool", "count", "ports", "start", "findFree",
               "failed", "crashed", "noSocket"}
  /\ enabled \subseteq LcoreId
  /\ where \in [LcoreId -> SocketId]
  /\ portCount \in 0..MaxPorts
  /\ visited \subseteq enabled
  /\ sockets \in Seq(SocketRecord)

\* No return code is negative once it is unsigned, so that no port ever gives
\* up; only ports added have been started, and all of them but the last are done.
PortTypes ==
  /\ ports \in (SUBSET Port) \cup {Null}
  /\ calls \in [Port -> Prefixes]
  /\ failed \in [Port -> SUBSET Range(StartCalls)]
  /\ gaveUp = {}
  /\ announced \subseteq Port

Started(n) == \A p \in Port : calls[p] = IF p < n THEN StartCalls ELSE <<>>

PortsSoFar ==
  /\ main \in {"eal", "sockets", "pool", "count"} =>
       ports = {} /\ announced = {} /\ Started(0)
  /\ main = "ports" =>
       /\ portCount = 2
       /\ \E n \in 0..2 : ports = 0..n-1 /\ announced = ports /\ Started(n)
  /\ main = "start" =>
       /\ portCount = 2
       /\ \E n \in 0..1 :
            /\ ports = 0..n /\ announced = 0..n-1
            /\ \A p \in Port : p # n => calls[p] = IF p < n THEN StartCalls ELSE <<>>

Inv == Types /\ Grouped /\ PortTypes /\ PortsSoFar /\ BothPortsOrNone

LEMMA Assumed ==
  /\ LcoreId \subseteq Nat /\ IsFiniteSet(LcoreId) /\ MaxPorts \in Nat
  /\ UIntSize \in Nat /\ UIntSize > 0 /\ Error \in Int /\ Null \notin Nat
  BY ControllerAssumption DEF ControllerAssumption

\* "unsigned ret" is never below zero.
LEMMA NeverNegative == \A rc \in {0, Error} : ~(Unsigned(rc) < 0)
  BY Assumed DEF Unsigned

LEMMA RangeOfAppend ==
  ASSUME NEW S, NEW s \in Seq(S), NEW e \in S
  PROVE  Range(Append(s, e)) = Range(s) \cup {e}
  <1>1. DOMAIN s = 1..Len(s) /\ DOMAIN Append(s, e) = 1..Len(s)+1
    OBVIOUS
  <1>2. \A i \in 1..Len(s) : Append(s, e)[i] = s[i]
    OBVIOUS
  <1>3. Append(s, e)[Len(s)+1] = e
    OBVIOUS
  <1>4. 1..Len(s)+1 = 1..Len(s) \cup {Len(s)+1}
    OBVIOUS
  <1> QED
    BY <1>1, <1>2, <1>3, <1>4 DEF Range

LEMMA RangeOfSeq == ASSUME NEW S, NEW s \in Seq(S) PROVE Range(s) \subseteq S
  <1>1. \A i \in DOMAIN s : s[i] \in S
    OBVIOUS
  <1> QED
    BY <1>1 DEF Range

LEMMA SocketShape ==
  ASSUME Types
  PROVE  /\ DOMAIN sockets = 1..Len(sockets) /\ Len(sockets) \in Nat
         /\ \A j \in DOMAIN sockets : /\ sockets[j] \in SocketRecord
                                     /\ sockets[j].lcores \in Seq(LcoreRecord)
  <1>1. sockets \in Seq(SocketRecord)
    BY DEF Types
  <1>2. \A r \in SocketRecord : r.lcores \in Seq(LcoreRecord)
    BY DEF SocketRecord
  <1> QED
    BY <1>1, <1>2

LEMMA InitInv == Init => Inv
  <1> SUFFICES ASSUME Init PROVE Inv
    OBVIOUS
  <1>1. Types
    BY Assumed DEF Init, Types
  <1>2. Grouped
    BY DEF Init, Grouped
  <1>3. PortTypes /\ PortsSoFar
    BY Assumed DEF Init, PortTypes, Prefixes, Started, PortsSoFar
  <1> QED
    BY <1>1, <1>2, <1>3 DEF Inv, Init, BothPortsOrNone
-----------------------------------------------------------------------------
(* Sockets::create *)

\* The socket of an lcore is the only one with its id, if there is one.
LEMMA FoundSocket ==
  ASSUME Types, Grouped, NEW id \in SocketId
  PROVE  \/ FindSocket(id) = Null /\ \A k \in DOMAIN sockets : sockets[k].id # id
         \/ FindSocket(id) \in DOMAIN sockets /\ sockets[FindSocket(id)].id = id
  <1> DEFINE ks == {k \in DOMAIN sockets : sockets[k].id = id}
  <1>1. FindSocket(id) = First(ks)
    BY DEF FindSocket
  <1>2. CASE ks = {}
    BY <1>1, <1>2 DEF First
  <1>3. CASE ks # {}
    <2>1. PICK k : k \in ks
      BY <1>3
    <2>2. ks = {k}
      BY <2>1 DEF Grouped
    <2>3. k \in Nat
      BY <2>1 DEF Types
    <2>4. First(ks) = k
      BY <1>3, <2>2, <2>3 DEF First
    <2> QED
      BY <1>1, <2>1, <2>4
  <1> QED
    BY <1>2, <1>3

LEMMA AddLcoreGroups ==
  ASSUME Types, Grouped, NEW l \in LcoreId, AddLcore(l)
  PROVE  Types' /\ Grouped'
  <1> DEFINE k == FindSocket(where[l])
  <1>1. /\ main = "sockets" /\ l \in enabled /\ l \notin visited
        /\ visited' = visited \cup {l} /\ UNCHANGED <<main, enabled, where, portCount>>
    BY DEF AddLcore, dpdk
  <1>2. where[l] \in SocketId /\ NewLcore(l) \in LcoreRecord /\ NewLcore(l).id = l
    BY <1>1 DEF Types, NewLcore, LcoreRecord
  <1>d. DOMAIN sockets = 1..Len(sockets) /\ Len(sockets) \in Nat
    BY SocketShape
  <1>s. \A j \in DOMAIN sockets : /\ sockets[j] \in SocketRecord
                                  /\ sockets[j].lcores \in Seq(LcoreRecord)
    BY SocketShape
  <1>i. \A j \in DOMAIN sockets : l \notin Ids(sockets[j])
    BY <1>1 DEF Grouped
  <1>3. CASE k = Null
    <2> DEFINE new == [id |-> where[l], lcores |-> <<NewLcore(l)>>]
    <2>1. sockets' = Append(sockets, new)
      BY <1>3 DEF AddLcore
    <2>2. new \in SocketRecord
      BY <1>2 DEF SocketRecord
    <2>3. Types'
      BY <1>1, <2>1, <2>2 DEF Types
    <2>4. Ids(new) = {l} /\ Len(new.lcores) = 1 /\ new.id = where[l]
      BY <1>2 DEF Ids, Range
    <2>5. \A j \in DOMAIN sockets : sockets[j].id # where[l]
      BY <1>2, <1>3, <1>d, Assumed, FoundSocket
    <2> HIDE DEF new
    <2>6. /\ DOMAIN sockets' = DOMAIN sockets \cup {Len(sockets) + 1}
          /\ Len(sockets) + 1 \notin DOMAIN sockets
          /\ \A j \in DOMAIN sockets : sockets'[j] = sockets[j]
          /\ sockets'[Len(sockets) + 1] = new
      BY <2>1, <2>2, <1>d DEF Types
    <2>7. {m \in visited : where[m] = where[l]} = {}
      BY <2>5 DEF Grouped
    <2>8. \A j \in DOMAIN sockets' :
            /\ Ids(sockets'[j]) = {m \in visited' : where'[m] = sockets'[j].id}
            /\ Len(sockets'[j].lcores) = Cardinality(Ids(sockets'[j]))
            /\ Ids(sockets'[j]) # {}
      <3>1. Cardinality({l}) = 1
        BY FS_Singleton
      <3>2. ASSUME NEW j \in DOMAIN sockets
            PROVE  /\ Ids(sockets'[j]) = {m \in visited' : where'[m] = sockets'[j].id}
                   /\ Len(sockets'[j].lcores) = Cardinality(Ids(sockets'[j]))
                   /\ Ids(sockets'[j]) # {}
        BY <1>1, <2>5, <2>6, <3>2 DEF Grouped
      <3>3. {m \in visited' : where'[m] = where[l]} = {l}
        BY <1>1, <2>7
      <3> QED
        BY <2>4, <2>6, <3>1, <3>2, <3>3
    <2>9. \A i, j \in DOMAIN sockets' : sockets'[i].id = sockets'[j].id => i = j
      BY <2>4, <2>5, <2>6 DEF Grouped
    <2>10. visited' = UNION {Ids(sockets'[j]) : j \in DOMAIN sockets'}
      BY <1>1, <2>4, <2>6 DEF Grouped
    <2> QED
      BY <2>3, <2>8, <2>9, <2>10 DEF Grouped
  <1>4. CASE k # Null
    <2> DEFINE more == Append(sockets[k].lcores, NewLcore(l))
    <2>1. sockets' = [sockets EXCEPT ![k].lcores = more]
      BY <1>4 DEF AddLcore
    <2>2. k \in DOMAIN sockets /\ sockets[k].id = where[l]
      BY <1>2, <1>4, FoundSocket
    <2> HIDE DEF k
    <2>3. more \in Seq(LcoreRecord) /\ Len(more) = Len(sockets[k].lcores) + 1
          /\ Range(more) = Range(sockets[k].lcores) \cup {NewLcore(l)}
      BY <1>2, <1>s, <2>2, RangeOfAppend
    <2> HIDE DEF more
    <2>4. /\ DOMAIN sockets' = DOMAIN sockets
          /\ \A j \in DOMAIN sockets : sockets'[j].id = sockets[j].id
          /\ \A j \in DOMAIN sockets : j # k => sockets'[j] = sockets[j]
          /\ sockets'[k].lcores = more
      BY <1>s, <2>1, <2>2 DEF SocketRecord
    <2>5. Types'
      <3>1. [sockets[k] EXCEPT !.lcores = more] \in SocketRecord
        BY <1>s, <2>2, <2>3 DEF SocketRecord
      <3> QED
        BY <1>1, <2>1, <2>2, <3>1 DEF Types
    <2>6. Ids(sockets'[k]) = Ids(sockets[k]) \cup {l}
      BY <1>2, <2>3, <2>4 DEF Ids
    <2>7. Cardinality(Ids(sockets[k]) \cup {l}) = Cardinality(Ids(sockets[k])) + 1
      <3>1. Ids(sockets[k]) \subseteq LcoreId
        BY <2>2 DEF Grouped, Types
      <3>2. IsFiniteSet(Ids(sockets[k]))
        BY <3>1, Assumed, FS_Subset
      <3> QED
        BY <1>i, <2>2, <3>2, FS_AddElement
    <2>8. \A j \in DOMAIN sockets' :
            /\ Ids(sockets'[j]) = {m \in visited' : where'[m] = sockets'[j].id}
            /\ Len(sockets'[j].lcores) = Cardinality(Ids(sockets'[j]))
            /\ Ids(sockets'[j]) # {}
      <3>1. /\ Ids(sockets'[k]) = {m \in visited' : where'[m] = sockets'[k].id}
            /\ Ids(sockets'[k]) # {}
        BY <1>1, <2>2, <2>4, <2>6 DEF Grouped
      <3>2. Len(sockets'[k].lcores) = Cardinality(Ids(sockets'[k]))
        BY <2>2, <2>3, <2>4, <2>6, <2>7 DEF Grouped
      <3>3. ASSUME NEW j \in DOMAIN sockets, j # k
            PROVE  /\ Ids(sockets'[j]) = {m \in visited' : where'[m] = sockets'[j].id}
                   /\ Len(sockets'[j].lcores) = Cardinality(Ids(sockets'[j]))
                   /\ Ids(sockets'[j]) # {}
        <4>1. sockets[j].id # where[l]
          BY <2>2, <3>3 DEF Grouped
        <4> QED
          BY <1>1, <2>4, <3>3, <4>1 DEF Grouped
      <3> QED
        BY <2>4, <3>1, <3>2, <3>3
    <2>9. \A i, j \in DOMAIN sockets' : sockets'[i].id = sockets'[j].id => i = j
      BY <2>4 DEF Grouped
    <2>10. visited' = UNION {Ids(sockets'[j]) : j \in DOMAIN sockets'}
      BY <1>1, <2>2, <2>4, <2>6 DEF Grouped
    <2> QED
      BY <2>5, <2>8, <2>9, <2>10 DEF Grouped
  <1> QED
    BY <1>3, <1>4

\* No lcore has an action yet, so that no socket passes for one to take.
LEMMA NothingToFind == Types => FindFree = Null
  <1> SUFFICES ASSUME Types PROVE FindFree = Null
    OBVIOUS
  <1>1. \A k \in DOMAIN sockets : Range(sockets[k].lcores) \subseteq LcoreRecord
    BY SocketShape, RangeOfSeq
  <1>2. \A k \in DOMAIN sockets : IsFree(sockets[k])
    BY <1>1 DEF IsFree, HasActions, LcoreRecord
  <1> QED
    BY <1>2 DEF FindFree, First
-----------------------------------------------------------------------------
(* Ports::create and Port::start *)

LEMMA PortStarts == \A p, n \in Int : p >= 0 /\ n >= 0 /\ 0..p = 0..n => p = n
  <1> SUFFICES ASSUME NEW p \in Int, NEW n \in Int, p >= 0, n >= 0, 0..p = 0..n
               PROVE  p = n
    OBVIOUS
  <1>1. p \in 0..n /\ n \in 0..p
    OBVIOUS
  <1> QED
    BY <1>1

LEMMA AddPortKeeps ==
  ASSUME PortTypes, PortsSoFar, Types, NEW p \in Port, AddPort(p)
  PROVE  PortTypes' /\ PortsSoFar'
  <1>1. /\ main = "ports" /\ main' = "start" /\ p < portCount
        /\ ports = 0..p-1 /\ ports' = 0..p
        /\ UNCHANGED <<portCount, calls, failed, gaveUp, announced>>
    BY DEF AddPort, GoOn, dpdk
  <1>2. PICK n \in 0..2 : ports = 0..n-1 /\ announced = ports /\ Started(n)
    BY <1>1 DEF PortsSoFar
  <1>3. portCount = 2 /\ p \in 0..1 /\ p \in Nat
    BY <1>1, Assumed DEF PortsSoFar, Port
  <1>4. n = p
    <2>1. CASE n = 0
      BY <1>1, <1>2, <1>3, <2>1
    <2>2. CASE n > 0
      <3>1. n - 1 \in 0..p-1
        <4>1. n - 1 \in 0..n-1
          BY <2>2
        <4> QED
          BY <4>1, <1>1, <1>2
      <3>2. p > 0 /\ p - 1 \in 0..n-1
        BY <1>1, <1>2, <1>3, <3>1
      <3> QED
        BY <3>1, <3>2, <1>3
    <2> QED
      BY <2>1, <2>2
  <1>5. PortsSoFar'
    BY <1>1, <1>2, <1>3, <1>4 DEF PortsSoFar, Started
  <1>6. 0..p \subseteq Port
    BY <1>3, Assumed DEF Port
  <1> QED
    BY <1>1, <1>5, <1>6 DEF PortTypes

\* Which port is starting, and how far it can have come
LEMMA StartingPort ==
  ASSUME PortTypes, PortsSoFar, Types, NEW p \in Port, Starting(p)
  PROVE  /\ portCount = 2 /\ p \in 0..1 /\ ports = 0..p /\ announced = 0..p-1
         /\ \A q \in Port : q # p => calls[q] = IF q < p THEN StartCalls ELSE <<>>
  <1>1. main = "start" /\ ports = 0..p
    BY DEF Starting
  <1>2. PICK n \in 0..1 :
          /\ ports = 0..n /\ announced = 0..n-1
          /\ \A q \in Port : q # n => calls[q] = IF q < n THEN StartCalls ELSE <<>>
    BY <1>1 DEF PortsSoFar
  <1>3. n = p
    BY <1>1, <1>2, PortStarts, Assumed DEF Port
  <1> QED
    BY <1>1, <1>2, <1>3 DEF PortsSoFar

LEMMA Called ==
  Range(StartCalls) = {"configure", "rx_queue_setup", "tx_queue_setup", "dev_start"}
  <1>1. DOMAIN StartCalls = {1, 2, 3, 4}
    BY DEF StartCalls
  <1>2. \A i \in {1, 2, 3, 4} :
          StartCalls[i] = IF i = 1 THEN "configure" ELSE IF i = 2 THEN "rx_queue_setup"
                          ELSE IF i = 3 THEN "tx_queue_setup" ELSE "dev_start"
    BY DEF StartCalls
  <1> QED
    BY <1>1, <1>2 DEF Range

LEMMA Appended ==
  ASSUME NEW S, NEW s \in Seq(S), NEW t \in Seq(S), NEW e \in S,
         Len(t) = Len(s) + 1, \A i \in 1..Len(s) : t[i] = s[i], t[Len(s) + 1] = e
  PROVE  Append(s, e) = t
  <1>1. Append(s, e) \in Seq(S) /\ Len(Append(s, e)) = Len(t)
    OBVIOUS
  <1>2. \A i \in 1..Len(t) : Append(s, e)[i] = t[i]
    <2> SUFFICES ASSUME NEW i \in 1..Len(s)+1 PROVE Append(s, e)[i] = t[i]
      OBVIOUS
    <2>1. CASE i \in 1..Len(s)
      BY <2>1
    <2>2. CASE i = Len(s) + 1
      BY <2>2
    <2> QED
      BY <2>1, <2>2
  <1> QED
    BY <1>1, <1>2

LEMMA NextPrefix ==
  /\ Append(<<"configure">>, "rx_queue_setup") = <<"configure", "rx_queue_setup">>
  /\ Append(<<"configure", "rx_queue_setup">>, "tx_queue_setup")
       = <<"configure", "rx_queue_setup", "tx_queue_setup">>
  /\ Append(<<"configure", "rx_queue_setup", "tx_queue_setup">>, "dev_start")
       = <<"configure", "rx_queue_setup", "tx_queue_setup", "dev_start">>
  <1> DEFINE a == "configure"
             b == "rx_queue_setup"
             c == "tx_queue_setup"
             d == "dev_start"
             S == {a, b, c, d}
             s1 == <<a>>
             s2 == <<a, b>>
             s3 == <<a, b, c>>
             s4 == <<a, b, c, d>>
  <1>0. a \in S /\ b \in S /\ c \in S /\ d \in S
    OBVIOUS
  <1> HIDE DEF a, b, c, d, S
  <1>1. /\ s1 \in Seq(S) /\ Len(s1) = 1 /\ s1[1] = a
        /\ s2 \in Seq(S) /\ Len(s2) = 2 /\ s2[1] = a /\ s2[2] = b
    BY <1>0
  <1>2. s3 \in Seq(S) /\ Len(s3) = 3 /\ s3[1] = a /\ s3[2] = b /\ s3[3] = c
    BY <1>0
  <1>3. s4 \in Seq(S) /\ Len(s4) = 4 /\ s4[1] = a /\ s4[2] = b /\ s4[3] = c /\ s4[4] = d
    BY <1>0
  <1> HIDE DEF s1, s2, s3, s4
  <1>4. Append(s1, b) = s2
    <2>1. Len(s2) = Len(s1) + 1 /\ s2[Len(s1) + 1] = b
      BY <1>1
    <2>2. \A i \in 1..Len(s1) : s2[i] = s1[i]
      BY <1>1
    <2>3. s1 \in Seq(S) /\ s2 \in Seq(S) /\ b \in S
      BY <1>0, <1>1
    <2> QED
      BY <2>1, <2>2, <2>3, Appended, Zenon
  <1>5. Append(s2, c) = s3
    <2>1. Len(s3) = Len(s2) + 1 /\ s3[Len(s2) + 1] = c
      BY <1>1, <1>2
    <2>2. \A i \in 1..Len(s2) : s3[i] = s2[i]
      BY <1>1, <1>2
    <2>3. s2 \in Seq(S) /\ s3 \in Seq(S) /\ c \in S
      BY <1>0, <1>1, <1>2
    <2> QED
      BY <2>1, <2>2, <2>3, Appended, Zenon
  <1>6. Append(s3, d) = s4
    <2>1. Len(s4) = Len(s3) + 1 /\ s4[Len(s3) + 1] = d
      BY <1>2, <1>3
    <2>2. \A i \in 1..Len(s3) : s4[i] = s3[i]
      BY <1>2, <1>3
    <2>3. s3 \in Seq(S) /\ s4 \in Seq(S) /\ d \in S
      BY <1>0, <1>2, <1>3
    <2> QED
      BY <2>1, <2>2, <2>3, Appended, Zenon
  <1> QED
    BY <1>4, <1>5, <1>6, Zenon DEF s1, s2, s3, s4, a, b, c, d

LEMMA StartCallKeeps ==
  ASSUME PortTypes, PortsSoFar, Types, NEW p \in Port, NEW rc \in {0, Error}, StartCall(p, rc)
  PROVE  PortTypes' /\ PortsSoFar'
  <1> DEFINE call == StartCalls[Len(calls[p]) + 1]
  <1>1. /\ Starting(p) /\ Len(calls[p]) < Len(StartCalls)
        /\ calls' = [calls EXCEPT ![p] = Append(@, call)]
        /\ failed' = [failed EXCEPT ![p] = IF rc < 0 THEN @ \cup {call} ELSE @]
        /\ gaveUp' = gaveUp
        /\ UNCHANGED <<main, portCount, ports, announced>>
    BY NeverNegative DEF StartCall, dpdk
  <1>2. calls[p] \in Prefixes
    BY DEF PortTypes
  <1>3. Append(calls[p], call) \in Prefixes /\ call \in Range(StartCalls)
    <2>1. CASE calls[p] = <<>>
      BY <2>1 DEF Prefixes, StartCalls, Range
    <2>2. CASE calls[p] = <<"configure">>
      <3>1. call = "rx_queue_setup"
        BY <2>2 DEF StartCalls
      <3>2. Append(calls[p], "rx_queue_setup")
              = <<"configure", "rx_queue_setup">>
        BY <2>2, NextPrefix, Zenon
      <3> HIDE DEF call
      <3> QED
        BY <3>1, <3>2, Called DEF Prefixes, StartCalls
    <2>3. CASE calls[p] = <<"configure", "rx_queue_setup">>
      <3>1. call = "tx_queue_setup"
        BY <2>3 DEF StartCalls
      <3>2. Append(calls[p], "tx_queue_setup")
              = <<"configure", "rx_queue_setup", "tx_queue_setup">>
        BY <2>3, NextPrefix, Zenon
      <3> HIDE DEF call
      <3> QED
        BY <3>1, <3>2, Called DEF Prefixes, StartCalls
    <2>4. CASE calls[p] = <<"configure", "rx_queue_setup", "tx_queue_setup">>
      <3>1. call = "dev_start"
        BY <2>4 DEF StartCalls
      <3>2. Append(calls[p], "dev_start")
              = <<"configure", "rx_queue_setup", "tx_queue_setup", "dev_start">>
        BY <2>4, NextPrefix, Zenon
      <3> HIDE DEF call
      <3> QED
        BY <3>1, <3>2, Called DEF Prefixes, StartCalls
    <2>5. CASE calls[p] = StartCalls
      BY <1>1, <2>5
    <2> QED
      BY <1>2, <2>1, <2>2, <2>3, <2>4, <2>5 DEF Prefixes
  <1> HIDE DEF call
  <1>4. PortTypes'
    BY <1>1, <1>3 DEF PortTypes
  <1>5. PortsSoFar'
    BY <1>1, StartingPort DEF PortsSoFar, Starting, PortTypes
  <1> QED
    BY <1>4, <1>5

LEMMA AnnounceKeeps ==
  ASSUME PortTypes, PortsSoFar, Types, NEW p \in Port, Announce(p)
  PROVE  PortTypes' /\ PortsSoFar'
  <1>1. /\ Starting(p) /\ Len(calls[p]) = Len(StartCalls)
        /\ announced' = announced \cup {p} /\ main' = "ports"
        /\ UNCHANGED <<portCount, ports, calls, failed, gaveUp>>
    BY DEF Announce, dpdk, PortTypes
  <1>2. calls[p] = StartCalls
    BY <1>1 DEF PortTypes, Prefixes, StartCalls
  <1>3. Started(p + 1)
    BY <1>1, <1>2, StartingPort, Assumed DEF Started, Port
  <1>4. announced' = 0..p /\ ports' = 0..p /\ p + 1 \in 0..2
    BY <1>1, StartingPort
  <1>5. p + 1 - 1 = p
    BY Assumed DEF Port
  <1>6. PortsSoFar'
    BY <1>1, <1>3, <1>4, <1>5, StartingPort DEF PortsSoFar, Started
  <1> QED
    BY <1>1, <1>6 DEF PortTypes
-----------------------------------------------------------------------------
LEMMA NextInv == Inv /\ [Next]_vars => Inv'
  <1> SUFFICES ASSUME Types, Grouped, PortTypes, PortsSoFar, BothPortsOrNone, [Next]_vars
               PROVE  Inv'
    BY DEF Inv
  <1>g. ASSUME UNCHANGED cores, UNCHANGED dpdk PROVE Grouped'
    BY <1>g DEF cores, dpdk, Grouped
  <1>c. ASSUME UNCHANGED cores, UNCHANGED dpdk,
               main' \in {"eal", "sockets", "pool", "count", "ports", "start", "findFree",
                          "failed", "crashed", "noSocket"}
        PROVE  Types' /\ Grouped'
    BY <1>c, <1>g DEF cores, dpdk, Types
  <1>e. ASSUME UNCHANGED eth PROVE PortTypes'
    BY <1>e DEF eth, PortTypes
  <1>1. CASE EalInit \/ EalFails
    BY <1>1, <1>c, <1>e DEF EalInit, EalFails, GoOn, eth, Inv, PortsSoFar, Started,
                            BothPortsOrNone
  <1>2. ASSUME NEW l \in LcoreId, AddLcore(l) PROVE Inv'
    BY <1>2, <1>e, AddLcoreGroups DEF AddLcore, eth, Inv, PortsSoFar, Started, BothPortsOrNone
  <1>3. CASE EndOfLcores \/ CreatePool
    BY <1>3, <1>c, <1>e DEF EndOfLcores, CreatePool, GoOn, eth, Inv, PortsSoFar, Started,
                            BothPortsOrNone
  <1>4. CASE PoolFails
    <2>1. /\ main = "pool" /\ main' = "findFree" /\ ports' = Null
          /\ UNCHANGED <<dpdk, cores, calls, failed, gaveUp, announced>>
      BY <1>4 DEF PoolFails, GoOn
    <2>2. PortTypes' /\ PortsSoFar' /\ BothPortsOrNone'
      BY <2>1 DEF PortTypes, PortsSoFar, BothPortsOrNone
    <2> QED
      BY <2>1, <2>2, <1>c DEF Inv
  <1>5. CASE CountPorts
    <2>1. CASE portCount = 2
      <3>1. /\ main = "count" /\ main' = "ports"
            /\ UNCHANGED <<portCount, ports, calls, failed, gaveUp, announced>>
        BY <1>5, <2>1 DEF CountPorts, GoOn, dpdk
      <3>2. ports' = 0..0-1 /\ announced' = ports' /\ Started(0)'
        <4>1. 0..0-1 = {}
          OBVIOUS
        <4> QED
          BY <3>1, <4>1 DEF PortsSoFar, Started
      <3> QED
        <4>1. PortTypes' /\ BothPortsOrNone'
          BY <3>1 DEF PortTypes, BothPortsOrNone
        <4>2. PortsSoFar'
          BY <2>1, <3>1, <3>2 DEF PortsSoFar
        <4>3. Types' /\ Grouped'
          BY <1>5, <3>1, <1>c DEF CountPorts
        <4> QED
          BY <4>1, <4>2, <4>3 DEF Inv
    <2>2. CASE portCount # 2
      <3>1. /\ main = "count" /\ main' = "findFree" /\ ports' = Null
            /\ UNCHANGED <<dpdk, cores, calls, failed, gaveUp, announced>>
        BY <1>5, <2>2 DEF CountPorts, GoOn
      <3>2. PortTypes' /\ PortsSoFar' /\ BothPortsOrNone'
        BY <3>1 DEF PortTypes, PortsSoFar, BothPortsOrNone
      <3> QED
        BY <3>1, <3>2, <1>c DEF Inv
    <2> QED
      BY <2>1, <2>2
  <1>6. ASSUME NEW p \in Port, AddPort(p) PROVE Inv'
    BY <1>6, <1>c, AddPortKeeps DEF AddPort, GoOn, Inv, BothPortsOrNone
  <1>7. ASSUME NEW p \in Port, Announce(p) PROVE Inv'
    BY <1>7, <1>c, AnnounceKeeps DEF Announce, Inv, BothPortsOrNone
  <1>8. ASSUME NEW p \in Port, NEW rc \in {0, Error}, StartCall(p, rc) PROVE Inv'
    BY <1>8, <1>c, StartCallKeeps DEF StartCall, Starting, Inv, BothPortsOrNone, Types
  <1>9. CASE FallsOffTheEnd
    BY <1>9, <1>c, <1>e DEF FallsOffTheEnd, Inv, PortsSoFar, BothPortsOrNone
  <1>10. CASE EndOfPorts
    <2>1. /\ main = "ports" /\ main' = "findFree" /\ ports = 0..portCount-1
          /\ UNCHANGED <<dpdk, cores, eth>>
      BY <1>10 DEF EndOfPorts, GoOn
    <2>2. PICK n \in 0..2 : ports = 0..n-1 /\ announced = ports /\ Started(n)
      BY <2>1 DEF PortsSoFar
    <2>3. ports = 0..1 /\ portCount = 2
      BY <2>1 DEF PortsSoFar
    <2>4. n = 2
      BY <2>2, <2>3
    <2>5. 0..1 = {0, 1} /\ ports \subseteq Port
      BY <2>2, <2>3 DEF PortTypes
    <2>6. \A p \in ports : calls[p] = StartCalls
      BY <2>2, <2>3, <2>4, <2>5 DEF Started
    <2>7. BothPortsOrNone'
      BY <2>1, <2>2, <2>3, <2>5, <2>6 DEF BothPortsOrNone, eth
    <2> QED
      BY <2>1, <2>7, <1>c, <1>e DEF Inv, PortsSoFar
  <1>11. CASE TakeSocket
    BY <1>11, <1>c, <1>e, NothingToFind DEF TakeSocket, eth, Inv, PortsSoFar, BothPortsOrNone
  <1>12. CASE UNCHANGED vars
    BY <1>12, <1>c, <1>e DEF vars, cores, dpdk, eth, Inv, Types, PortsSoFar, Started,
                             BothPortsOrNone
  <1> QED
    BY <1>1, <1>2, <1>3, <1>4, <1>5, <1>6, <1>7, <1>8, <1>9, <1>10, <1>11, <1>12 DEF Next

LEMMA AlwaysInv == Spec => []Inv
  BY InitInv, NextInv, PTL DEF Spec

LEMMA PrefixTypes == Prefixes \subseteq Seq(Range(StartCalls))
  <1> DEFINE S == {"configure", "rx_queue_setup", "tx_queue_setup", "dev_start"}
  <1>1. /\ <<>> \in Seq(S) /\ <<"configure">> \in Seq(S)
        /\ <<"configure", "rx_queue_setup">> \in Seq(S)
        /\ <<"configure", "rx_queue_setup", "tx_queue_setup">> \in Seq(S)
        /\ StartCalls \in Seq(S)
    BY DEF StartCalls
  <1> QED
    BY <1>1, Called DEF Prefixes

\* Every variable keeps its type.
THEOREM TypeCorrect == Spec => []TypeOK
  <1>1. Inv => TypeOK
    BY PrefixTypes DEF Inv, Types, PortTypes, TypeOK, SocketRecord, LcoreRecord
  <1> QED
    BY <1>1, AlwaysInv, PTL

\* Sockets::create groups the lcores by their sockets, whatever their numbers and
\* wherever they are.
THEOREM LcoresGrouped == Spec => []Grouped
  BY AlwaysInv, PTL DEF Inv

\* When start asks for a socket it has two ports that have gone through all of
\* Port::start, the calls that failed included, or none.
THEOREM TwoPortsOrNone == Spec => []BothPortsOrNone
  BY AlwaysInv, PTL DEF Inv

\* start never gets beyond the line that asks for a free socket: its actions are
\* wired on no machine.  What the message of findFree says of this, NoneFree, is
\* violated in every run that gets there.
THEOREM NeverWires == Spec => [](main # "wiring")
  <1>1. Inv => main # "wiring"
    BY DEF Inv, Types
  <1> QED
    BY <1>1, AlwaysInv, PTL
=============================================================================
