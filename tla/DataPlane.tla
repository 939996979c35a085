------------------------------ MODULE DataPlane ------------------------------
(***************************************************************************)
(* RteController::start (src/rte_controller.cc) from the line that takes a *)
(* packet lcore out of a socket: LcoreActions are handed to the socket's   *)
(* lcores, the RX and TX actions are wired to the ports and the workers,   *)
(* and Socket::launch runs Lcore::main_loop on every lcore.                *)
(*                                                                         *)
(* The module RteController shows that start never has a socket at that    *)
(* line.  This one says what the code after it does with a socket as       *)
(* Sockets::create makes them: some lcores, no actions.                    *)
(*                                                                         *)
(* The distributor is never created: DistributionController leaves its     *)
(* pointer uninitialised, and what DPDK does with it is undefined.  The    *)
(* process dies, the calling lcore hangs in rte_distributor_get_pkt, or    *)
(* the call returns nothing of consequence.                                *)
(***************************************************************************)
EXTENDS Integers, Sequences, FiniteSets, Functions

CONSTANTS
  LcoreId,  \* lcores that may be in the socket
  NoLcore,  \* the master lcore is in another socket
  NoPort,   \* an RXAction or TXAction that is not bound yet
  Mbufs,    \* size of the pool (NB_MBUF, 8192 in the code)
  Burst     \* MAX_PKT_BURST (32 in the code)

ASSUME DataPlaneAssumption ==
  /\ LcoreId \subseteq Nat /\ IsFiniteSet(LcoreId)
  /\ NoLcore \notin LcoreId
  /\ NoPort \notin {0, 1}
  /\ Mbufs \in Nat /\ Burst \in Nat

RX == {"uncipherRX", "cipherRX"}
TX == {"uncipherTX", "cipherTX"}
Worker == {"uncipher2cipher", "cipher2uncipher"}
Action == RX \cup TX \cup {"distribution", "cipher"}
Port == {0, 1}

VARIABLES
  main,         \* where start() is
  lcores,       \* the lcores of the socket, in the order of their numbers
  master,       \* the master lcore
  hasPorts,     \* Ports::create has returned the two ports
  packetLcore,  \* lcorePacket
  actions,      \* actions[l]: Lcore::actions
  rxPort,       \* rxPort[a]: RXAction::port
  txPort,       \* txPort[a]: TXAction::port
  portRX,       \* portRX[p]: Port::rxAction
  portTX,       \* portTX[p]: Port::txAction
  rxActions,    \* rxActions[w]: those of worker w
  txActions,    \* txActions[w]: those of worker w
  pc,           \* pc[l]: where lcore l is
  at,           \* at[l]: index of the action lcore l is about to call
  pool,         \* mbufs in the pool
  rx            \* rx[p]: PortStatistics::rx

vars == <<main, lcores, master, hasPorts, packetLcore, actions, rxPort, txPort,
          portRX, portTX, rxActions, txActions, pc, at, pool, rx>>
dpdk == <<lcores, master, hasPorts>>
wires == <<rxPort, txPort, portRX, portTX, rxActions, txActions>>
loops == <<pc, at>>
mbufs == <<pool, rx>>

Init ==
  /\ main = "packetLcore"
  /\ lcores \in (SUBSET LcoreId) \ {{}}
  /\ master \in LcoreId \cup {NoLcore}
  /\ hasPorts \in BOOLEAN
  /\ packetLcore = NoLcore
  /\ actions = [l \in LcoreId |-> <<>>]
  /\ rxPort = [a \in RX |-> NoPort]
  /\ txPort = [a \in TX |-> NoPort]
  /\ portRX = [p \in Port |-> "none"]
  /\ portTX = [p \in Port |-> "none"]
  /\ rxActions = [w \in Worker |-> <<>>]
  /\ txActions = [w \in Worker |-> <<>>]
  /\ pc = [l \in LcoreId |-> "waiting"]
  /\ at = [l \in LcoreId |-> 1]
  /\ pool = Mbufs
  /\ rx = [p \in Port |-> 0]

GoOn(from, to) ==
  /\ main = from
  /\ main' = to

\* Socket::findFree: the first lcore without actions, NoLcore if there is none.
FindFree ==
  LET free == {l \in lcores : actions[l] = <<>>} IN
  IF free = {} THEN NoLcore ELSE CHOOSE l \in free : \A m \in free : l <= m
-----------------------------------------------------------------------------
(* Faulty variants of the definitions below, one slip each; the runs must    *)
(* reject them.                                                              *)

\* port >> RXAction tells the port, but not the action.
FromPort_OneWay(p, r) ==
  /\ portRX' = [portRX EXCEPT ![p] = r]
  /\ UNCHANGED rxPort

\* Both ends of the path from port 1 are there.
ToPort_Loop(t, p) ==
  /\ portTX' = [portTX EXCEPT ![1] = t]
  /\ txPort' = [txPort EXCEPT ![t] = 1]

\* The loop calls its first action only.
Following_First(l) == 1
-----------------------------------------------------------------------------
(* Handing out the actions *)

\* auto lcorePacket = socket->findFree()
TakePacketLcore ==
  /\ GoOn("packetLcore", "distribution")
  /\ packetLcore' = FindFree
  /\ UNCHANGED <<dpdk, actions, wires, loops, mbufs>>

\* lcoreDistributionController->addAction and its like: all of them are
\* lcorePacket.
GiveToPacketLcore ==
  /\ \E step \in {<<"distribution", "ciphers">>,
                  <<"uncipherRX", "cipherTX">>, <<"cipherTX", "forward">>,
                  <<"cipherRX", "uncipherTX">>, <<"uncipherTX", "backward">>} :
       /\ GoOn(step[1], step[2])
       /\ actions' = [actions EXCEPT ![packetLcore] = Append(@, step[1])]
  /\ UNCHANGED <<dpdk, packetLcore, wires, loops, mbufs>>

\* for(lcore = socket->findFree(); lcore != 0; lcore = socket->findFree())
ShareOut ==
  /\ main = "ciphers"
  /\ IF FindFree = NoLcore
     THEN main' = "uncipherRX" /\ UNCHANGED actions
     ELSE actions' = [actions EXCEPT ![FindFree] = Append(@, "cipher")] /\ UNCHANGED main
  /\ UNCHANGED <<dpdk, packetLcore, wires, loops, mbufs>>
-----------------------------------------------------------------------------
(* The operators >> *)

\* Port& >> RXAction&
FromPort(p, r) ==
  /\ portRX' = [portRX EXCEPT ![p] = r]
  /\ rxPort' = [rxPort EXCEPT ![r] = p]

\* RXAction& >> worker& >> TXAction&: only the worker remembers.
Through(r, w, t) ==
  /\ rxActions' = [rxActions EXCEPT ![w] = Append(@, r)]
  /\ txActions' = [txActions EXCEPT ![w] = Append(@, t)]

\* TXAction& >> Port&
ToPort(t, p) ==
  /\ portTX' = [portTX EXCEPT ![p] = t]
  /\ txPort' = [txPort EXCEPT ![t] = p]

Forward ==
  /\ hasPorts
  /\ GoOn("forward", "cipherRX")
  /\ FromPort(0, "uncipherRX")
  /\ Through("uncipherRX", "uncipher2cipher", "cipherTX")
  /\ ToPort("cipherTX", 1)
  /\ UNCHANGED <<dpdk, packetLcore, actions, loops, mbufs>>

Backward ==
  /\ hasPorts
  /\ GoOn("backward", "launch")
  /\ FromPort(1, "cipherRX")
  /\ Through("cipherRX", "cipher2uncipher", "uncipherTX")
  /\ ToPort("uncipherTX", 0)
  /\ UNCHANGED <<dpdk, packetLcore, actions, loops, mbufs>>

\* ports->find(0) of a null pointer
NoPorts ==
  /\ ~hasPorts
  /\ GoOn("forward", "crashed")
  /\ UNCHANGED <<dpdk, packetLcore, actions, wires, loops, mbufs>>
-----------------------------------------------------------------------------
(* Socket::launch *)

\* An lcore enters main_loop, and leaves it again when it has no actions.
Enter(l) == pc' = [pc EXCEPT ![l] = IF actions[l] = <<>> THEN "returned" ELSE "prepare"]

\* rte_eal_remote_launch, of the lcores in their order
RemoteLaunch(l) ==
  /\ main = "launch"
  /\ l \in lcores \ {master} /\ pc[l] = "waiting"
  /\ \A m \in lcores \ {master} : pc[m] = "waiting" => l <= m
  /\ Enter(l)
  /\ UNCHANGED <<main, dpdk, packetLcore, actions, wires, at, mbufs>>

\* Lcore::launch(master) runs in main's thread, from where it never comes back.
\* Without a master in the socket it works on a null pointer.
LaunchMaster ==
  /\ main = "launch"
  /\ \A l \in lcores \ {master} : pc[l] # "waiting"
  /\ \/ master \in lcores /\ main' = "running" /\ Enter(master)
     \/ master \notin lcores /\ main' = "crashed" /\ UNCHANGED pc
  /\ UNCHANGED <<dpdk, packetLcore, actions, wires, at, mbufs>>
-----------------------------------------------------------------------------
(* Lcore::main_loop *)

\* The index of the next action, or of the first when all are done.
Following(l) == (at[l] % Len(actions[l])) + 1

\* it->prepare(): RXAction::lcorePrepare uses its port.
Prepare(l) ==
  LET a == actions[l][at[l]] IN
  /\ main # "crashed"
  /\ pc[l] = "prepare"
  /\ main' = IF a \in RX /\ rxPort[a] = NoPort THEN "crashed" ELSE main
  /\ at' = [at EXCEPT ![l] = Following(l)]
  /\ pc' = [pc EXCEPT ![l] = IF at[l] = Len(actions[l]) THEN "loop" ELSE "prepare"]
  /\ UNCHANGED <<dpdk, packetLcore, actions, wires, mbufs>>

\* RXAction::lcoreAction: rte_eth_rx_burst takes mbufs out of the pool for what
\* has arrived.  They are counted, and neither passed on nor freed.
Receive(p) ==
  \E n \in 0..Burst :
    /\ n <= pool
    /\ pool' = pool - n
    /\ rx' = [rx EXCEPT ![p] = @ + n]

Calling(l, as) ==
  /\ main # "crashed"
  /\ pc[l] = "loop"
  /\ actions[l][at[l]] \in as

CallRX(l) ==
  /\ Calling(l, RX)
  /\ Receive(rxPort[actions[l][at[l]]])
  /\ at' = [at EXCEPT ![l] = Following(l)]
  /\ UNCHANGED <<main, dpdk, packetLcore, actions, wires, pc>>

\* TXAction::lcoreAction does nothing.  The other two, with no rings and no
\* cipherActions, call nothing but the distributor that does not exist, which
\* may come to nothing.
CallOther(l) ==
  /\ Calling(l, Action \ RX)
  /\ at' = [at EXCEPT ![l] = Following(l)]
  /\ UNCHANGED <<main, dpdk, packetLcore, actions, wires, pc, mbufs>>

\* rte_distributor_get_pkt waits for an answer that does not come.
Hang(l) ==
  /\ Calling(l, {"cipher"})
  /\ pc' = [pc EXCEPT ![l] = "hung"]
  /\ UNCHANGED <<main, dpdk, packetLcore, actions, wires, at, mbufs>>

\* The distributor's pointer, or the mbuf it gives, is not one.
Die(l) ==
  /\ Calling(l, {"distribution", "cipher"})
  /\ main' = "crashed"
  /\ UNCHANGED <<dpdk, packetLcore, actions, wires, loops, mbufs>>
-----------------------------------------------------------------------------
MainStep ==
  \/ TakePacketLcore \/ GiveToPacketLcore \/ ShareOut
  \/ Forward \/ Backward \/ NoPorts
  \/ \E l \in lcores : RemoteLaunch(l)
  \/ LaunchMaster

LcoreStep(l) == Prepare(l) \/ CallRX(l) \/ CallOther(l) \/ Hang(l) \/ Die(l)

Next == MainStep \/ \E l \in LcoreId : LcoreStep(l)

Spec == Init /\ [][Next]_vars

\* Each lcore is a processor of its own.
FairSpec ==
  /\ Spec
  /\ WF_vars(MainStep)
  /\ \A l \in LcoreId : WF_vars(LcoreStep(l))
-----------------------------------------------------------------------------
TypeOK ==
  /\ main \in {"packetLcore", "distribution", "ciphers", "uncipherRX", "cipherTX",
               "forward", "cipherRX", "uncipherTX", "backward", "launch", "running",
               "crashed"}
  /\ lcores \subseteq LcoreId
  /\ master \in LcoreId \cup {NoLcore}
  /\ hasPorts \in BOOLEAN
  /\ packetLcore \in lcores \cup {NoLcore}
  /\ actions \in [LcoreId -> Seq(Action)]
  /\ rxPort \in [RX -> Port \cup {NoPort}]
  /\ txPort \in [TX -> Port \cup {NoPort}]
  /\ portRX \in [Port -> RX \cup {"none"}]
  /\ portTX \in [Port -> TX \cup {"none"}]
  /\ rxActions \in [Worker -> Seq(RX)]
  /\ txActions \in [Worker -> Seq(TX)]
  /\ pc \in [LcoreId -> {"waiting", "returned", "prepare", "loop", "hung"}]
  /\ \A l \in LcoreId : at[l] = 1 \/ at[l] \in DOMAIN actions[l]
  /\ pool \in 0..Mbufs
  /\ rx \in [Port -> 0..Mbufs]

\* Once an lcore runs, the packet lcore has one action of each kind but the
\* cipher controller's, which all the other lcores have, and nothing else: no
\* lcore is idle, and ports and rings are the packet lcore's alone.  The cipher
\* controller is one object, so that its member buf is shared by all lcores
\* that run it.
Allocated ==
  (\E l \in lcores : pc[l] # "waiting") =>
    \A l \in lcores :
      IF l = packetLcore
      THEN /\ Range(actions[l]) = Action \ {"cipher"}
           /\ Len(actions[l]) = Cardinality(Action) - 1
      ELSE actions[l] = <<"cipher">>

\* "RX(portX) -> worker -> TX(portY)": once an lcore runs, each worker connects
\* the RXAction of one port with the TXAction of the other, action and port
\* know each other, and no two workers share an action.
Crossed ==
  (\E l \in lcores : pc[l] # "waiting") =>
    /\ \A p \in Port :
         /\ portRX[p] \in RX /\ rxPort[portRX[p]] = p
         /\ portTX[p] \in TX /\ txPort[portTX[p]] = p
    /\ \A w \in Worker : \E r \in RX, t \in TX :
         /\ rxActions[w] = <<r>> /\ txActions[w] = <<t>>
         /\ rxPort[r] # txPort[t]
    /\ rxActions["uncipher2cipher"] # rxActions["cipher2uncipher"]

\* start() has handed out and wired the actions as its comment draws them.
Wired == Allocated /\ Crossed

\* The process dies only where it must: because there are no ports, because
\* the master is in another socket, or in a loop on the distributor.
DiesOnlyOfNulls ==
  main = "crashed" =>
    \/ ~hasPorts
    \/ master \notin lcores
    \/ \E l \in lcores : pc[l] = "loop" /\ actions[l][at[l]] \in {"distribution", "cipher"}

\* No action keeps an lcore from its others: once it runs, each comes to its
\* turn in the loop, unless the process dies or the lcore hangs in the
\* distributor.
InTurn ==
  \A l \in LcoreId : \A k \in 1..5 :
    (pc[l] \in {"prepare", "loop"} /\ k \in DOMAIN actions[l])
      ~> ((pc[l] = "loop" /\ at[l] = k) \/ pc[l] = "hung" \/ main = "crashed")
=============================================================================
