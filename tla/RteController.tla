----------------------------- MODULE RteController -----------------------------
(***************************************************************************)
(* RteController::start (src/rte_controller.cc) as far as it gets: the EAL *)
(* is initialised, Sockets::create groups the enabled lcores by their CPU  *)
(* socket, Ports::create makes the mbuf pool and brings up two ports, and  *)
(* Sockets::findFree is asked for a socket.  It never has one to give,     *)
(* because it tests !isFree() (src/sockets.h), so that everything after    *)
(* that line of start is out of reach, and out of this module.             *)
(*                                                                         *)
(* DPDK is outside of the program: which lcores it enables, where they     *)
(* are, how many ports it finds and which of its calls fail are choices.   *)
(***************************************************************************)
EXTENDS Integers, Sequences, FiniteSets, Functions

CONSTANTS
  LcoreId,   \* lcores that the EAL may enable
  SocketId,  \* the CPU sockets they may be on
  MaxPorts,  \* bound: the largest number of ports DPDK may find
  Error,     \* the return code of a call that fails
  Null,      \* a null pointer
  UIntSize   \* 2^w, w the width of an unsigned int (32 in the code)

ASSUME ControllerAssumption ==
  /\ LcoreId \subseteq Nat /\ IsFiniteSet(LcoreId)
  /\ MaxPorts \in Nat
  /\ UIntSize \in Nat \ {0}
  /\ Error \in Int /\ Error < 0 /\ -UIntSize < Error
  /\ Null \notin Nat

VARIABLES
  main,       \* where start() is; it ends at "failed", "crashed", "noSocket" or
              \* "wiring"
  enabled,    \* the lcores that the EAL has enabled
  where,      \* where[l]: rte_lcore_to_socket_id(l)
  portCount,  \* rte_eth_dev_count()
  visited,    \* the lcores that Sockets::create has come to
  sockets,    \* Sockets::sockets, a vector of [id, lcores]
  ports,      \* the Ports: the ports added so far, Null when create() returned 0
  calls,      \* calls[p]: the calls Port::start has made for port p
  failed,     \* failed[p]: those of them that returned an error
  gaveUp,     \* the ports whose Port::start has returned false
  announced   \* the ports logged as "Started Port"

vars == <<main, enabled, where, portCount, visited, sockets, ports, calls, failed,
          gaveUp, announced>>
dpdk == <<enabled, where, portCount>>
cores == <<visited, sockets>>
eth == <<ports, calls, failed, gaveUp, announced>>

Port == 0..MaxPorts-1

\* The calls of Port::start whose return code it tests, in their order.
StartCalls == <<"configure", "rx_queue_setup", "tx_queue_setup", "dev_start">>

GoOn(from, to) ==
  /\ main = from
  /\ main' = to

Init ==
  /\ main = "eal"
  /\ enabled \in (SUBSET LcoreId) \ {{}}
  /\ where \in [LcoreId -> SocketId]
  /\ portCount \in 0..MaxPorts
  /\ visited = {}
  /\ sockets = <<>>
  /\ ports = {}
  /\ calls = [p \in Port |-> <<>>]
  /\ failed = [p \in Port |-> {}]
  /\ gaveUp = {}
  /\ announced = {}
-----------------------------------------------------------------------------
(* Socket and Lcore *)

\* Lcore(socket, id): an Lcore starts without actions.
NewLcore(l) == [id |-> l, actions |-> <<>>]

HasActions(lcore) == lcore.actions # <<>>

IsFree(socket) == \A lcore \in Range(socket.lcores) : ~HasActions(lcore)

\* The first of a set of indices, or Null.
First(ks) == IF ks = {} THEN Null ELSE CHOOSE k \in ks : \A j \in ks : k <= j
-----------------------------------------------------------------------------
(* Faulty variants of the definitions below, one slip each; the runs must    *)
(* reject them.                                                              *)

\* Only the newest socket is compared, as if lcores came sorted by socket.
FindSocket_Newest(id) ==
  First({k \in DOMAIN sockets : k = Len(sockets) /\ sockets[k].id = id})

\* Any number of ports will do.
CountPorts_Any ==
  /\ GoOn("count", "ports")
  /\ UNCHANGED <<dpdk, cores, eth>>

-----------------------------------------------------------------------------
(* Rte::eal_init *)

EalInit ==
  /\ GoOn("eal", "sockets")
  /\ UNCHANGED <<dpdk, cores, eth>>

\* "Invalid EAL arguments": start returns false.
EalFails ==
  /\ GoOn("eal", "failed")
  /\ UNCHANGED <<dpdk, cores, eth>>
-----------------------------------------------------------------------------
(* Sockets::create *)

\* find_if(... obj.getId() == socketId)
FindSocket(id) == First({k \in DOMAIN sockets : sockets[k].id = id})

\* RTE_LCORE_FOREACH: the next lcore joins its socket, which is made when it is
\* the first one there.
AddLcore(l) ==
  LET k == FindSocket(where[l]) IN
  /\ main = "sockets"
  /\ l \in enabled \ visited
  /\ \A m \in enabled \ visited : l <= m
  /\ visited' = visited \cup {l}
  /\ sockets' =
       IF k = Null
       THEN Append(sockets, [id |-> where[l], lcores |-> <<NewLcore(l)>>])
       ELSE [sockets EXCEPT ![k].lcores = Append(@, NewLcore(l))]
  /\ UNCHANGED <<main, dpdk, eth>>

EndOfLcores ==
  /\ visited = enabled
  /\ GoOn("sockets", "pool")
  /\ UNCHANGED <<dpdk, cores, eth>>
-----------------------------------------------------------------------------
(* Ports::create *)

\* rte_pktmbuf_pool_create
CreatePool ==
  /\ GoOn("pool", "count")
  /\ UNCHANGED <<dpdk, cores, eth>>

\* It fails: create returns 0, which start does not look at.
PoolFails ==
  /\ GoOn("pool", "findFree")
  /\ ports' = Null
  /\ UNCHANGED <<dpdk, cores, calls, failed, gaveUp, announced>>

\* "not the right # of ports defined you need exact two"
CountPorts ==
  /\ \/ portCount = 2 /\ GoOn("count", "ports") /\ UNCHANGED ports
     \/ portCount # 2 /\ GoOn("count", "findFree") /\ ports' = Null
  /\ UNCHANGED <<dpdk, cores, calls, failed, gaveUp, announced>>

\* for (i < portCount) addPort(i)
AddPort(p) ==
  /\ GoOn("ports", "start")
  /\ p < portCount
  /\ ports = 0..p-1
  /\ ports' = 0..p
  /\ UNCHANGED <<dpdk, cores, calls, failed, gaveUp, announced>>

EndOfPorts ==
  /\ GoOn("ports", "findFree")
  /\ ports = 0..portCount-1
  /\ UNCHANGED <<dpdk, cores, eth>>
-----------------------------------------------------------------------------
(* Port::start, of the port just added *)

Starting(p) ==
  /\ main = "start"
  /\ ports = 0..p

\* unsigned ret = ...
Unsigned(rc) == rc % UIntSize

\* The next call, and "if (ret < 0) return false".
StartCall(p, rc) ==
  LET call == StartCalls[Len(calls[p]) + 1] IN
  /\ Starting(p)
  /\ p \notin gaveUp /\ Len(calls[p]) < Len(StartCalls)
  /\ calls' = [calls EXCEPT ![p] = Append(@, call)]
  /\ failed' = [failed EXCEPT ![p] = IF rc < 0 THEN @ \cup {call} ELSE @]
  /\ gaveUp' = IF Unsigned(rc) < 0 THEN gaveUp \cup {p} ELSE gaveUp
  /\ UNCHANGED <<main, dpdk, cores, ports, announced>>

\* addPort does not look at what start returns.
Announce(p) ==
  /\ Starting(p)
  /\ p \in gaveUp \/ Len(calls[p]) = Len(StartCalls)
  /\ announced' = announced \cup {p}
  /\ main' = "ports"
  /\ UNCHANGED <<dpdk, cores, ports, calls, failed, gaveUp>>

\* Socket::addLcore and Port::start are declared bool and end without a return.
\* Their callers ignore the value, but a compiler may leave no way back to them
\* (GCC 8 and later do, at the -O3 of the Makefile).
FallsOffTheEnd ==
  /\ \/ main = "sockets" /\ visited # {}
     \/ \E p \in Port : Starting(p) /\ Len(calls[p]) = Len(StartCalls)
  /\ main' = "crashed"
  /\ UNCHANGED <<dpdk, cores, eth>>
-----------------------------------------------------------------------------
\* Sockets::findFree
FindFree == First({k \in DOMAIN sockets : ~IsFree(sockets[k])})

\* auto socket = sockets->findFree(); auto lcorePacket = socket->findFree(),
\* which dies when it reads the vector of lcores of a null pointer.
TakeSocket ==
  /\ main = "findFree"
  /\ main' = IF FindFree = Null THEN "noSocket" ELSE "wiring"
  /\ UNCHANGED <<dpdk, cores, eth>>
-----------------------------------------------------------------------------
Next ==
  \/ EalInit \/ EalFails
  \/ \E l \in LcoreId : AddLcore(l)
  \/ EndOfLcores
  \/ CreatePool \/ PoolFails
  \/ CountPorts
  \/ \E p \in Port : AddPort(p) \/ Announce(p)
  \/ \E p \in Port, rc \in {0, Error} : StartCall(p, rc)
  \/ FallsOffTheEnd
  \/ EndOfPorts
  \/ TakeSocket

Spec == Init /\ [][Next]_vars
-----------------------------------------------------------------------------
TypeOK ==
  /\ main \in {"eal", "sockets", "pool", "count", "ports", "start", "findFree",
               "failed", "crashed", "noSocket", "wiring"}
  /\ enabled \subseteq LcoreId
  /\ where \in [LcoreId -> SocketId]
  /\ portCount \in 0..MaxPorts
  /\ visited \subseteq enabled
  /\ sockets \in Seq([id : SocketId, lcores : Seq([id : LcoreId, actions : {<<>>}])])
  /\ ports \in (SUBSET Port) \cup {Null}
  /\ calls \in [Port -> Seq(Range(StartCalls))]
  /\ failed \in [Port -> SUBSET Range(StartCalls)]
  /\ gaveUp \subseteq Port
  /\ announced \subseteq Port

\* The ids of the lcores of a socket.
Ids(socket) == {lcore.id : lcore \in Range(socket.lcores)}

\* Sockets::create groups the lcores come to so far by where they are: one
\* socket for each id that occurs, every lcore in it once, none anywhere else.
Grouped ==
  /\ \A k \in DOMAIN sockets :
       /\ Ids(sockets[k]) = {l \in visited : where[l] = sockets[k].id}
       /\ Len(sockets[k].lcores) = Cardinality(Ids(sockets[k]))
       /\ Ids(sockets[k]) # {}
  /\ \A j, k \in DOMAIN sockets : sockets[j].id = sockets[k].id => j = k
  /\ visited = UNION {Ids(sockets[k]) : k \in DOMAIN sockets}

\* When start asks for a socket it has two ports that have gone through every
\* call of Port::start, failed ones included, and have been announced as
\* started, or it has no Ports at all and does not know.
BothPortsOrNone ==
  main \in {"findFree", "noSocket", "wiring"} =>
    \/ ports = Null /\ announced = {}
    \/ /\ ports = {0, 1} /\ announced = ports
       /\ \A p \in ports : calls[p] = StartCalls

-----------------------------------------------------------------------------
(* What the messages of the program say, and it does not keep.               *)

\* "no free Socket found!": findFree has none to give only when there is none.
\* It passes over the sockets that are free, so that start goes on with a null
\* pointer on every machine.
NoneFree == main = "noSocket" => \A k \in DOMAIN sockets : ~IsFree(sockets[k])

\* "Started Port with id:" is said of ports that were started: no call of
\* Port::start has failed for them.  Its return codes are kept in an unsigned,
\* and addPort does not look at what it returns.
StartedPorts == \A p \in announced : failed[p] = {}
=============================================================================
