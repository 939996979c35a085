-------------------------------- MODULE L2Fwd --------------------------------
(***************************************************************************)
(* The layer two forwarder the data plane grew out of                      *)
(* (src/unused/intel.c).  main reads its options, pairs the enabled ports, *)
(* deals them out to the lcores, brings them up and launches the main loop *)
(* on every lcore.  The loops share the ports, the statistics and the mbuf *)
(* pool without a lock: each port is received from by one lcore, and sent  *)
(* to by one lcore, which is what makes that sound.                        *)
(*                                                                         *)
(* DPDK, the NICs and the command line are outside: what they return is a  *)
(* choice.  A port mask is a set of bit numbers.                           *)
(***************************************************************************)
EXTENDS Integers, FiniteSets, Functions

CONSTANTS
  MaxPorts,      \* RTE_MAX_ETHPORTS
  MaxLcore,      \* RTE_MAX_LCORE
  MaskBits,      \* the width of a uint32_t
  MaxQueues,     \* MAX_RX_QUEUE_PER_LCORE
  MaxPktBurst,   \* MAX_PKT_BURST
  MaxCheckTime,  \* MAX_CHECK_TIME
  NbMbuf,        \* NB_MBUF
  Traffic,       \* bound: packets received in all
  Null           \* no port, no burst

ASSUME L2FwdAssumption ==
  /\ {MaxPorts, MaxLcore, MaskBits, MaxQueues, MaxPktBurst, MaxCheckTime}
       \subseteq Nat \ {0}
  /\ {NbMbuf, Traffic} \subseteq Nat
  /\ Null \notin Nat

Port == 0..MaxPorts-1
Lcore == 0..MaxLcore-1
Burst == [port : Port, n : 0..MaxPktBurst]
Counters == [tx : Nat, rx : Nat, dropped : Nat]

ASSUME NullAssumption == Null \notin Burst

VARIABLES
  main,      \* where main is; rte_exit takes it to "exited"
  enabled,   \* the lcores the EAL has enabled
  options,   \* [mask, queues]: the globals that options set
  nbPorts,   \* nb_ports
  portid,    \* the loop variable of main
  dst,       \* l2fwd_dst_ports
  lastPort,  \* last_port
  inMask,    \* nb_ports_in_mask
  rxLcore,   \* rx_lcore_id
  rxPorts,   \* lcore_queue_conf[l].rx_port_list as a set
  started,   \* the ports brought up
  links      \* [count, print, printed]: count and print_flag of the link check,
             \* and whether it has printed the links

VARIABLES
  pc,        \* pc[l]: where the main loop of lcore l is
  todo,      \* todo[l]: its ports still to be received from in this round
  batch,     \* batch[l]: [port, n]: n packets of pkts_burst still to be forwarded
  len,       \* len[l][p]: lcore_queue_conf[l].tx_mbufs[p].len
  burst,     \* burst[l]: [port, n], the rte_eth_tx_burst it is in, or Null
  stats,     \* port_statistics
  pool,      \* mbufs free in l2fwd_pktmbuf_pool
  wire       \* wire[p]: mbufs the driver of port p has taken to send

pairing == <<dst, lastPort, inMask>>
setup == <<options, nbPorts, portid, pairing, rxLcore, rxPorts, started, links>>
traffic == <<len, burst, stats, pool, wire>>
loop == <<pc, todo, batch, traffic>>
vars == <<main, enabled, setup, loop>>

NoTraffic == [tx |-> 0, rx |-> 0, dropped |-> 0]
NoLinks == [count |-> 0, print |-> FALSE, printed |-> FALSE]
NoBatch == [port |-> Null, n |-> 0]

\* The static variables of the program, for any machine.
Init ==
  /\ main = "eal"
  /\ enabled \in (SUBSET Lcore) \ {{}}
  /\ options = [mask |-> {}, queues |-> 1]
  /\ nbPorts = 0 /\ portid = 0
  /\ dst = [p \in Port |-> 0] /\ lastPort = 0 /\ inMask = 0
  /\ rxLcore = 0 /\ rxPorts = [l \in Lcore |-> {}]
  /\ started = {}
  /\ links = NoLinks
  /\ pc = [l \in Lcore |-> "wait"]
  /\ todo = [l \in Lcore |-> {}]
  /\ batch = [l \in Lcore |-> NoBatch]
  /\ len = [l \in Lcore |-> [p \in Port |-> 0]]
  /\ burst = [l \in Lcore |-> Null]
  /\ stats = [p \in Port |-> NoTraffic]
  /\ pool = NbMbuf
  /\ wire = [p \in Port |-> 0]

\* main goes on, and leaves the lcores alone.
GoOn(from, to) ==
  /\ main = from
  /\ main' = to
  /\ UNCHANGED <<enabled, loop>>

\* rte_exit in any of the places given
Exit(places) ==
  /\ main \in places
  /\ main' = "exited"
  /\ UNCHANGED <<enabled, setup, loop>>

\* (l2fwd_enabled_port_mask & (1 << p)) != 0
InMask(p) == p \in options.mask

Total(f) == FoldFunction(+, 0, f)
-----------------------------------------------------------------------------
(* Faulty variants of the actions below, one slip each; the runs must reject *)
(* them.                                                                     *)

\* The way back from the second port of a pair is left out.
PairPort_OneWay ==
  /\ GoOn("pair", "pair")
  /\ portid < nbPorts
  /\ IF ~InMask(portid) THEN UNCHANGED pairing
     ELSE /\ inMask' = inMask + 1
          /\ IF inMask % 2 = 1
             THEN dst' = [dst EXCEPT ![portid] = lastPort] /\ UNCHANGED lastPort
             ELSE lastPort' = portid /\ UNCHANGED dst
  /\ portid' = portid + 1
  /\ UNCHANGED <<options, nbPorts, rxLcore, rxPorts, started, links>>

\* The flag is set a round late, when there is none left to print.
CheckLinks_Late(allUp) ==
  LET last == links.print \/ links.count = MaxCheckTime IN
  /\ GoOn("links", IF last THEN "launch" ELSE "links")
  /\ links' = IF last THEN [NoLinks EXCEPT !.printed = links.print]
              ELSE [links EXCEPT !.count = @ + 1,
                                 !.print = allUp \/ links.count = MaxCheckTime]
  /\ UNCHANGED <<options, nbPorts, portid, pairing, rxLcore, rxPorts, started>>

\* The drain looks at the lcore's own ports, not at those it sends to.
DrainPort_Own(l, p) ==
  /\ pc[l] = "drain"
  /\ len[l][p] > 0 /\ burst[l] = Null
  /\ p \in rxPorts[l]
  /\ burst' = [burst EXCEPT ![l] = [port |-> p, n |-> len[l][p]]]
  /\ UNCHANGED <<main, enabled, setup, pc, todo, batch, len, stats, pool, wire>>

\* "len > MAX_PKT_BURST"
Forward_Late(l) ==
  LET p == dst[batch[l].port] IN
  /\ pc[l] = "forward" /\ burst[l] = Null /\ batch[l].n > 0
  /\ batch' = [batch EXCEPT ![l].n = @ - 1]
  /\ len' = [len EXCEPT ![l][p] = @ + 1]
  /\ burst' = IF len'[l][p] > MaxPktBurst
              THEN [burst EXCEPT ![l] = [port |-> p, n |-> len'[l][p]]] ELSE burst
  /\ UNCHANGED <<main, enabled, setup, pc, todo, stats, pool, wire>>

\* The mbufs that are not sent are not freed.
BurstReturns_Leak(l, sent) ==
  /\ burst[l] # Null
  /\ LET p == burst[l].port
         lost == burst[l].n - sent IN
     /\ lost >= 0
     /\ stats' = [stats EXCEPT ![p].tx = @ + sent, ![p].dropped = @ + lost]
     /\ wire' = [wire EXCEPT ![p] = @ + sent]
     /\ len' = [len EXCEPT ![l][p] = 0]
  /\ burst' = [burst EXCEPT ![l] = Null]
  /\ UNCHANGED <<main, enabled, setup, pc, todo, batch, pool>>

-----------------------------------------------------------------------------
(* main: options *)

\* rte_eal_init
EalInit ==
  /\ GoOn("eal", "options")
  /\ UNCHANGED setup

\* case 'p': the argument is a number, or is not one, for which
\* l2fwd_parse_portmask returns -1, as it does for 0; the mask has 32 bits.
ParsePortmask(arg) ==
  LET mask == IF arg = Null \/ arg = {} THEN 0..MaskBits-1
              ELSE arg \cap (0..MaskBits-1)
  IN
  /\ GoOn("options", IF mask = {} THEN "exited" ELSE "options")
  /\ options' = [options EXCEPT !.mask = mask]
  /\ UNCHANGED <<nbPorts, portid, pairing, rxLcore, rxPorts, started, links>>

\* case 'q': l2fwd_parse_nqueue returns 0 for what is not a number, and for one
\* that is too large.
ParseQueues(arg) ==
  LET n == IF arg = Null \/ arg >= MaxQueues THEN 0 ELSE arg IN
  /\ GoOn("options", IF n = 0 THEN "exited" ELSE "options")
  /\ options' = [options EXCEPT !.queues = n]
  /\ UNCHANGED <<nbPorts, portid, pairing, rxLcore, rxPorts, started, links>>

\* case 'T': a number of seconds that is one, and not too large, changes nothing
\* but the wording of the log.
ParseTimer(valid) ==
  /\ GoOn("options", IF valid THEN "options" ELSE "exited")
  /\ UNCHANGED setup

EndOfOptions ==
  /\ GoOn("options", "pool")
  /\ UNCHANGED setup
-----------------------------------------------------------------------------
(* main: pool, pairs of ports, lcores *)

\* rte_pktmbuf_pool_create, rte_eth_dev_count and its limit
CountPorts(found) ==
  /\ GoOn("pool", IF found = 0 THEN "exited" ELSE "pair")
  /\ nbPorts' = IF found > MaxPorts THEN MaxPorts ELSE found
  /\ UNCHANGED <<options, portid, pairing, rxLcore, rxPorts, started, links>>

\* Every second enabled port is paired with the one before it.
PairPort ==
  /\ GoOn("pair", "pair")
  /\ portid < nbPorts
  /\ IF ~InMask(portid) THEN UNCHANGED pairing
     ELSE /\ inMask' = inMask + 1
          /\ IF inMask % 2 = 1
             THEN /\ dst' = [dst EXCEPT ![portid] = lastPort, ![lastPort] = portid]
                  /\ UNCHANGED lastPort
             ELSE lastPort' = portid /\ UNCHANGED dst
  /\ portid' = portid + 1
  /\ UNCHANGED <<options, nbPorts, rxLcore, rxPorts, started, links>>

\* "odd number of ports in portmask": the last port gets its own packets.
EndOfPairs ==
  /\ GoOn("pair", "assign")
  /\ portid = nbPorts
  /\ portid' = 0
  /\ dst' = IF inMask % 2 = 1 THEN [dst EXCEPT ![lastPort] = lastPort] ELSE dst
  /\ UNCHANGED <<options, nbPorts, lastPort, inMask, rxLcore, rxPorts, started, links>>

\* rx_lcore_id is passed over: it is not enabled, or it has its share of ports.
Full(l) == l \notin enabled \/ Cardinality(rxPorts[l]) = options.queues

NextLcore ==
  /\ GoOn("assign", IF rxLcore + 1 >= MaxLcore THEN "exited" ELSE "assign")
  /\ portid < nbPorts /\ InMask(portid)
  /\ Full(rxLcore)
  /\ rxLcore' = rxLcore + 1
  /\ UNCHANGED <<options, nbPorts, portid, pairing, rxPorts, started, links>>

AssignPort ==
  /\ GoOn("assign", "assign")
  /\ portid < nbPorts
  /\ \/ ~InMask(portid) /\ UNCHANGED rxPorts
     \/ /\ InMask(portid) /\ ~Full(rxLcore)
        /\ rxPorts' = [rxPorts EXCEPT ![rxLcore] = @ \cup {portid}]
  /\ portid' = portid + 1
  /\ UNCHANGED <<options, nbPorts, pairing, rxLcore, started, links>>

EndOfAssignment ==
  /\ GoOn("assign", "start")
  /\ portid = nbPorts
  /\ portid' = 0
  /\ UNCHANGED <<options, nbPorts, pairing, rxLcore, rxPorts, started, links>>
-----------------------------------------------------------------------------
(* main: ports and links *)

\* rte_eth_dev_configure to rte_eth_promiscuous_enable
StartPort ==
  /\ GoOn("start", "start")
  /\ portid < nbPorts
  /\ started' = IF InMask(portid) THEN started \cup {portid} ELSE started
  /\ portid' = portid + 1
  /\ UNCHANGED <<options, nbPorts, pairing, rxLcore, rxPorts, links>>

\* "All available ports are disabled."
EndOfPorts ==
  /\ GoOn("start", IF started = {} THEN "exited" ELSE "links")
  /\ portid = nbPorts
  /\ UNCHANGED setup

\* A round of check_all_ports_link_status: all links are up, or one is not.  Once
\* print_flag is set the round prints them all and leaves the loop, which also ends
\* when count gets beyond MAX_CHECK_TIME, printed or not.
CheckLinks(allUp) ==
  LET last == links.print \/ links.count = MaxCheckTime IN
  /\ GoOn("links", IF last THEN "launch" ELSE "links")
  /\ links' = IF last THEN [NoLinks EXCEPT !.printed = links.print]
              ELSE [links EXCEPT !.count = @ + 1,
                                 !.print = allUp \/ links.count = MaxCheckTime - 1]
  /\ UNCHANGED <<options, nbPorts, portid, pairing, rxLcore, rxPorts, started>>

\* rte_eal_mp_remote_launch: an lcore without ports returns at once.
Launch ==
  /\ main = "launch"
  /\ main' = "running"
  /\ pc' = [l \in Lcore |->
              IF l \in enabled /\ rxPorts[l] # {} THEN "top" ELSE "returned"]
  /\ UNCHANGED <<enabled, setup, todo, batch, traffic>>
-----------------------------------------------------------------------------
(* l2fwd_main_loop *)

Goto(l, from, to) ==
  /\ pc[l] = from
  /\ pc' = [pc EXCEPT ![l] = to]
  /\ UNCHANGED <<main, enabled, setup>>

\* diff_tsc > drain_tsc: what is buffered is sent, port by port.
StartDrain(l) ==
  /\ Goto(l, "top", "drain")
  /\ UNCHANGED <<todo, batch, traffic>>

\* Otherwise the lcore receives from its ports.
StartRound(l) ==
  /\ Goto(l, "top", "receive")
  /\ todo' = [todo EXCEPT ![l] = rxPorts[l]]
  /\ UNCHANGED <<batch, traffic>>

\* l2fwd_send_burst up to the call of rte_eth_tx_burst
SendBurst(l, p) ==
  /\ burst[l] = Null
  /\ burst' = [burst EXCEPT ![l] = [port |-> p, n |-> len'[l][p]]]
  /\ UNCHANGED <<stats, pool, wire>>

DrainPort(l, p) ==
  /\ Goto(l, "drain", "drain")
  /\ len[l][p] > 0
  /\ \A q \in Port : q < p => len[l][q] = 0
  /\ UNCHANGED len
  /\ SendBurst(l, p)
  /\ UNCHANGED <<todo, batch>>

\* rte_eth_tx_burst returns: it has taken sent mbufs.  They are counted, the
\* others are counted as dropped and freed, and the buffer is empty.
BurstReturns(l, sent) ==
  /\ burst[l] # Null
  /\ LET p == burst[l].port
         lost == burst[l].n - sent IN
     /\ lost >= 0
     /\ stats' = [stats EXCEPT ![p].tx = @ + sent, ![p].dropped = @ + lost]
     /\ pool' = pool + lost
     /\ wire' = [wire EXCEPT ![p] = @ + sent]
     /\ len' = [len EXCEPT ![l][p] = 0]
  /\ burst' = [burst EXCEPT ![l] = Null]
  /\ UNCHANGED <<main, enabled, setup, pc, todo, batch>>

\* The end of the drain; on the master the statistics may be printed.
EndDrain(l) ==
  /\ Goto(l, "drain", "receive")
  /\ burst[l] = Null /\ \A p \in Port : len[l][p] = 0
  /\ todo' = [todo EXCEPT ![l] = rxPorts[l]]
  /\ UNCHANGED <<batch, traffic>>

\* rte_eth_rx_burst returns n mbufs of the pool.
Receive(l, p, n) ==
  /\ Goto(l, "receive", "forward")
  /\ p \in todo[l] /\ \A q \in todo[l] : p <= q
  /\ n <= MaxPktBurst /\ n <= pool
  /\ pool' = pool - n
  /\ stats' = [stats EXCEPT ![p].rx = @ + n]
  /\ batch' = [batch EXCEPT ![l] = [port |-> p, n |-> n]]
  /\ todo' = [todo EXCEPT ![l] = @ \ {p}]
  /\ UNCHANGED <<len, burst, wire>>

\* l2fwd_simple_forward and l2fwd_send_packet: the packet goes to the buffer for
\* the port paired with its own, which is sent when it is full.
Forward(l) ==
  LET p == dst[batch[l].port] IN
  /\ Goto(l, "forward", "forward")
  /\ burst[l] = Null /\ batch[l].n > 0
  /\ batch' = [batch EXCEPT ![l].n = @ - 1]
  /\ len' = [len EXCEPT ![l][p] = @ + 1]
  /\ IF len'[l][p] = MaxPktBurst THEN SendBurst(l, p)
     ELSE UNCHANGED <<burst, stats, pool, wire>>
  /\ UNCHANGED <<todo>>

EndOfBatch(l) ==
  /\ Goto(l, "forward", "receive")
  /\ burst[l] = Null /\ batch[l].n = 0
  /\ batch' = [batch EXCEPT ![l] = NoBatch]
  /\ UNCHANGED <<todo, traffic>>

EndOfRound(l) ==
  /\ Goto(l, "receive", "top")
  /\ todo[l] = {}
  /\ UNCHANGED <<todo, batch, traffic>>

\* The NIC has sent n mbufs, which go back to the pool.
Sent(p, n) ==
  /\ n \in 1..wire[p]
  /\ wire' = [wire EXCEPT ![p] = @ - n]
  /\ pool' = pool + n
  /\ UNCHANGED <<main, enabled, setup, pc, todo, batch, len, burst, stats>>
-----------------------------------------------------------------------------
MainStep ==
  \/ EalInit
  \/ \E arg \in (SUBSET (0..MaskBits)) \cup {Null} : ParsePortmask(arg)
  \/ \E arg \in 0..MaxQueues \cup {Null} : ParseQueues(arg)
  \/ \E valid \in BOOLEAN : ParseTimer(valid)
  \/ EndOfOptions
  \/ \E found \in 0..MaxPorts+1 : CountPorts(found)
  \/ PairPort \/ EndOfPairs
  \/ NextLcore \/ AssignPort \/ EndOfAssignment
  \/ StartPort \/ EndOfPorts
  \/ \E allUp \in BOOLEAN : CheckLinks(allUp)
  \/ Launch

\* rte_exit for a call of DPDK that has failed, or an unknown option
Failure == Exit({"eal", "options", "pool", "start"})

LcoreStep(l) ==
  \/ StartDrain(l) \/ StartRound(l) \/ EndDrain(l) \/ EndOfRound(l)
  \/ \E p \in Port : DrainPort(l, p)
  \/ \E sent \in 0..MaxPktBurst : BurstReturns(l, sent)
  \/ \E p \in Port, n \in 0..MaxPktBurst :
       /\ n + Total([q \in Port |-> stats[q].rx]) <= Traffic
       /\ Receive(l, p, n)
  \/ Forward(l) \/ EndOfBatch(l)

Next ==
  \/ MainStep
  \/ Failure
  \/ \E l \in Lcore : LcoreStep(l)
  \/ \E p \in Port, n \in 1..NbMbuf : Sent(p, n)

Spec == Init /\ [][Next]_vars

\* Options come to an end; main and every lcore run; time passes, so that a
\* main loop finds the drain due again and again.
FairSpec ==
  /\ Spec
  /\ WF_vars(EndOfOptions) /\ WF_vars(MainStep)
  /\ \A l \in Lcore : WF_vars(LcoreStep(l)) /\ SF_vars(StartDrain(l))
-----------------------------------------------------------------------------
TypeOK ==
  /\ main \in {"eal", "options", "pool", "pair", "assign", "start", "links", "launch",
               "running", "exited"}
  /\ enabled \subseteq Lcore
  /\ options \in [mask : SUBSET (0..MaskBits-1), queues : 0..MaxQueues]
  /\ nbPorts \in 0..MaxPorts /\ portid \in 0..nbPorts
  /\ dst \in [Port -> Port] /\ lastPort \in Port /\ inMask \in 0..nbPorts
  /\ rxLcore \in 0..MaxLcore /\ rxPorts \in [Lcore -> SUBSET Port]
  /\ started \subseteq Port
  /\ links \in [count : 0..MaxCheckTime, print : BOOLEAN, printed : BOOLEAN]
  /\ pc \in [Lcore -> {"wait", "top", "drain", "receive", "forward", "returned"}]
  /\ todo \in [Lcore -> SUBSET Port]
  /\ batch \in [Lcore -> Burst \cup {NoBatch}]
  /\ len \in [Lcore -> [Port -> 0..MaxPktBurst]]
  /\ burst \in [Lcore -> Burst \cup {Null}]
  /\ stats \in [Port -> Counters]
  /\ pool \in Nat
  /\ wire \in [Port -> Nat]

\* Lcore l has packets for port p, or is in rte_eth_tx_burst with them.
Sends(l, p) == len[l][p] > 0 \/ (burst[l] # Null /\ burst[l].port = p)

\* "Each logical core is assigned a dedicated TX queue on each port": there is
\* one queue per port only, and no two lcores are ever about to use the same, or
\* to write the same statistics.  Nor does any lcore receive from another's port.
OneSender ==
  \A l, k \in Lcore : l # k =>
    /\ rxPorts[l] \cap rxPorts[k] = {}
    /\ \A p \in Port : ~(Sends(l, p) /\ Sends(k, p))

\* A buffer is full only while it is being sent: whatever the other lcores and the
\* driver do, the next packet has a place in the table m_table.
WithinTable ==
  \A l \in Lcore, p \in Port :
    /\ len[l][p] <= MaxPktBurst
    /\ len[l][p] = MaxPktBurst => burst[l] # Null /\ burst[l].port = p

\* How many mbufs the lcores hold for port p, and from port p.
Buffered(p) == Total([l \in Lcore |-> len[l][p]])
Unsorted(p) ==
  Total([l \in Lcore |-> IF batch[l].port = p THEN batch[l].n ELSE 0])

\* Every packet received is sent or dropped on the port paired with its own, or
\* on the way there, and every mbuf is in one place.
Accounted ==
  /\ \A p \in started : LET d == dst[p] IN
       stats[p].rx = stats[d].tx + stats[d].dropped + Buffered(d) + Unsorted(p)
  /\ NbMbuf = pool + Total(wire) + Total([p \in Port |-> Buffered(p) + Unsorted(p)])

\* The buffer of a port does not wait for packets that may never come.
Drained ==
  \A l \in Lcore : (\E p \in Port : len[l][p] > 0) ~> (\A p \in Port : len[l][p] = 0)

\* "Check the link status of all ports in up to 9s, and print them finally": the
\* lcores are not launched before the links have been printed, whichever links come
\* up or go down between the rounds, and when none does at all.
LinksPrinted == main \in {"launch", "running"} => links.printed
=============================================================================
