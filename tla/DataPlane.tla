------------------------------- MODULE DataPlane -------------------------------
(***************************************************************************)
(* Data packets on top of the routing tables.  The mote Origen generates   *)
(* numbered packets for the mote Destino; each mote files what it receives *)
(* in pkt_list, and one process drains the list: a packet is delivered,    *)
(* sent down to the child Search_forwarder names, sent up to the parent,   *)
(* or dropped.  The sink counts the packets that pass it.                  *)
(*                                                                         *)
(* The actions of RoutingTable are interleaved with those of the packets.  *)
(* The two meet in routing_tree and best_parent_id, in the event queue,    *)
(* which their processes share, and in a reboot.                           *)
(***************************************************************************)
EXTENDS Integers, Sequences, FiniteSets, SequencesExt

CONSTANTS
  Node, Root, NoNode, NoTable, Candidates, QueueSize, MaxChanges,
  MaxTreeNodes, MaxChildren, SerialBuf,
  Origen,        \* ORIGEN, 8
  Destino,       \* DESTINO, 17
  CounterSize,   \* 2^16, values of a uint16_t
  PoolSize,      \* blocks in MEMB(pkt_mem), 10
  MaxInFlight,   \* packets the MAC layer holds for one neighbour
  TableQuota,    \* bound: table events that wait at one mote
  MaxPackets     \* bound: packets generated

ASSUME DataAssumption ==
  /\ Origen \in Node \ {Root}
  /\ Destino \in Node
  /\ CounterSize \in Nat \ {0}
  /\ PoolSize \in Nat \ {0}
  /\ MaxInFlight \in Nat \ {0}
  /\ QueueSize \in Nat
  /\ TableQuota \in 1 .. QueueSize
  /\ MaxPackets \in Nat

VARIABLES
  best_parent_id, routing_tree, ctrl, ctrl_payload, posted, changes, once,
  seq_num,     \* of generate_pkt_dst, at Origen
  pkt_list,    \* head of the linked list first
  pkt_mem,     \* pkt_mem[n]: blocks allocated
  routes,      \* routes[n]: ev_route_pkt events waiting at n
  data,        \* data[s][r]: packets on their way from s to r
  pkt_stats,   \* of the sink, for the packets of Origen
  generated,   \* history: packets generated, reboots of Origen included
  delivered    \* history: packets delivered, in order

Table == INSTANCE RoutingTable

ASSUME TableAssumption == Table!TreeLibAssumption /\ Table!RoutingAssumption

dataVars == <<seq_num, pkt_list, pkt_mem, routes, data, pkt_stats, generated, delivered>>
tableVars == <<best_parent_id, routing_tree, ctrl, ctrl_payload, posted, changes, once>>
vars == <<tableVars, dataVars>>

\* nth tells packets apart that have the same seq, and is not in the message.
Packet == [dst : Node, seq : 1 .. MaxPackets, nth : 1 .. MaxPackets]

NoStats == [seq_max |-> 0, received |-> 0]

Init ==
  /\ Table!Init
  /\ seq_num = 0
  /\ pkt_list = [n \in Node |-> << >>]
  /\ pkt_mem = [n \in Node |-> 0]
  /\ routes = [n \in Node |-> 0]
  /\ data = [s \in Node |-> [r \in Node |-> << >>]]
  /\ pkt_stats = NoStats
  /\ generated = 0
  /\ delivered = << >>

-----------------------------------------------------------------------------
\* The queue holds the events of both processes.
QueueFull(n) == posted[n] + routes[n] >= QueueSize

\* n allocates a block for pkt, pushes it and posts ev_route_pkt.  Without a
\* block the packet is lost; process_post fails unnoticed on a full queue.
Enqueue(n, pkt) ==
  IF pkt_mem[n] < PoolSize
  THEN /\ pkt_mem' = [pkt_mem EXCEPT ![n] = @ + 1]
       /\ pkt_list' = [pkt_list EXCEPT ![n] = Cons(pkt, @)]
       /\ routes' = [routes EXCEPT ![n] = IF QueueFull(n) THEN @ ELSE @ + 1]
  ELSE UNCHANGED <<pkt_mem, pkt_list, routes>>

\* The 20 to 30 s timer of Origen: a number is used up with or without a block.
generate_pkt_dst ==
  /\ generated < MaxPackets
  /\ generated' = generated + 1
  /\ seq_num' = seq_num + 1
  /\ Enqueue(Origen, [dst |-> Destino, seq |-> seq_num + 1, nth |-> generated + 1])
  /\ UNCHANGED <<tableVars, data, pkt_stats, delivered>>

\* Slip: seq_max is the number of the last packet.
CountedLast(seq) == [seq_max |-> seq, received |-> (pkt_stats.received + 1) % CounterSize]

\* The entry of the source after a packet; MAX_PKT_SOURCES leaves room for
\* the one source there is.
Counted(seq) ==
  [seq_max  |-> IF seq > pkt_stats.seq_max THEN seq ELSE pkt_stats.seq_max,
   received |-> (pkt_stats.received + 1) % CounterSize]

\* recv_uc for U_DATA.
recv_uc_data(n, s) ==
  /\ data[s][n] # << >>
  /\ data' = [data EXCEPT ![s][n] = Tail(@)]
  /\ pkt_stats' = IF n = Root THEN Counted(Head(data[s][n]).seq) ELSE pkt_stats
  /\ Enqueue(n, Head(data[s][n]))
  /\ UNCHANGED <<tableVars, seq_num, generated, delivered>>

\* Slip: the packet is looked up in the table before it is compared with
\* my_id, and goes up when the table does not name its destination.
NextHopOfAnyone(n, dst) ==
  LET forwarder == Table!Search_forwarder(routing_tree[n], n, dst)
  IN  IF forwarder # Table!Upstream THEN forwarder ELSE best_parent_id[n]

\* Slip: a mote with a parent leaves the routing to it.
NextHopUp(n, dst) ==
  IF n = dst THEN n
  ELSE IF best_parent_id[n] # NoNode THEN best_parent_id[n]
  ELSE Table!Search_forwarder(routing_tree[n], n, dst)

\* Where n takes a packet for dst: n itself (delivery), a neighbour, or NoNode
\* (no valid parent: the packet is dropped).
NextHop(n, dst) ==
  LET forwarder == Table!Search_forwarder(routing_tree[n], n, dst)
  IN  IF n = dst THEN n
      ELSE IF forwarder # Table!Upstream THEN forwarder
      ELSE best_parent_id[n]

\* The loop of routing_upstream_downstream at n, a packet a round: to[r] holds
\* the packets n takes to r, in their order.
Hops(n) == [i \in DOMAIN pkt_list[n] |-> <<NextHop(n, pkt_list[n][i].dst), pkt_list[n][i]>>]
Route(to, step) == [to EXCEPT ![step[1]] = Append(@, step[2])]
Routed(n) == FoldLeft(Route, [r \in Node \cup {NoNode} |-> << >>], Hops(n))

\* Slips: one packet per event; the block of a dropped packet is not freed;
\* the packet stays in the list.
OnePerEvent(n) ==
  /\ pkt_list' = [pkt_list EXCEPT ![n] = IF @ = << >> THEN @ ELSE Tail(@)]
  /\ pkt_mem' = [pkt_mem EXCEPT ![n] = IF @ = 0 THEN @ ELSE @ - 1]
LeakedDrops(n) ==
  /\ pkt_list' = [pkt_list EXCEPT ![n] = << >>]
  /\ pkt_mem' = [pkt_mem EXCEPT ![n] = Len(Routed(n)[NoNode])]
KeptInList(n) == UNCHANGED <<pkt_list, pkt_mem>>

\* The loop takes every packet from the list and frees its block.
Drain(n) ==
  /\ pkt_list' = [pkt_list EXCEPT ![n] = << >>]
  /\ pkt_mem' = [pkt_mem EXCEPT ![n] = @ - Len(pkt_list[n])]

\* One event drains the list, the newest packet first.  What the MAC layer
\* has no room for is lost.  (\E only binds the outcome of the loop.  A search
\* that does not return, SearchReturns of RoutingTable, never leaves this step.)
routing_upstream_downstream(n) ==
  /\ routes[n] > 0
  /\ \A i \in DOMAIN pkt_list[n] : NextHop(n, pkt_list[n][i].dst) # Table!Diverges
  /\ routes' = [routes EXCEPT ![n] = @ - 1]
  /\ Drain(n)
  /\ \E to \in {Routed(n)} :
       /\ delivered' = delivered \o to[n]
       /\ data' = [data EXCEPT ![n] = [r \in Node |->
            IF r = n THEN << >> ELSE Table!FirstFew(data[n][r] \o to[r], MaxInFlight)]]
  /\ UNCHANGED <<tableVars, seq_num, pkt_stats, generated>>

\* The radio loses a packet.
LosePacket(s, r) ==
  /\ data[s][r] # << >>
  /\ data' = [data EXCEPT ![s][r] = Tail(@)]
  /\ UNCHANGED <<tableVars, seq_num, pkt_list, pkt_mem, routes, pkt_stats, generated, delivered>>

\* A reboot also clears what this module adds, and loses what is on its way
\* to the mote.
RebootMote(n) ==
  /\ Table!Reboot(n)
  /\ seq_num' = IF n = Origen THEN 0 ELSE seq_num
  /\ pkt_list' = [pkt_list EXCEPT ![n] = << >>]
  /\ pkt_mem' = [pkt_mem EXCEPT ![n] = 0]
  /\ routes' = [routes EXCEPT ![n] = 0]
  /\ data' = [s \in Node |-> [data[s] EXCEPT ![n] = << >>]]
  /\ pkt_stats' = IF n = Root THEN NoStats ELSE pkt_stats
  /\ UNCHANGED <<generated, delivered>>

TakeParent(n, p) == UNCHANGED dataVars /\ Table!ChooseParent(n, p)
DropParent(n) == UNCHANGED dataVars /\ Table!LoseParent(n)
send_table(n) == UNCHANGED dataVars /\ Table!send_routing_table(n)
update_table(n) == posted[n] > 0 /\ UNCHANGED dataVars /\ Table!update_routing_table(n)

\* Tables are 15 s apart and an event waits for milliseconds, so few of them
\* wait at once.
recv_uc_control(n, s) ==
  /\ posted[n] < TableQuota
  /\ ctrl[s][n] # NoTable
  /\ UNCHANGED dataVars
  /\ Table!recv_uc(n, s, QueueFull(n))

Next ==
  \/ generate_pkt_dst
  \/ \E n, s \in Node : recv_uc_data(n, s)
  \/ \E n \in Node : routing_upstream_downstream(n)
  \/ \E s, r \in Node : LosePacket(s, r)
  \/ \E n \in Node : RebootMote(n)
  \/ \E n, s \in Node : recv_uc_control(n, s)
  \/ \E n \in Node : \E p \in Candidates[n] : TakeParent(n, p)
  \/ \E n \in Node : DropParent(n)
  \/ \E n \in Node : send_table(n)
  \/ \E n \in Node : update_table(n)

Spec == Init /\ [][Next]_vars

-----------------------------------------------------------------------------
(***************************************************************************)
(* Fairness.  Motes find a parent again, timers run, a posted event is     *)
(* handled, a packet at the head of a link arrives or is lost, and the     *)
(* tables of no child are always the ones that have to wait.               *)
(***************************************************************************)
Fairness ==
  /\ \A n \in Node : WF_vars(routing_upstream_downstream(n))
  /\ \A n \in Node \ {Root} :
       /\ WF_vars(best_parent_id[n] = NoNode /\ \E p \in Candidates[n] : TakeParent(n, p))
       /\ WF_vars(send_table(n))
  /\ \A s \in Node : \A n \in Candidates[s] :
       /\ SF_vars(recv_uc_control(n, s))
       /\ WF_vars(update_table(n))
       /\ WF_vars(recv_uc_data(n, s) \/ LosePacket(s, n))
       /\ WF_vars(recv_uc_data(s, n) \/ LosePacket(n, s))

FairSpec == Spec /\ Fairness

-----------------------------------------------------------------------------
\* Where the k-th packet is: in lists, on links, and among the delivered.
Listed(k) == UNION { { <<n, i>> : i \in { j \in DOMAIN pkt_list[n] : pkt_list[n][j].nth = k } } :
                     n \in Node }
OnLinks(k) == UNION { { <<l, i>> : i \in { j \in DOMAIN data[l[1]][l[2]] :
                                           data[l[1]][l[2]][j].nth = k } } :
                      l \in Node \X Node }
Delivered(k) == { i \in DOMAIN delivered : delivered[i].nth = k }
InTransit(k) == Listed(k) # {} \/ OnLinks(k) # {}

\* Lists, links and counters stay within the pool and their bounds.
TypeOK ==
  /\ Table!TypeOK
  /\ seq_num \in 0 .. MaxPackets
  /\ \A n \in Node : pkt_list[n] \in Seq(Packet) /\ Len(pkt_list[n]) =< PoolSize
  /\ pkt_mem \in [Node -> 0 .. PoolSize]
  /\ \A n \in Node : routes[n] >= 0 /\ posted[n] + routes[n] =< QueueSize
  /\ \A s, r \in Node : data[s][r] \in Seq(Packet) /\ Len(data[s][r]) =< MaxInFlight
  /\ pkt_stats \in [seq_max : 0 .. MaxPackets, received : 0 .. CounterSize - 1]
  /\ generated \in 0 .. MaxPackets

\* A block is allocated exactly for the packets in the list: no way through the
\* loop of routing_upstream_downstream leaks one, in ten of which a mote would
\* go deaf to data.
BlocksAreListed == \A n \in Node : pkt_mem[n] = Len(pkt_list[n])

\* A packet is in one place: tables that change under it, ping-pong between two
\* motes and reboots move it or lose it and never copy it; it is delivered once.
OnePlace ==
  \A k \in 1 .. generated :
    Cardinality(Listed(k)) + Cardinality(OnLinks(k)) + Cardinality(Delivered(k)) =< 1

\* A packet that waits has an event that will find it, although process_post
\* fails for some: the event of another packet drains the list.  (If tables
\* alone can fill the queue, a packet is stranded until the next one comes.)
NeverStranded ==
  TableQuota < QueueSize => \A n \in Node : pkt_list[n] # << >> => routes[n] > 0

\* What the loss table of the sink prints is a number of lost packets: no
\* more were received than sent, in whatever order they came, as long as
\* nothing reboots and parents stay.
LossWithinSent ==
  changes = 0 => pkt_stats.received =< pkt_stats.seq_max /\ pkt_stats.seq_max =< seq_num

\* The same, come what may: lost = seq_max - received does not wrap around.
LossNotNegative == pkt_stats.received =< pkt_stats.seq_max

\* n, its parent, the parent's parent and so on; the distance of two motes in
\* the tree of parents.
Ancestors(n) == { c \in Node : Table!Below(n, c) }
Distance(m, n) ==
  Cardinality(Ancestors(m) \ Ancestors(n)) + Cardinality(Ancestors(n) \ Ancestors(m))

\* Every mote has a parent, no table holds an edge that is gone, and the table of
\* every mote above the Destino names the child that leads to it.
Connected ==
  /\ \A n \in Node \ {Root} : best_parent_id[n] # NoNode
  /\ \A n \in Node : \A e \in Table!Edges(routing_tree[n]) : best_parent_id[e[2]] = e[1]
  /\ \A c \in Ancestors(Destino) \ {Root} :
       Table!Search_forwarder(routing_tree[best_parent_id[c]], best_parent_id[c], Destino) = c

\* Then no packet is dropped for want of a route, and each one is sent a hop
\* closer to the Destino from wherever the tables of the past have led it:
\* table and parent of a mote never send it back and forth.  (A stale edge can
\* send it down a branch the Destino has left.)
EveryHopCloser ==
  Connected => \A n \in Node \ {Destino} :
    /\ NextHop(n, Destino) # NoNode
    /\ Distance(NextHop(n, Destino), Destino) < Distance(n, Destino)

\* No packet circulates for ever: what routing_upstream_downstream sends up
\* because a rebooted mote does not know its children, and its parent sends
\* down again, comes to rest once update_routing_table has rebuilt the table.
TransitEnds == \A k \in 1 .. MaxPackets : InTransit(k) ~> ~ InTransit(k)

\* The tables become complete, as in RoutingTable alone, also when the events of
\* packets crowd those of the tables out of the queue.
TablesComplete == Table!TablesComplete
===============================================================================
