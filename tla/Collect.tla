------------------------------- MODULE Collect -------------------------------
(***************************************************************************)
(* The first version of the tree (tree_rssi.c of Lab2 and Lab-1): parents  *)
(* are chosen as in ParentSelection, but at a constant beacon interval and *)
(* without keepalives, and every mote sends its data to its parent, which  *)
(* sends them on from within the callback that receives them.  A mote      *)
(* keeps no packet and a packet carries no hop count, so what becomes of   *)
(* it is decided by the parents that the motes have while it travels.      *)
(***************************************************************************)
EXTENDS Integers, Sequences

CONSTANTS
  Node, Root, NoNode, NoBeacon, Rssi, NoRoute, MaxNeighbors,
  MaxFaults,    \* bound: motes that lose power
  Source        \* the motes whose data are followed

ASSUME SourceAssumption == Source \subseteq Node \ {Root}

VARIABLES
  up, preferred_parent_list, best_parent_id, my_path_rssi, air, faults,
  flight        \* flight[o]: the mote to which the packet of o is on its way, or NoNode

tree == <<up, preferred_parent_list, best_parent_id, my_path_rssi, air, faults>>
vars == <<tree, flight>>

Tree == INSTANCE ParentSelection WITH
          TrickleMin <- 1, TrickleMax <- 1, trickle_interval <- [n \in Node |-> 1]

ASSUME TreeAssumption ==
  /\ Tree!NodeAssumption /\ Tree!RssiAssumption /\ Tree!NoRouteAssumption
  /\ Tree!NoBeaconAssumption /\ Tree!BoundAssumption

Init == Tree!Init /\ flight = [o \in Source |-> NoNode]

-----------------------------------------------------------------------------
broadcast_rssi(n) == Tree!broadcast_rssi(n) /\ UNCHANGED flight
register_parent(n, m, rssi) == Tree!register_parent(n, m, rssi) /\ UNCHANGED flight

\* Where unicast_send takes a packet from n; nowhere without a parent.
NextHop(n) == best_parent_id[n]

\* The timer of send_unicast_data expires.  (The next packet of o is sent when
\* the last one is gone, which takes less than 10 s but for a packet that
\* goes round; there another packet would only do the same.)
send_unicast_data(o) ==
  /\ up[o]
  /\ flight[o] = NoNode
  /\ flight' = [flight EXCEPT ![o] = NextHop(o)]
  /\ UNCHANGED tree

\* recv_uc sends what it receives to the parent, and the root, which has none,
\* keeps it.
recv_uc(n, o) ==
  /\ up[n]
  /\ flight[o] = n
  /\ flight' = [flight EXCEPT ![o] = NextHop(n)]
  /\ UNCHANGED tree

\* The radio loses a packet, as it does each packet for a mote without power.
Lose(n, o) ==
  /\ flight[o] = n
  /\ flight' = [flight EXCEPT ![o] = NoNode]
  /\ UNCHANGED tree

Crash(n) == Tree!Crash(n) /\ UNCHANGED flight
Restart(n) == Tree!Restart(n) /\ UNCHANGED flight

Next ==
  \/ \E n \in Node : broadcast_rssi(n)
  \/ \E n, m \in Node : \E rssi \in Rssi[m][n] : register_parent(n, m, rssi)
  \/ \E o \in Source : send_unicast_data(o)
  \/ \E n \in Node : \E o \in Source : recv_uc(n, o)
  \/ \E n \in Node : \E o \in Source : Lose(n, o)
  \/ \E n \in Node : Crash(n)
  \/ \E n \in Node : Restart(n)

Spec == Init /\ [][Next]_vars

\* Timers run, a packet on its way arrives or is lost, and a link in range
\* loses beacons and packets but not all of them.
Fairness ==
  /\ \A n \in Node : WF_vars(broadcast_rssi(n))
  /\ \A n, m \in Node : WF_vars(\E rssi \in Rssi[m][n] : register_parent(n, m, rssi))
  /\ \A o \in Source :
       /\ WF_vars(send_unicast_data(o) /\ flight' # flight)
       /\ \A n \in Node : WF_vars(recv_uc(n, o) \/ Lose(n, o)) /\ SF_vars(recv_uc(n, o))

FairSpec == Spec /\ Fairness

-----------------------------------------------------------------------------
\* The variables of the tree stay in the ranges of ParentSelection, although no
\* entry expires, and packets go to motes only.
TypeOK ==
  /\ Tree!TypeOK
  /\ flight \in [Source -> Node \cup {NoNode}]

\* Until a mote has failed, no packet meets a mote that cannot send it on:
\* whoever is chosen for parent has a route, and keeps one, although the choice
\* rests on an old beacon and the packet travels while parents change.
NoDeadEnd ==
  faults = 0 => \A o \in Source :
    flight[o] \in {NoNode, Root} \/ best_parent_id[flight[o]] # NoNode

\* When the motes that failed come back, data keep arriving from every mote.
\* Entries are never dropped, and motes that rebooted may take a descendant for
\* parent, so that packets go round; but the beacons of the root break every
\* cycle, and no old entry draws the data of a mote away for good.
Arrives ==
  <>[](\A n \in Node : up[n]) => \A o \in Source : []<><<recv_uc(Root, o)>>_vars
===============================================================================
