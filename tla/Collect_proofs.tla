----------------------------- MODULE Collect_proofs ----------------------------
(***************************************************************************)
(* Proofs about the first version of the tree.  What is proved of the      *)
(* tables and metrics of ParentSelection holds of it too, since each of    *)
(* its steps is a step of ParentSelection with a constant interval; the    *)
(* rest is about the packets that travel on the tree.                      *)
(***************************************************************************)
EXTENDS Collect, TLAPS

Facts == INSTANCE ParentSelection_proofs WITH
           TrickleMin <- 1, TrickleMax <- 1, trickle_interval <- [n \in Node |-> 1]

LEMMA FactsAssumption ==
  /\ Facts!NodeAssumption /\ Facts!RssiAssumption /\ Facts!NoRouteAssumption
  /\ Facts!NoBeaconAssumption /\ Facts!BoundAssumption
BY TreeAssumption
   DEF Tree!NodeAssumption, Tree!RssiAssumption, Tree!NoRouteAssumption,
       Tree!NoBeaconAssumption, Tree!BoundAssumption,
       Facts!NodeAssumption, Facts!RssiAssumption, Facts!NoRouteAssumption,
       Facts!NoBeaconAssumption, Facts!BoundAssumption

-----------------------------------------------------------------------------
(***************************************************************************)
(* Collect takes the steps of ParentSelection.                             *)
(***************************************************************************)
LEMMA InitIsTrees == Init => Facts!Init
BY DEF Init, Tree!Init, Facts!Init, Tree!BootMetric, Facts!BootMetric

LEMMA BeaconIsTrees ==
  ASSUME NEW n \in Node, broadcast_rssi(n)
  PROVE  Facts!broadcast_rssi(n)
BY DEF broadcast_rssi, Tree!broadcast_rssi, Facts!broadcast_rssi,
       Tree!DoubledInterval, Facts!DoubledInterval

LEMMA RegisterIsTrees ==
  ASSUME NEW n \in Node, NEW m \in Node, NEW rssi \in Rssi[m][n], register_parent(n, m, rssi)
  PROVE  Facts!register_parent(n, m, rssi)
<1>1. \A list, k : Tree!Known(list, k) <=> Facts!Known(list, k)
  BY DEF Tree!Known, Facts!Known
<1>2. \A list, k, sum : Tree!Refreshed(list, k, sum) = Facts!Refreshed(list, k, sum)
  BY DEF Tree!Refreshed, Facts!Refreshed, Tree!Known, Facts!Known, Tree!Cons, Facts!Cons
<1>3. \A list : \A i \in DOMAIN list : Tree!Eligible(list[i]) <=> Facts!Eligible(list[i])
  BY DEF Tree!Eligible, Facts!Eligible
<1>4. \A list : \A i \in DOMAIN list : Tree!Wins(list, i) <=> Facts!Wins(list, i)
  BY <1>3 DEF Tree!Wins, Facts!Wins
<1>5. ASSUME NEW list, Tree!SelectParent(n, list) PROVE Facts!SelectParent(n, list)
  BY <1>3, <1>4, <1>5 DEF Tree!SelectParent, Facts!SelectParent
<1> QED
  BY <1>1, <1>2, <1>5 DEF register_parent, Tree!register_parent, Facts!register_parent

LEMMA CrashIsTrees ==
  ASSUME NEW n \in Node, Crash(n)
  PROVE  Facts!Crash(n)
BY DEF Crash, Tree!Crash, Facts!Crash, Tree!BootMetric, Facts!BootMetric

LEMMA RestartIsTrees ==
  ASSUME NEW n \in Node, Restart(n)
  PROVE  Facts!Restart(n)
BY DEF Restart, Tree!Restart, Facts!Restart

\* A step of the packets.
Travel ==
  \/ \E o \in Source : send_unicast_data(o)
  \/ \E n \in Node : \E o \in Source : recv_uc(n, o) \/ Lose(n, o)

LEMMA NextIsTrees == [Next]_vars => [Facts!Next]_(Facts!vars)
<1> SUFFICES ASSUME [Next]_vars PROVE [Facts!Next]_(Facts!vars)
  OBVIOUS
<1>1. ASSUME NEW n \in Node, broadcast_rssi(n) PROVE Facts!Next
  BY <1>1, BeaconIsTrees DEF Facts!Next
<1>2. ASSUME NEW n \in Node, NEW m \in Node, NEW rssi \in Rssi[m][n], register_parent(n, m, rssi)
      PROVE  Facts!Next
  BY <1>2, RegisterIsTrees DEF Facts!Next
<1>3. ASSUME NEW n \in Node, Crash(n) PROVE Facts!Next
  BY <1>3, CrashIsTrees DEF Facts!Next
<1>4. ASSUME NEW n \in Node, Restart(n) PROVE Facts!Next
  BY <1>4, RestartIsTrees DEF Facts!Next
<1>5. ASSUME UNCHANGED tree PROVE UNCHANGED Facts!vars
  BY <1>5 DEF tree, Facts!vars
<1>6. CASE Travel
  BY <1>5, <1>6 DEF Travel, send_unicast_data, recv_uc, Lose
<1>7. CASE UNCHANGED vars
  BY <1>5, <1>7 DEF vars
<1> QED
  BY <1>1, <1>2, <1>3, <1>4, <1>6, <1>7 DEF Next, Travel

LEMMA SpecIsTrees == Spec => Facts!Spec
BY InitIsTrees, NextIsTrees, PTL DEF Spec, Facts!Spec

-----------------------------------------------------------------------------
\* The variables of the tree stay in their ranges although no entry expires, and
\* packets go to motes only.
THEOREM TypeCorrect == Spec => []TypeOK
<1> DEFINE FlightOK == flight \in [Source -> Node \cup {NoNode}]
<1>1. Spec => []Facts!TypeOK
  BY SpecIsTrees, Facts!TypeCorrect, FactsAssumption, PTL
<1>2. Facts!TypeOK /\ FlightOK => TypeOK
  BY DEF TypeOK, Tree!TypeOK, Facts!TypeOK, Tree!Entry, Facts!Entry, Tree!Metric, Facts!Metric
<1>3. Init => FlightOK
  BY DEF Init
<1>4. Facts!TypeOK /\ FlightOK /\ [Next]_vars => FlightOK'
  <2> SUFFICES ASSUME Facts!TypeOK, FlightOK, [Next]_vars PROVE FlightOK'
    OBVIOUS
  <2>1. best_parent_id \in [Node -> Node \cup {NoNode}] /\ Source \subseteq Node
    BY SourceAssumption DEF Facts!TypeOK
  <2>2. CASE Travel
    BY <2>1, <2>2 DEF Travel, send_unicast_data, recv_uc, Lose, NextHop
  <2>3. CASE UNCHANGED flight
    BY <2>3
  <2> QED
    BY <2>2, <2>3 DEF Next, Travel, broadcast_rssi, register_parent, Crash, Restart, vars
<1> QED
  BY <1>1, <1>2, <1>3, <1>4, PTL DEF Spec

\* What the metrics do in a step: see NeverWorse of ParentSelection.
NoWorse == faults' = 0 => \A n \in Node : my_path_rssi[n] =< my_path_rssi'[n]

\* Over links that attenuate, and until a mote has failed, a packet always goes
\* to the root or to a mote with a parent: the metric rises along parents, so a
\* parent has a route, and it never gets worse, so the parent keeps one.
THEOREM PacketsFindParents == ASSUME Facts!StaticLinks PROVE Spec => []NoDeadEnd
<1>1. Spec => [](TypeOK /\ Facts!TypeOK /\ Facts!RouteIffParent /\ Facts!PathRises)
  BY SpecIsTrees, TypeCorrect, Facts!TypeCorrect, Facts!AdvertisesOnlyRoutes,
     Facts!MetricRisesTowardsRoot, FactsAssumption, PTL
<1>2. Spec => [][NoWorse]_(Facts!vars)
  BY SpecIsTrees, Facts!MetricNeverWorsens, FactsAssumption, PTL DEF Facts!NeverWorse, NoWorse
<1>3. Init => NoDeadEnd
  BY DEF Init, NoDeadEnd
<1>4. /\ TypeOK /\ Facts!TypeOK /\ Facts!RouteIffParent /\ Facts!PathRises
      /\ (Facts!TypeOK /\ Facts!RouteIffParent)'
      /\ [NoWorse]_(Facts!vars) /\ [Next]_vars /\ NoDeadEnd
      => NoDeadEnd'
  <2> SUFFICES ASSUME TypeOK, Facts!TypeOK, Facts!RouteIffParent, Facts!PathRises,
                      Facts!TypeOK', Facts!RouteIffParent',
                      [NoWorse]_(Facts!vars), [Next]_vars, NoDeadEnd, faults' = 0,
                      NEW o \in Source
               PROVE  flight'[o] \in {NoNode, Root} \/ best_parent_id'[flight'[o]] # NoNode
    BY DEF NoDeadEnd
  <2>1. /\ my_path_rssi \in [Node -> NoRoute .. 0] /\ my_path_rssi' \in [Node -> NoRoute .. 0]
        /\ best_parent_id \in [Node -> Node \cup {NoNode}] /\ NoRoute \in Int
        /\ flight \in [Source -> Node \cup {NoNode}]
    BY FactsAssumption DEF TypeOK, Facts!TypeOK, Facts!NoRouteAssumption
  <2>2. faults = 0
    <3>1. faults \in Nat /\ faults' \in Nat
      BY FactsAssumption DEF Facts!TypeOK, Facts!BoundAssumption
    <3>2. CASE UNCHANGED faults
      BY <3>2
    <3>3. ASSUME NEW n \in Node, Crash(n) PROVE FALSE
      BY <3>1, <3>3 DEF Crash, Tree!Crash
    <3>4. CASE UNCHANGED vars
      BY <3>2, <3>4 DEF vars, tree
    <3>5. CASE Travel
      BY <3>2, <3>5 DEF Travel, send_unicast_data, recv_uc, Lose, tree
    <3>6. ASSUME NEW n \in Node, NEW m \in Node, NEW rssi \in Rssi[m][n], register_parent(n, m, rssi)
          PROVE  UNCHANGED faults
      BY <3>6 DEF register_parent, Tree!register_parent
    <3> QED
      BY <3>2, <3>3, <3>4, <3>5, <3>6
         DEF Next, Travel, broadcast_rssi, Tree!broadcast_rssi, Restart, Tree!Restart
  <2>3. CASE UNCHANGED flight
    <3> SUFFICES ASSUME flight[o] \notin {NoNode, Root}
                 PROVE  best_parent_id'[flight[o]] # NoNode
      BY <2>3
    <3> DEFINE n == flight[o]
    <3>1. n \in Node \ {Root} /\ best_parent_id[n] # NoNode
      BY <2>1, <2>2 DEF NoDeadEnd
    <3>2. NoRoute < my_path_rssi[n]
      BY <3>1 DEF Facts!RouteIffParent
    <3>3. my_path_rssi[n] =< my_path_rssi'[n]
      <4>1. CASE NoWorse
        BY <3>1, <4>1 DEF NoWorse
      <4>2. CASE UNCHANGED Facts!vars
        <5>1. my_path_rssi' = my_path_rssi /\ my_path_rssi[n] \in Int
          BY <2>1, <3>1, <4>2 DEF Facts!vars
        <5> QED
          BY <5>1
      <4> QED
        BY <4>1, <4>2
    <3>4. NoRoute < my_path_rssi'[n]
      <4>1. my_path_rssi[n] \in Int /\ my_path_rssi'[n] \in Int
        BY <2>1, <3>1
      <4> QED
        BY <2>1, <3>2, <3>3, <4>1
    <3> QED
      BY <3>1, <3>4 DEF Facts!RouteIffParent
  <2>4. CASE Travel
    <3>1. UNCHANGED tree
      BY <2>4 DEF Travel, send_unicast_data, recv_uc, Lose
    <3>2. flight'[o] \in {flight[o], NoNode} \/ \E n \in Node : flight'[o] = best_parent_id[n]
      BY <2>1, <2>4, SourceAssumption DEF Travel, send_unicast_data, recv_uc, Lose, NextHop
    <3>3. CASE flight'[o] \in {flight[o], NoNode}
      BY <2>2, <3>1, <3>3 DEF NoDeadEnd, tree
    <3>4. ASSUME NEW n \in Node, flight'[o] = best_parent_id[n], flight'[o] \notin {NoNode, Root}
          PROVE  best_parent_id[flight'[o]] # NoNode
      <4> DEFINE p == flight'[o]
      <4>1. p \in Node \ {Root} /\ n # Root
        BY <2>1, <3>4 DEF Facts!RouteIffParent
      <4>2. PICK rssi \in Rssi[p][n] : my_path_rssi[n] =< my_path_rssi[p] + rssi
        BY <2>2, <3>4 DEF Facts!PathRises
      <4>3. rssi \in Int /\ rssi < 0
        BY <4>1, FactsAssumption DEF Facts!StaticLinks, Facts!RssiAssumption
      <4>4. NoRoute < my_path_rssi[n]
        BY <3>4, <4>1 DEF Facts!RouteIffParent
      <4>5. my_path_rssi[n] \in Int /\ my_path_rssi[p] \in Int
        BY <2>1, <4>1
      <4>6. NoRoute < my_path_rssi[p]
        BY <2>1, <4>2, <4>3, <4>4, <4>5
      <4> QED
        BY <4>1, <4>6 DEF Facts!RouteIffParent
    <3> QED
      BY <3>1, <3>2, <3>3, <3>4 DEF tree
  <2> QED
    BY <2>3, <2>4 DEF Next, Travel, broadcast_rssi, register_parent, Crash, Restart, vars
<1> QED
  BY <1>1, <1>2, <1>3, <1>4, PTL DEF Spec
===============================================================================
