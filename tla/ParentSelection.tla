--------------------------- MODULE ParentSelection ---------------------------
(***************************************************************************)
(* The upstream half of the RSSI tree: how a mote chooses its preferred    *)
(* parent.  Every mote broadcasts a beacon that carries the accumulated    *)
(* RSSI of its own path to the root; a mote that hears one adds the RSSI   *)
(* of the link, files the sum in preferred_parent_list and re-selects the  *)
(* neighbour with the best (largest negative) sum.  A keepalive timer per  *)
(* neighbour drops the entries that are not refreshed.  The protocol is a  *)
(* distance-vector protocol without sequence numbers or split horizon.     *)
(*                                                                         *)
(* Variables and actions carry the names of Lab3/tree_rssi_remote.c.  A    *)
(* callback or a pass through a process loop runs to completion on         *)
(* Contiki, so each one is an action.                                      *)
(***************************************************************************)
EXTENDS Integers, Sequences, SequencesExt

CONSTANTS
  Node,          \* the motes
  Root,          \* the mote whose address is 1
  NoNode,        \* linkaddr_null
  NoBeacon,      \* nothing in flight on a link
  Rssi,          \* Rssi[s][r]: the RSSI values r can measure for a beacon of s;
                 \* {} when s is out of the range of r
  NoRoute,       \* -1000, "no valid route yet"
  MaxNeighbors,  \* blocks in MEMB(preferred_parent_mem), 10
  TrickleMin,    \* TRICKLE_MIN
  TrickleMax,    \* TRICKLE_MAX
  MaxFaults      \* bound: crashes plus expiries of neighbours that are alive

ASSUME NodeAssumption ==
  /\ Root \in Node
  /\ NoNode \notin Node
ASSUME RssiAssumption ==   \* int8_t; a mote does not hear itself
  /\ Rssi \in [Node -> [Node -> SUBSET (-128 .. 127)]]
  /\ \A n \in Node : Rssi[n][n] = {}
ASSUME NoRouteAssumption == NoRoute \in Int /\ NoRoute < 0
ASSUME NoBeaconAssumption == NoBeacon \notin Int
ASSUME BoundAssumption ==
  /\ MaxNeighbors \in Nat \ {0}
  /\ TrickleMin \in Nat \ {0}
  /\ TrickleMax \in Nat
  /\ TrickleMin =< TrickleMax
  /\ MaxFaults \in Nat

VARIABLES
  up,                     \* up[n]: n has power
  preferred_parent_list,  \* head of the linked list first
  best_parent_id,
  my_path_rssi,
  trickle_interval,
  air,                    \* air[s][r]: the beacon of s that r has not heard yet
  faults                  \* faults so far, at most MaxFaults

vars == <<up, preferred_parent_list, best_parent_id, my_path_rssi,
          trickle_interval, air, faults>>

-----------------------------------------------------------------------------
(***************************************************************************)
(* The table of candidate parents.                                         *)
(***************************************************************************)
Metric == (NoRoute - 128) .. 127      \* every sum of a metric and an RSSI
Entry == [id : Node, rssi_p : Metric]

Known(list, m) == \E i \in DOMAIN list : list[i].id = m

\* Slip: pushes without looking the neighbour up.
AlwaysPushed(list, m, sum) == Cons([id |-> m, rssi_p |-> sum], list)

\* The list after the beacon of m: an entry is refreshed where it stands, a
\* new one is pushed on the head of the list.
Refreshed(list, m, sum) ==
  IF Known(list, m)
  THEN [i \in DOMAIN list |-> IF list[i].id = m THEN [list[i] EXCEPT !.rssi_p = sum]
                                                 ELSE list[i]]
  ELSE Cons([id |-> m, rssi_p |-> sum], list)

\* Slip: -1000 is a metric like any other.
EligibleWithoutFloor(e) == e.rssi_p < 0

\* The test of the selection loop, whose best_path starts at -1000.
Eligible(e) == NoRoute < e.rssi_p /\ e.rssi_p < 0

\* Slip: stops at the first usable candidate.
WinsFirstUsable(list, i) ==
  Eligible(list[i]) /\ \A j \in 1 .. i - 1 : ~ Eligible(list[j])

\* list[i] is the winner of the selection loop: the first of the best.
Wins(list, i) ==
  /\ Eligible(list[i])
  /\ \A j \in DOMAIN list : Eligible(list[j]) =>
       /\ list[j].rssi_p =< list[i].rssi_p
       /\ j < i => list[j].rssi_p < list[i].rssi_p

\* Slip: only a better path replaces the one in use.
SelectParentIfBetter(n, list) ==
  IF n # Root /\ \E i \in DOMAIN list : Wins(list, i) /\ my_path_rssi[n] < list[i].rssi_p
  THEN \E i \in DOMAIN list :
         /\ Wins(list, i)
         /\ best_parent_id' = [best_parent_id EXCEPT ![n] = list[i].id]
         /\ my_path_rssi' = [my_path_rssi EXCEPT ![n] = list[i].rssi_p]
  ELSE UNCHANGED <<best_parent_id, my_path_rssi>>

SelectParent(n, list) ==
  IF n # Root /\ \E i \in DOMAIN list : Eligible(list[i])
  THEN \E i \in DOMAIN list :
         /\ Wins(list, i)
         /\ best_parent_id' = [best_parent_id EXCEPT ![n] = list[i].id]
         /\ my_path_rssi' = [my_path_rssi EXCEPT ![n] = list[i].rssi_p]
  ELSE UNCHANGED <<best_parent_id, my_path_rssi>>

-----------------------------------------------------------------------------
(***************************************************************************)
(* The processes and callbacks.                                            *)
(***************************************************************************)
\* Slip: my_path_rssi boots as zero everywhere.
BootMetricZero(n) == 0

BootMetric(n) == IF n = Root THEN 0 ELSE NoRoute

Init ==
  /\ up = [n \in Node |-> TRUE]
  /\ preferred_parent_list = [n \in Node |-> << >>]
  /\ best_parent_id = [n \in Node |-> NoNode]
  /\ my_path_rssi = [n \in Node |-> BootMetric(n)]
  /\ trickle_interval = [n \in Node |-> TrickleMin]
  /\ air = [s \in Node |-> [r \in Node |-> NoBeacon]]
  /\ faults = 0

\* Slip: the cap is tested before the doubling only.
DoubledIntervalUncapped(t) == IF t < TrickleMax THEN 2 * t ELSE t

DoubledInterval(t) ==
  IF t < TrickleMax THEN IF 2 * t > TrickleMax THEN TrickleMax ELSE 2 * t
                    ELSE t

\* The beacon timer of n expires.  A beacon that some neighbour has not heard
\* yet is superseded: that is how the model loses beacons.
broadcast_rssi(n) ==
  /\ up[n]
  /\ air' = [air EXCEPT ![n] = [r \in Node |->
                 IF Rssi[n][r] = {} \/ ~ up[r] THEN NoBeacon
                 ELSE IF n = Root THEN 0 ELSE my_path_rssi[n]]]
  /\ trickle_interval' = [trickle_interval EXCEPT ![n] = DoubledInterval(@)]
  /\ UNCHANGED <<up, preferred_parent_list, best_parent_id, my_path_rssi, faults>>

\* n hears the beacon of m at strength rssi.  A beacon of an unknown
\* neighbour is ignored when memb_alloc has no block left.
register_parent(n, m, rssi) ==
  /\ up[n]
  /\ air[m][n] # NoBeacon
  /\ air' = [air EXCEPT ![m][n] = NoBeacon]
  /\ IF Known(preferred_parent_list[n], m) \/ Len(preferred_parent_list[n]) < MaxNeighbors
     THEN LET list == Refreshed(preferred_parent_list[n], m, air[m][n] + rssi)
          IN  /\ preferred_parent_list' = [preferred_parent_list EXCEPT ![n] = list]
              /\ SelectParent(n, list)
     ELSE UNCHANGED <<preferred_parent_list, best_parent_id, my_path_rssi>>
  /\ UNCHANGED <<up, trickle_interval, faults>>

\* Slips: the parent is not invalidated; its metric is not.
LoseParentNot(n, m) == UNCHANGED <<best_parent_id, my_path_rssi>>
LoseParentKeepMetric(n, m) ==
  /\ best_parent_id' = [best_parent_id EXCEPT ![n] = IF @ = m THEN NoNode ELSE @]
  /\ UNCHANGED my_path_rssi

LoseParent(n, m) ==
  IF best_parent_id[n] = m
  THEN /\ best_parent_id' = [best_parent_id EXCEPT ![n] = NoNode]
       /\ my_path_rssi' = [my_path_rssi EXCEPT ![n] = NoRoute]
  ELSE UNCHANGED <<best_parent_id, my_path_rssi>>

\* Slip: the block is freed but stays linked.
StillListed(list, i) == list
Dropped(list, i) == RemoveAt(list, i)

\* The keepalive of the i-th entry of n expires.  For a neighbour that is
\* alive this takes a long run of lost beacons, and counts as a fault.
keepalive_expired(n, i) ==
  LET m == preferred_parent_list[n][i].id
  IN  /\ up[n]
      /\ IF up[m] THEN faults < MaxFaults /\ faults' = faults + 1
                  ELSE UNCHANGED faults
      /\ LoseParent(n, m)
      /\ preferred_parent_list' = [preferred_parent_list EXCEPT ![n] = Dropped(@, i)]
      /\ trickle_interval' = [trickle_interval EXCEPT ![n] = TrickleMin]
      /\ UNCHANGED <<up, air>>

\* n loses power, and with it everything it holds in RAM and the beacons it
\* could have heard.
Crash(n) ==
  /\ up[n]
  /\ faults < MaxFaults
  /\ faults' = faults + 1
  /\ up' = [up EXCEPT ![n] = FALSE]
  /\ preferred_parent_list' = [preferred_parent_list EXCEPT ![n] = << >>]
  /\ best_parent_id' = [best_parent_id EXCEPT ![n] = NoNode]
  /\ my_path_rssi' = [my_path_rssi EXCEPT ![n] = BootMetric(n)]
  /\ trickle_interval' = [trickle_interval EXCEPT ![n] = TrickleMin]
  /\ air' = [s \in Node |-> [air[s] EXCEPT ![n] = NoBeacon]]

\* n boots again, into the state Crash left.
Restart(n) ==
  /\ ~ up[n]
  /\ up' = [up EXCEPT ![n] = TRUE]
  /\ UNCHANGED <<preferred_parent_list, best_parent_id, my_path_rssi,
                 trickle_interval, air, faults>>

Next ==
  \/ \E n \in Node : broadcast_rssi(n)
  \/ \E n, m \in Node : \E rssi \in Rssi[m][n] : register_parent(n, m, rssi)
  \/ \E n \in Node : \E i \in DOMAIN preferred_parent_list[n] : keepalive_expired(n, i)
  \/ \E n \in Node : Crash(n)
  \/ \E n \in Node : Restart(n)

Spec == Init /\ [][Next]_vars

-----------------------------------------------------------------------------
(***************************************************************************)
(* Fairness.  The etimer of the beacon is always re-armed; a link in range *)
(* loses beacons but not all of them; the keepalive of a neighbour that is *)
(* gone runs out.  Crash and Restart are not fair, nor is the expiry of a  *)
(* neighbour that is alive.                                                *)
(***************************************************************************)
Fairness ==
  /\ \A n \in Node : WF_vars(broadcast_rssi(n))
  /\ \A n, m \in Node : WF_vars(\E rssi \in Rssi[m][n] : register_parent(n, m, rssi))
  /\ \A n, m \in Node :
       WF_vars(\E i \in DOMAIN preferred_parent_list[n] :
                 /\ preferred_parent_list[n][i].id = m
                 /\ ~ up[m]
                 /\ keepalive_expired(n, i))

FairSpec == Spec /\ Fairness

-----------------------------------------------------------------------------
(***************************************************************************)
(* Safety.                                                                 *)
(***************************************************************************)
\* The variables stay in the ranges of the C types that hold them: no sum of
\* a metric and an int8_t RSSI leaves the int16_t, and no list outgrows the
\* memb pool.  Lists hold no neighbour twice.
TypeOK ==
  /\ up \in [Node -> BOOLEAN]
  /\ preferred_parent_list \in [Node -> Seq(Entry)]
  /\ best_parent_id \in [Node -> Node \cup {NoNode}]
  /\ my_path_rssi \in [Node -> NoRoute .. 0]
  /\ trickle_interval \in [Node -> TrickleMin .. TrickleMax]
  /\ air \in [Node -> [Node -> (NoRoute .. 0) \cup {NoBeacon}]]
  /\ faults \in 0 .. MaxFaults

\* register_parent finds an entry before it allocates one, so the list holds a
\* neighbour once, and the pool of ten blocks is never exceeded.
NeighborsUnique ==
  \A n \in Node :
    LET list == preferred_parent_list[n]
    IN  /\ Len(list) =< MaxNeighbors
        /\ \A i, j \in DOMAIN list : list[i].id = list[j].id => i = j

\* A preferred parent always has an entry, hence a keepalive timer that can
\* take it back: no parent outlives its own entry (keepalive_expired clears
\* best_parent_id before list_remove).
ParentIsRegistered ==
  \A n \in Node : best_parent_id[n] # NoNode =>
    Known(preferred_parent_list[n], best_parent_id[n])

\* What n advertises and whom it forwards to agree: a mote other than the root
\* has a metric above -1000 exactly when it has a preferred parent, and the
\* root never has one.
RouteIffParent ==
  /\ \A n \in Node \ {Root} :
       (NoRoute < my_path_rssi[n]) <=> (best_parent_id[n] # NoNode)
  /\ best_parent_id[Root] = NoNode
  /\ my_path_rssi[Root] = 0

\* Between callbacks, a parent is the first of the best candidates in the list
\* and the advertised metric is that candidate's, although the selection runs
\* only when a beacon arrives and not when an entry is dropped.  The one
\* exception is a list without a usable candidate: the loop finds no winner
\* and leaves the old choice standing.
ParentIsBest ==
  \A n \in Node :
    LET list == preferred_parent_list[n]
    IN  /\ best_parent_id[n] # NoNode
        /\ \E i \in DOMAIN list : Eligible(list[i])
        => \E i \in DOMAIN list :
             /\ Wins(list, i)
             /\ list[i].id = best_parent_id[n]
             /\ list[i].rssi_p = my_path_rssi[n]

\* The links do not change and attenuate: one RSSI value per link, negative.
StaticLinks ==
  \A m, n \in Node : \A r1, r2 \in Rssi[m][n] : r1 = r2 /\ r1 < 0

\* While no mote has forgotten what it knew (no crash, no expiry of a live
\* neighbour), the metric rises towards the root by at least the RSSI of the
\* link, in every interleaving of lost and delayed beacons.
PathRises ==
  faults = 0 => \A n \in Node : best_parent_id[n] # NoNode =>
    \E rssi \in Rssi[best_parent_id[n]][n] :
      my_path_rssi[n] =< my_path_rssi[best_parent_id[n]] + rssi

\* Until then the preferred parents form a tree: no set of motes is closed
\* under "my parent", that is, following parents never goes in a circle.
NoParentCycle ==
  faults = 0 => \A S \in (SUBSET Node) \ {{}} : \E n \in S : best_parent_id[n] \notin S

-----------------------------------------------------------------------------
(***************************************************************************)
(* Actions and liveness.                                                   *)
(***************************************************************************)
\* Over static links and until something fails, a mote that has a route never
\* loses it and its metric never gets worse, whatever the order in which old
\* and new beacons arrive.
NeverWorse ==
  [][faults' = 0 => \A n \in Node : my_path_rssi[n] =< my_path_rssi'[n]]_vars

\* The whole program, tables, beacons and timers, only takes the steps of a
\* distance-vector protocol: over static links and until something fails, each
\* choice is backed by the metric that the parent has at that moment, although
\* the mote knows it from an old beacon.
DV == INSTANCE DistanceVector WITH
        parent <- best_parent_id, metric <- my_path_rssi, failed <- faults > 0
IsDistanceVector == DV!Spec

\* The metric n would have if it had heard the current beacon of everyone.
Heard(n) ==
  { s \in UNION { { my_path_rssi[m] + rssi : rssi \in Rssi[m][n] } :
                  m \in { k \in Node : up[k] } } : NoRoute < s /\ s < 0 }
Settled(n) ==
  n # Root /\ up[n] =>
    /\ Heard(n) # {}
    /\ my_path_rssi[n] \in Heard(n)
    /\ \A s \in Heard(n) : s =< my_path_rssi[n]

\* Once the root stays up, the faults having come to an end, every mote settles
\* on the best path: stale metrics that survive a crash are counted out and
\* dead neighbours expire (for links along which the motes stay connected).
Converges == <>[]up[Root] => <>[](\A n \in Node : Settled(n))

\* When the root is gone for good every mote ends up without a parent.
OrphansGiveUp ==
  <>[](~ up[Root]) => <>[](\A n \in Node : best_parent_id[n] = NoNode)
=============================================================================
