------------------------ MODULE ParentSelection_proofs ------------------------
(***************************************************************************)
(* Proofs about ParentSelection, for every set of motes, every radio       *)
(* neighbourhood, every pool size and every number of faults.              *)
(***************************************************************************)
EXTENDS ParentSelection, SequenceTheorems, WellFoundedInduction, TLAPS

(***************************************************************************)
(* What the two operations on the linked list do.                          *)
(***************************************************************************)
\* Unlinking the i-th entry closes the gap and keeps everything else in order.
LEMMA DroppedProperties ==
  ASSUME NEW S, NEW list \in Seq(S), NEW i \in DOMAIN list
  PROVE  /\ Dropped(list, i) \in Seq(S)
         /\ Len(Dropped(list, i)) = Len(list) - 1
         /\ \A j \in 1 .. Len(list) - 1 :
              Dropped(list, i)[j] = IF j < i THEN list[j] ELSE list[j + 1]
<1> DEFINE front == SubSeq(list, 1, i - 1)
           back == SubSeq(list, i + 1, Len(list))
<1>1. Len(list) \in Nat /\ i \in 1 .. Len(list) /\ \A k \in 1 .. Len(list) : list[k] \in S
  BY LenProperties, ElementOfSeq
<1>2. /\ front \in Seq(S)
      /\ Len(front) = i - 1
      /\ \A k \in 1 .. i - 1 : front[k] = list[k]
  <2>1. \A k \in 1 .. i - 1 : list[k] \in S
    BY <1>1
  <2>. QED
    BY <1>1, <2>1, SubSeqProperties
<1>3. /\ back \in Seq(S)
      /\ Len(back) = Len(list) - i
      /\ \A k \in 1 .. Len(list) - i : back[k] = list[k + i]
  <2>1. \A k \in i + 1 .. Len(list) : list[k] \in S
    BY <1>1
  <2>2. /\ back \in Seq(S)
        /\ Len(back) = IF i + 1 =< Len(list) THEN Len(list) - (i + 1) + 1 ELSE 0
        /\ \A k \in 1 .. Len(list) - (i + 1) + 1 : back[k] = list[i + 1 + k - 1]
    BY <1>1, <2>1, SubSeqProperties
  <2>. QED
    BY <1>1, <2>2
<1>4. /\ front \o back \in Seq(S)
      /\ Len(front \o back) = Len(front) + Len(back)
      /\ \A j \in 1 .. Len(front) + Len(back) :
           (front \o back)[j] = IF j <= Len(front) THEN front[j] ELSE back[j - Len(front)]
  BY <1>2, <1>3, ConcatProperties
<1>5. Dropped(list, i) = front \o back
  BY DEF Dropped, RemoveAt
<1> HIDE DEF front, back
<1>6. ASSUME NEW j \in 1 .. Len(list) - 1
      PROVE  (front \o back)[j] = IF j < i THEN list[j] ELSE list[j + 1]
  <2>1. CASE j < i
    <3>1. j \in 1 .. i - 1 /\ j \in 1 .. Len(front) + Len(back) /\ j <= Len(front)
      BY <1>1, <1>2, <1>3, <2>1
    <3>2. front[j] = list[j]
      BY <1>2, <3>1
    <3>3. (front \o back)[j] = front[j]
      BY <1>4, <3>1
    <3>. QED
      BY <2>1, <3>2, <3>3
  <2>2. CASE ~ (j < i)
    <3>1. j - Len(front) \in 1 .. Len(list) - i /\ (j - Len(front)) + i = j + 1
      BY <1>1, <1>2, <2>2
    <3>2. back[j - Len(front)] = list[j + 1]
      BY <1>3, <3>1
    <3>3. j \in 1 .. Len(front) + Len(back) /\ ~ (j <= Len(front))
      BY <1>1, <1>2, <1>3, <2>2
    <3>4. (front \o back)[j] = back[j - Len(front)]
      BY <1>4, <3>3
    <3>. QED
      BY <2>2, <3>2, <3>4
  <2>. QED
    BY <2>1, <2>2
<1>7. Dropped(list, i) \in Seq(S)
  BY <1>4, <1>5
<1>8. Len(Dropped(list, i)) = Len(list) - 1
  <2>1. Len(front \o back) = Len(list) - 1
    BY <1>1, <1>2, <1>3, <1>4
  <2>. QED
    BY <1>5, <2>1
<1>9. ASSUME NEW j \in 1 .. Len(list) - 1
      PROVE  Dropped(list, i)[j] = IF j < i THEN list[j] ELSE list[j + 1]
  BY <1>5, <1>6
<1>. QED
  BY <1>7, <1>8, <1>9

\* A beacon of a known neighbour rewrites its entry in place, one of a new
\* neighbour goes in front of everything else.
LEMMA RefreshedProperties ==
  ASSUME NEW list \in Seq(Entry), NEW m \in Node, NEW sum \in Metric
  PROVE  /\ Refreshed(list, m, sum) \in Seq(Entry)
         /\ Known(list, m) =>
              /\ Len(Refreshed(list, m, sum)) = Len(list)
              /\ \A j \in 1 .. Len(list) : Refreshed(list, m, sum)[j] =
                   IF list[j].id = m THEN [id |-> m, rssi_p |-> sum] ELSE list[j]
         /\ ~ Known(list, m) =>
              /\ Len(Refreshed(list, m, sum)) = Len(list) + 1
              /\ \A j \in 1 .. Len(list) + 1 : Refreshed(list, m, sum)[j] =
                   IF j = 1 THEN [id |-> m, rssi_p |-> sum] ELSE list[j - 1]
<1> DEFINE new == [id |-> m, rssi_p |-> sum]
<1>1. Len(list) \in Nat /\ DOMAIN list = 1 .. Len(list)
      /\ \A k \in 1 .. Len(list) : list[k] \in Entry
  BY LenProperties, ElementOfSeq
<1>2. new \in Entry
  BY DEF Entry
<1>3. CASE Known(list, m)
  <2>1. \A k \in 1 .. Len(list) : list[k].id = m => [list[k] EXCEPT !.rssi_p = sum] = new
    BY <1>1 DEF Entry
  <2>2. Refreshed(list, m, sum) =
          [k \in 1 .. Len(list) |-> IF list[k].id = m THEN new ELSE list[k]]
    BY <1>1, <1>3, <2>1 DEF Refreshed
  <2>. QED
    BY <1>1, <1>2, <1>3, <2>2
<1>4. CASE ~ Known(list, m)
  <2>1. <<new>> \in Seq(Entry) /\ Len(<<new>>) = 1 /\ <<new>>[1] = new
    BY <1>2
  <2> DEFINE longer == <<new>> \o list
  <2>2. Refreshed(list, m, sum) = longer
    BY <1>4 DEF Refreshed, Cons
  <2>3. /\ longer \in Seq(Entry)
        /\ Len(longer) = 1 + Len(list)
        /\ \A j \in 1 .. 1 + Len(list) : longer[j] = IF j <= 1 THEN <<new>>[j] ELSE list[j - 1]
    BY <2>1, ConcatProperties
  <2> HIDE DEF longer
  <2>4. Len(longer) = Len(list) + 1
    BY <1>1, <2>3
  <2>5. ASSUME NEW j \in 1 .. Len(list) + 1
        PROVE  longer[j] = IF j = 1 THEN new ELSE list[j - 1]
    <3>1. longer[j] = IF j <= 1 THEN <<new>>[j] ELSE list[j - 1]
      BY <1>1, <2>3
    <3>. QED
      BY <1>1, <2>1, <3>1
  <2>. QED
    BY <1>4, <2>2, <2>3, <2>4, <2>5
<1>. QED
  BY <1>3, <1>4

\* Who is in the list after a beacon: everyone who was, and its sender.
LEMMA RefreshedKnown ==
  ASSUME NEW list \in Seq(Entry), NEW m \in Node, NEW sum \in Metric, NEW p,
         Known(list, p) \/ p = m
  PROVE  Known(Refreshed(list, m, sum), p)
<1> DEFINE new == Refreshed(list, m, sum)
<1>1. Len(list) \in Nat /\ DOMAIN list = 1 .. Len(list) /\ DOMAIN new = 1 .. Len(new)
  BY RefreshedProperties, LenProperties
<1>2. CASE Known(list, m)
  <2>1. /\ Len(new) = Len(list)
        /\ \A j \in 1 .. Len(list) : new[j] =
             IF list[j].id = m THEN [id |-> m, rssi_p |-> sum] ELSE list[j]
    BY <1>2, RefreshedProperties
  <2>2. PICK i \in 1 .. Len(list) : list[i].id = p
    BY <1>1, <1>2 DEF Known
  <2>3. new[i].id = p /\ i \in DOMAIN new
    BY <1>1, <2>1, <2>2
  <2>. QED
    BY <2>3 DEF Known
<1>3. CASE ~ Known(list, m)
  <2>1. /\ Len(new) = Len(list) + 1
        /\ \A j \in 1 .. Len(list) + 1 : new[j] =
             IF j = 1 THEN [id |-> m, rssi_p |-> sum] ELSE list[j - 1]
    BY <1>3, RefreshedProperties
  <2>2. CASE p = m
    <3>1. new[1].id = m /\ 1 \in DOMAIN new
      BY <1>1, <2>1
    <3>. QED
      BY <2>2, <3>1 DEF Known
  <2>3. CASE Known(list, p)
    <3>1. PICK i \in 1 .. Len(list) : list[i].id = p
      BY <1>1, <2>3 DEF Known
    <3>2. i + 1 \in 1 .. Len(list) + 1 /\ i + 1 # 1 /\ (i + 1) - 1 = i
      BY <1>1
    <3>3. new[i + 1].id = p /\ i + 1 \in DOMAIN new
      BY <1>1, <2>1, <3>1, <3>2
    <3>. QED
      BY <3>3 DEF Known
  <2>. QED
    BY <2>2, <2>3
<1>. QED
  BY <1>2, <1>3

\* Who is in the list after an entry is unlinked: everyone else.
LEMMA DroppedKnown ==
  ASSUME NEW S, NEW list \in Seq(S), NEW i \in DOMAIN list, NEW p,
         Known(list, p), list[i].id # p
  PROVE  Known(Dropped(list, i), p)
<1> DEFINE new == Dropped(list, i)
<1>1. /\ Len(list) \in Nat /\ DOMAIN list = 1 .. Len(list) /\ DOMAIN new = 1 .. Len(new)
      /\ Len(new) = Len(list) - 1
      /\ \A j \in 1 .. Len(list) - 1 : new[j] = IF j < i THEN list[j] ELSE list[j + 1]
  BY DroppedProperties, LenProperties
<1> HIDE DEF new
<1>2. PICK k \in 1 .. Len(list) : list[k].id = p
  BY <1>1 DEF Known
<1>3. CASE k < i
  <2>1. k \in DOMAIN new /\ new[k] = list[k]
    BY <1>1, <1>3
  <2>. QED
    BY <1>2, <2>1 DEF Known, new
<1>4. CASE i < k
  <2>1. k - 1 \in 1 .. Len(list) - 1 /\ ~ (k - 1 < i) /\ (k - 1) + 1 = k
    BY <1>1, <1>4
  <2>2. k - 1 \in DOMAIN new /\ new[k - 1] = list[k]
    BY <1>1, <2>1
  <2>. QED
    BY <1>2, <2>2 DEF Known, new
<1>. QED
  BY <1>1, <1>2, <1>3, <1>4

-----------------------------------------------------------------------------
(***************************************************************************)
(* Type correctness: no sum leaves the int16_t that holds it.              *)
(***************************************************************************)
\* A sum of an advertised metric and the RSSI of a beacon is in Metric.
LEMMA SumType ==
  ASSUME NEW n \in Node, NEW m \in Node, NEW rssi \in Rssi[m][n], TypeOK,
         air[m][n] # NoBeacon
  PROVE  /\ air[m][n] \in NoRoute .. 0
         /\ rssi \in -128 .. 127
         /\ air[m][n] + rssi \in Metric
<1>1. air[m][n] \in NoRoute .. 0
  BY DEF TypeOK
<1>2. rssi \in -128 .. 127
  <2>1. \A s, t \in Node : Rssi[s][t] \in SUBSET (-128 .. 127)
    BY RssiAssumption
  <2>2. Rssi[m][n] \in SUBSET (-128 .. 127)
    BY <2>1
  <2>. QED
    BY <2>2
<1> DEFINE metric == air[m][n]
<1>3. metric \in NoRoute .. 0 /\ NoRoute \in Int
  BY <1>1, NoRouteAssumption
<1> HIDE DEF metric
<1>4. metric + rssi \in NoRoute - 128 .. 127
  BY <1>2, <1>3
<1>. QED
  BY <1>1, <1>2, <1>4 DEF Metric, metric

\* The selection keeps the parent a mote and the metric a metric.
LEMMA SelectParentType ==
  ASSUME TypeOK, NEW n \in Node, NEW list \in Seq(Entry), SelectParent(n, list)
  PROVE  /\ best_parent_id' \in [Node -> Node \cup {NoNode}]
         /\ my_path_rssi' \in [Node -> NoRoute .. 0]
<1>1. CASE UNCHANGED <<best_parent_id, my_path_rssi>>
  BY <1>1 DEF TypeOK
<1>2. ASSUME NEW i \in DOMAIN list,
             Wins(list, i),
             best_parent_id' = [best_parent_id EXCEPT ![n] = list[i].id],
             my_path_rssi' = [my_path_rssi EXCEPT ![n] = list[i].rssi_p]
      PROVE  /\ best_parent_id' \in [Node -> Node \cup {NoNode}]
             /\ my_path_rssi' \in [Node -> NoRoute .. 0]
  <2>1. list[i] \in Entry
    BY ElementOfSeq, LenProperties
  <2>2. list[i].rssi_p \in NoRoute .. 0
    BY <1>2, <2>1, NoRouteAssumption DEF Entry, Metric, Wins, Eligible
  <2>. QED
    BY <1>2, <2>1, <2>2 DEF TypeOK, Entry
<1>. QED
  BY <1>1, <1>2 DEF SelectParent

\* The four facts a step of register_parent comes down to, for a beacon that
\* is filed and for one that is not.
LEMMA RegisterParentCases ==
  ASSUME TypeOK, NEW n \in Node, NEW m \in Node, NEW rssi \in Rssi[m][n],
         register_parent(n, m, rssi)
  PROVE  \/ UNCHANGED <<preferred_parent_list, best_parent_id, my_path_rssi>>
         \/ /\ Known(preferred_parent_list[n], m)
               \/ Len(preferred_parent_list[n]) < MaxNeighbors
            /\ preferred_parent_list' = [preferred_parent_list EXCEPT
                 ![n] = Refreshed(preferred_parent_list[n], m, air[m][n] + rssi)]
            /\ SelectParent(n, Refreshed(preferred_parent_list[n], m, air[m][n] + rssi))
            /\ Refreshed(preferred_parent_list[n], m, air[m][n] + rssi) \in Seq(Entry)
<1>1. preferred_parent_list[n] \in Seq(Entry)
  BY DEF TypeOK
<1>2. air[m][n] + rssi \in Metric
  BY SumType DEF register_parent
<1>3. Refreshed(preferred_parent_list[n], m, air[m][n] + rssi) \in Seq(Entry)
  BY <1>1, <1>2, RefreshedProperties
<1>. QED
  BY <1>3 DEF register_parent

\* TypeOK: every value stays in the range of the C variable that holds it.
THEOREM TypeCorrect == Spec => []TypeOK
<1>1. Init => TypeOK
  <2>. SUFFICES ASSUME Init PROVE TypeOK
    OBVIOUS
  <2>1. << >> \in Seq(Entry)
    BY EmptySeq
  <2>. QED
    BY <2>1, NodeAssumption, NoRouteAssumption, BoundAssumption
    DEF Init, TypeOK, BootMetric
<1>2. TypeOK /\ [Next]_vars => TypeOK'
  <2>. SUFFICES ASSUME TypeOK, [Next]_vars PROVE TypeOK'
    OBVIOUS
  <2>. USE NodeAssumption, NoRouteAssumption, BoundAssumption
  <2>1. ASSUME NEW n \in Node, broadcast_rssi(n)
        PROVE  TypeOK'
    <3>1. air' \in [Node -> [Node -> (NoRoute .. 0) \cup {NoBeacon}]]
      BY <2>1 DEF broadcast_rssi, TypeOK
    <3>2. trickle_interval' \in [Node -> TrickleMin .. TrickleMax]
      BY <2>1 DEF broadcast_rssi, TypeOK, DoubledInterval
    <3>. QED
      BY <2>1, <3>1, <3>2 DEF broadcast_rssi, TypeOK
  <2>2. ASSUME NEW n \in Node, NEW m \in Node, NEW rssi \in Rssi[m][n],
               register_parent(n, m, rssi)
        PROVE  TypeOK'
    <3>1. air' \in [Node -> [Node -> (NoRoute .. 0) \cup {NoBeacon}]]
      BY <2>2 DEF register_parent, TypeOK
    <3>2. UNCHANGED <<up, trickle_interval, faults>>
      BY <2>2 DEF register_parent
    <3>3. /\ preferred_parent_list' \in [Node -> Seq(Entry)]
          /\ best_parent_id' \in [Node -> Node \cup {NoNode}]
          /\ my_path_rssi' \in [Node -> NoRoute .. 0]
      <4>1. CASE UNCHANGED <<preferred_parent_list, best_parent_id, my_path_rssi>>
        BY <4>1 DEF TypeOK
      <4>2. CASE ~ UNCHANGED <<preferred_parent_list, best_parent_id, my_path_rssi>>
        <5> DEFINE new == Refreshed(preferred_parent_list[n], m, air[m][n] + rssi)
        <5>1. /\ preferred_parent_list' = [preferred_parent_list EXCEPT ![n] = new]
              /\ SelectParent(n, new)
              /\ new \in Seq(Entry)
          BY <2>2, <4>2, RegisterParentCases
        <5> HIDE DEF new
        <5>2. /\ best_parent_id' \in [Node -> Node \cup {NoNode}]
              /\ my_path_rssi' \in [Node -> NoRoute .. 0]
          BY <5>1, SelectParentType
        <5>. QED
          BY <5>1, <5>2 DEF TypeOK
      <4>. QED
        BY <4>1, <4>2
    <3>. QED
      BY <3>1, <3>2, <3>3 DEF TypeOK
  <2>3. ASSUME NEW n \in Node, NEW i \in DOMAIN preferred_parent_list[n],
               keepalive_expired(n, i)
        PROVE  TypeOK'
    <3>1. preferred_parent_list[n] \in Seq(Entry)
      BY DEF TypeOK
    <3>2. Dropped(preferred_parent_list[n], i) \in Seq(Entry)
      BY <3>1, DroppedProperties
    <3>3. preferred_parent_list' \in [Node -> Seq(Entry)]
      BY <2>3, <3>2 DEF keepalive_expired, TypeOK
    <3>4. /\ best_parent_id' \in [Node -> Node \cup {NoNode}]
          /\ my_path_rssi' \in [Node -> NoRoute .. 0]
      <4>1. LoseParent(n, preferred_parent_list[n][i].id)
        BY <2>3 DEF keepalive_expired
      <4>2. CASE UNCHANGED <<best_parent_id, my_path_rssi>>
        BY <4>2 DEF TypeOK
      <4>3. CASE /\ best_parent_id' = [best_parent_id EXCEPT ![n] = NoNode]
                 /\ my_path_rssi' = [my_path_rssi EXCEPT ![n] = NoRoute]
        BY <4>3 DEF TypeOK
      <4>. QED
        BY <4>1, <4>2, <4>3 DEF LoseParent
    <3>5. faults' \in 0 .. MaxFaults
      BY <2>3 DEF keepalive_expired, TypeOK
    <3>6. trickle_interval' \in [Node -> TrickleMin .. TrickleMax]
      BY <2>3 DEF keepalive_expired, TypeOK
    <3>. QED
      BY <2>3, <3>3, <3>4, <3>5, <3>6 DEF keepalive_expired, TypeOK
  <2>4. ASSUME NEW n \in Node, Crash(n)
        PROVE  TypeOK'
    <3>1. << >> \in Seq(Entry)
      BY EmptySeq
    <3>2. air' \in [Node -> [Node -> (NoRoute .. 0) \cup {NoBeacon}]]
      BY <2>4 DEF Crash, TypeOK
    <3>3. faults' \in 0 .. MaxFaults
      BY <2>4 DEF Crash, TypeOK
    <3>. QED
      BY <2>4, <3>1, <3>2, <3>3 DEF Crash, TypeOK, BootMetric
  <2>5. ASSUME NEW n \in Node, Restart(n)
        PROVE  TypeOK'
    BY <2>5 DEF Restart, TypeOK
  <2>6. CASE UNCHANGED vars
    BY <2>6 DEF vars, TypeOK
  <2>. QED
    BY <2>1, <2>2, <2>3, <2>4, <2>5, <2>6 DEF Next
<1>. QED
  BY <1>1, <1>2, PTL DEF Spec

-----------------------------------------------------------------------------
(***************************************************************************)
(* Safety of the table and the choice of parent.  The invariants below     *)
(* relate three variables only, which a step changes in one of three ways. *)
(***************************************************************************)
table == <<preferred_parent_list, best_parent_id, my_path_rssi>>

\* A beacon of m is filed by n under the metric sum.
Filed(n, m, sum) ==
  LET new == Refreshed(preferred_parent_list[n], m, sum)
  IN  /\ Known(preferred_parent_list[n], m) \/ Len(preferred_parent_list[n]) < MaxNeighbors
      /\ preferred_parent_list' = [preferred_parent_list EXCEPT ![n] = new]
      /\ SelectParent(n, new)

\* The i-th entry of n is unlinked.
Unlinked(n, i) ==
  /\ LoseParent(n, preferred_parent_list[n][i].id)
  /\ preferred_parent_list' =
       [preferred_parent_list EXCEPT ![n] = Dropped(preferred_parent_list[n], i)]

\* n forgets everything.
Forgotten(n) ==
  /\ preferred_parent_list' = [preferred_parent_list EXCEPT ![n] = << >>]
  /\ best_parent_id' = [best_parent_id EXCEPT ![n] = NoNode]
  /\ my_path_rssi' = [my_path_rssi EXCEPT ![n] = BootMetric(n)]

\* Every step files a beacon, unlinks an entry, forgets, or leaves the table.
LEMMA TableSteps ==
  ASSUME TypeOK, [Next]_vars
  PROVE  \/ UNCHANGED table
         \/ \E n, m \in Node : \E sum \in Metric : Filed(n, m, sum)
         \/ \E n \in Node : \E i \in DOMAIN preferred_parent_list[n] : Unlinked(n, i)
         \/ \E n \in Node : Forgotten(n)
<1>1. ASSUME NEW n \in Node, broadcast_rssi(n)
      PROVE  UNCHANGED table
  BY <1>1 DEF broadcast_rssi, table
<1>2. ASSUME NEW n \in Node, NEW m \in Node, NEW rssi \in Rssi[m][n],
             register_parent(n, m, rssi)
      PROVE  UNCHANGED table \/ \E sum \in Metric : Filed(n, m, sum)
  <2>1. air[m][n] + rssi \in Metric
    BY <1>2, SumType DEF register_parent
  <2>2. UNCHANGED table \/ Filed(n, m, air[m][n] + rssi)
    BY <1>2, RegisterParentCases DEF table, Filed
  <2>. QED
    BY <2>1, <2>2
<1>3. ASSUME NEW n \in Node, NEW i \in DOMAIN preferred_parent_list[n],
             keepalive_expired(n, i)
      PROVE  Unlinked(n, i)
  <2>1. preferred_parent_list \in [Node -> Seq(Entry)]
    BY DEF TypeOK
  <2>. QED
    BY <1>3, <2>1 DEF keepalive_expired, Unlinked
<1>4. ASSUME NEW n \in Node, Crash(n)
      PROVE  Forgotten(n)
  BY <1>4 DEF Crash, Forgotten
<1>5. ASSUME NEW n \in Node, Restart(n)
      PROVE  UNCHANGED table
  BY <1>5 DEF Restart, table
<1>6. CASE UNCHANGED vars
  BY <1>6 DEF vars, table
<1>. QED
  BY <1>1, <1>2, <1>3, <1>4, <1>5, <1>6 DEF Next

\* SelectParent leaves the choice alone, or makes the winner of the list the
\* parent of a mote that is not the root.
LEMMA SelectParentCases ==
  ASSUME NEW n \in Node, NEW list \in Seq(Entry), SelectParent(n, list)
  PROVE  \/ UNCHANGED <<best_parent_id, my_path_rssi>>
            /\ (n = Root \/ \A i \in DOMAIN list : ~ Eligible(list[i]))
         \/ /\ n # Root
            /\ \E i \in DOMAIN list :
                 /\ Wins(list, i)
                 /\ list[i] \in Entry
                 /\ best_parent_id' = [best_parent_id EXCEPT ![n] = list[i].id]
                 /\ my_path_rssi' = [my_path_rssi EXCEPT ![n] = list[i].rssi_p]
<1>1. \A i \in DOMAIN list : list[i] \in Entry
  BY LenProperties, ElementOfSeq
<1>. QED
  BY <1>1 DEF SelectParent

\* RouteIffParent: what a mote advertises and whom it forwards to agree.
THEOREM AdvertisesOnlyRoutes == Spec => []RouteIffParent
<1>1. Init => RouteIffParent
  BY NodeAssumption, NoRouteAssumption DEF Init, RouteIffParent, BootMetric
<1>2. TypeOK /\ RouteIffParent /\ [Next]_vars => RouteIffParent'
  <2>. SUFFICES ASSUME TypeOK, RouteIffParent, [Next]_vars PROVE RouteIffParent'
    OBVIOUS
  <2>. USE NodeAssumption, NoRouteAssumption
  <2>1. CASE UNCHANGED table
    BY <2>1 DEF table, RouteIffParent
  <2>2. ASSUME NEW n \in Node, NEW m \in Node, NEW sum \in Metric, Filed(n, m, sum)
        PROVE  RouteIffParent'
    <3> DEFINE new == Refreshed(preferred_parent_list[n], m, sum)
    <3>1. new \in Seq(Entry) /\ SelectParent(n, new)
      BY <2>2, RefreshedProperties DEF Filed, TypeOK
    <3> HIDE DEF new
    <3>2. CASE UNCHANGED <<best_parent_id, my_path_rssi>>
      BY <3>2 DEF RouteIffParent
    <3>3. ASSUME NEW i \in DOMAIN new, n # Root, Wins(new, i), new[i] \in Entry,
                 best_parent_id' = [best_parent_id EXCEPT ![n] = new[i].id],
                 my_path_rssi' = [my_path_rssi EXCEPT ![n] = new[i].rssi_p]
          PROVE  RouteIffParent'
      <4>1. new[i].id \in Node /\ NoRoute < new[i].rssi_p
        BY <3>3 DEF Wins, Eligible, Entry
      <4>. QED
        BY <3>3, <4>1 DEF RouteIffParent, TypeOK
    <3>. QED
      BY <3>1, <3>2, <3>3, SelectParentCases
  <2>3. ASSUME NEW n \in Node, NEW i \in DOMAIN preferred_parent_list[n], Unlinked(n, i)
        PROVE  RouteIffParent'
    <3>1. preferred_parent_list[n][i].id \in Node
      <4>1. preferred_parent_list[n] \in Seq(Entry)
        BY DEF TypeOK
      <4>2. preferred_parent_list[n][i] \in Entry
        BY <4>1, LenProperties, ElementOfSeq
      <4>. QED
        BY <4>2 DEF Entry
    <3>2. CASE UNCHANGED <<best_parent_id, my_path_rssi>>
      BY <3>2 DEF RouteIffParent
    <3>3. CASE /\ best_parent_id[n] = preferred_parent_list[n][i].id
               /\ best_parent_id' = [best_parent_id EXCEPT ![n] = NoNode]
               /\ my_path_rssi' = [my_path_rssi EXCEPT ![n] = NoRoute]
      BY <3>1, <3>3 DEF RouteIffParent, TypeOK
    <3>. QED
      BY <2>3, <3>2, <3>3 DEF Unlinked, LoseParent
  <2>4. ASSUME NEW n \in Node, Forgotten(n)
        PROVE  RouteIffParent'
    BY <2>4 DEF Forgotten, BootMetric, RouteIffParent, TypeOK
  <2>. QED
    BY <2>1, <2>2, <2>3, <2>4, TableSteps
<1>. QED
  BY <1>1, <1>2, TypeCorrect, PTL DEF Spec

\* ParentIsRegistered: a parent always has an entry, and so a keepalive.
THEOREM ParentHasKeepalive == Spec => []ParentIsRegistered
<1>1. Init => ParentIsRegistered
  BY DEF Init, ParentIsRegistered
<1>2. TypeOK /\ ParentIsRegistered /\ [Next]_vars => ParentIsRegistered'
  <2>. SUFFICES ASSUME TypeOK, ParentIsRegistered, [Next]_vars PROVE ParentIsRegistered'
    OBVIOUS
  <2>1. CASE UNCHANGED table
    BY <2>1 DEF table, ParentIsRegistered
  <2>2. ASSUME NEW n \in Node, NEW m \in Node, NEW sum \in Metric, Filed(n, m, sum)
        PROVE  ParentIsRegistered'
    <3> DEFINE new == Refreshed(preferred_parent_list[n], m, sum)
    <3>1. /\ new \in Seq(Entry)
          /\ SelectParent(n, new)
          /\ preferred_parent_list' = [preferred_parent_list EXCEPT ![n] = new]
      BY <2>2, RefreshedProperties DEF Filed, TypeOK
    <3>2. \A p : Known(preferred_parent_list[n], p) => Known(new, p)
      BY RefreshedKnown DEF TypeOK
    <3> HIDE DEF new
    <3>3. CASE UNCHANGED <<best_parent_id, my_path_rssi>>
      BY <3>1, <3>2, <3>3 DEF ParentIsRegistered, TypeOK
    <3>4. ASSUME NEW i \in DOMAIN new,
                 best_parent_id' = [best_parent_id EXCEPT ![n] = new[i].id]
          PROVE  ParentIsRegistered'
      <4>1. Known(new, new[i].id)
        BY DEF Known
      <4>. QED
        BY <3>1, <3>4, <4>1 DEF ParentIsRegistered, TypeOK
    <3>. QED
      BY <3>1, <3>3, <3>4, SelectParentCases
  <2>3. ASSUME NEW n \in Node, NEW i \in DOMAIN preferred_parent_list[n], Unlinked(n, i)
        PROVE  ParentIsRegistered'
    <3>1. \A p : Known(preferred_parent_list[n], p) /\ preferred_parent_list[n][i].id # p
            => Known(Dropped(preferred_parent_list[n], i), p)
      BY DroppedKnown DEF TypeOK
    <3>2. CASE /\ UNCHANGED <<best_parent_id, my_path_rssi>>
               /\ best_parent_id[n] # preferred_parent_list[n][i].id
      BY <2>3, <3>1, <3>2 DEF Unlinked, ParentIsRegistered, TypeOK
    <3>3. CASE best_parent_id' = [best_parent_id EXCEPT ![n] = NoNode]
      BY <2>3, <3>3 DEF Unlinked, ParentIsRegistered, TypeOK
    <3>. QED
      BY <2>3, <3>2, <3>3 DEF Unlinked, LoseParent
  <2>4. ASSUME NEW n \in Node, Forgotten(n)
        PROVE  ParentIsRegistered'
    BY <2>4 DEF Forgotten, ParentIsRegistered, TypeOK
  <2>. QED
    BY <2>1, <2>2, <2>3, <2>4, TableSteps
<1>. QED
  BY <1>1, <1>2, TypeCorrect, PTL DEF Spec

\* A list without duplicates, no longer than the pool.
Unique(list) ==
  /\ Len(list) =< MaxNeighbors
  /\ \A i, j \in DOMAIN list : list[i].id = list[j].id => i = j

\* Filing a beacon keeps a list without duplicates so.
LEMMA RefreshedUnique ==
  ASSUME NEW list \in Seq(Entry), NEW m \in Node, NEW sum \in Metric, Unique(list),
         Known(list, m) \/ Len(list) < MaxNeighbors
  PROVE  Unique(Refreshed(list, m, sum))
<1> DEFINE new == Refreshed(list, m, sum)
<1>1. Len(list) \in Nat /\ DOMAIN list = 1 .. Len(list) /\ DOMAIN new = 1 .. Len(new)
  BY RefreshedProperties, LenProperties
<1>2. CASE Known(list, m)
  <2>1. /\ Len(new) = Len(list)
        /\ \A j \in 1 .. Len(list) : new[j] =
             IF list[j].id = m THEN [id |-> m, rssi_p |-> sum] ELSE list[j]
    BY <1>2, RefreshedProperties
  <2> HIDE DEF new
  <2>2. \A j \in 1 .. Len(list) : new[j].id = list[j].id
    BY <2>1
  <2>. QED
    BY <1>1, <2>1, <2>2 DEF Unique, new
<1>3. CASE ~ Known(list, m)
  <2>1. /\ Len(new) = Len(list) + 1
        /\ \A j \in 1 .. Len(list) + 1 : new[j] =
             IF j = 1 THEN [id |-> m, rssi_p |-> sum] ELSE list[j - 1]
    BY <1>3, RefreshedProperties
  <2> HIDE DEF new
  <2>2. Len(new) =< MaxNeighbors
    BY <1>1, <1>3, <2>1, BoundAssumption
  <2>3. ASSUME NEW i \in 1 .. Len(list) + 1, NEW j \in 1 .. Len(list) + 1,
               new[i].id = new[j].id
        PROVE  i = j
    <3>1. \A k \in 1 .. Len(list) : list[k].id # m
      BY <1>1, <1>3 DEF Known
    <3>2. new[1].id = m
      BY <1>1, <2>1
    <3>3. \A k \in 1 .. Len(list) + 1 : k # 1 =>
            k - 1 \in 1 .. Len(list) /\ new[k].id = list[k - 1].id
      BY <1>1, <2>1
    <3>4. CASE i = 1 \/ j = 1
      BY <2>3, <3>1, <3>2, <3>3, <3>4
    <3>5. CASE i # 1 /\ j # 1
      <4>1. list[i - 1].id = list[j - 1].id /\ i - 1 \in DOMAIN list /\ j - 1 \in DOMAIN list
        BY <1>1, <2>3, <3>3, <3>5
      <4>2. i - 1 = j - 1
        BY <4>1 DEF Unique
      <4>. QED
        BY <1>1, <4>2
    <3>. QED
      BY <3>4, <3>5
  <2>. QED
    BY <1>1, <2>1, <2>2, <2>3 DEF Unique, new
<1>. QED
  BY <1>2, <1>3

\* So does unlinking an entry.
LEMMA DroppedUnique ==
  ASSUME NEW list \in Seq(Entry), NEW i \in DOMAIN list, Unique(list)
  PROVE  Unique(Dropped(list, i))
<1> DEFINE new == Dropped(list, i)
           old(j) == IF j < i THEN j ELSE j + 1
<1>1. /\ Len(list) \in Nat /\ DOMAIN list = 1 .. Len(list) /\ DOMAIN new = 1 .. Len(new)
      /\ Len(new) = Len(list) - 1
      /\ \A j \in 1 .. Len(list) - 1 : new[j] = IF j < i THEN list[j] ELSE list[j + 1]
  BY DroppedProperties, LenProperties
<1> HIDE DEF new
<1>2. Len(new) =< MaxNeighbors
  BY <1>1, BoundAssumption DEF Unique
<1>3. \A j \in DOMAIN new : old(j) \in DOMAIN list /\ new[j] = list[old(j)]
  BY <1>1
<1>4. ASSUME NEW j \in DOMAIN new, NEW k \in DOMAIN new, new[j].id = new[k].id
      PROVE  j = k
  <2>1. old(j) = old(k)
    <3> HIDE DEF old
    <3>. QED
      BY <1>3, <1>4 DEF Unique
  <2>. QED
    BY <1>1, <2>1
<1>. QED
  BY <1>2, <1>4 DEF Unique, new

\* NeighborsUnique: no neighbour twice, and never more than the pool holds.
THEOREM TableHoldsNeighborsOnce == Spec => []NeighborsUnique
<1>0. NeighborsUnique <=> \A n \in Node : Unique(preferred_parent_list[n])
  BY DEF NeighborsUnique, Unique
<1>0p. NeighborsUnique' <=> \A n \in Node : Unique(preferred_parent_list'[n])
  BY DEF NeighborsUnique, Unique
<1>1. Init => NeighborsUnique
  BY BoundAssumption DEF Init, NeighborsUnique
<1>2. TypeOK /\ NeighborsUnique /\ [Next]_vars => NeighborsUnique'
  <2>. SUFFICES ASSUME TypeOK, NeighborsUnique, [Next]_vars PROVE NeighborsUnique'
    OBVIOUS
  <2>1. CASE UNCHANGED table
    BY <2>1 DEF table, NeighborsUnique
  <2>2. ASSUME NEW n \in Node, NEW m \in Node, NEW sum \in Metric, Filed(n, m, sum)
        PROVE  NeighborsUnique'
    <3>1. Unique(Refreshed(preferred_parent_list[n], m, sum))
      BY <1>0, <2>2, RefreshedUnique DEF Filed, TypeOK
    <3>. QED
      BY <1>0, <1>0p, <2>2, <3>1 DEF Filed, TypeOK
  <2>3. ASSUME NEW n \in Node, NEW i \in DOMAIN preferred_parent_list[n], Unlinked(n, i)
        PROVE  NeighborsUnique'
    <3>1. Unique(Dropped(preferred_parent_list[n], i))
      BY <1>0, DroppedUnique DEF TypeOK
    <3>. QED
      BY <1>0, <1>0p, <2>3, <3>1 DEF Unlinked, TypeOK
  <2>4. ASSUME NEW n \in Node, Forgotten(n)
        PROVE  NeighborsUnique'
    BY <2>4, BoundAssumption DEF Forgotten, NeighborsUnique, TypeOK
  <2>. QED
    BY <2>1, <2>2, <2>3, <2>4, TableSteps
<1>. QED
  BY <1>1, <1>2, TypeCorrect, PTL DEF Spec

\* parent and metric are the winner's, if list has a winner and parent is one.
Chosen(list, parent, metric) ==
  /\ parent # NoNode
  /\ \E i \in DOMAIN list : Eligible(list[i])
  => \E i \in DOMAIN list :
       Wins(list, i) /\ list[i].id = parent /\ list[i].rssi_p = metric

\* The winner still wins when another entry is unlinked.
LEMMA DroppedChosen ==
  ASSUME NEW list \in Seq(Entry), NEW i \in DOMAIN list, NEW parent, NEW metric,
         Chosen(list, parent, metric), list[i].id # parent
  PROVE  Chosen(Dropped(list, i), parent, metric)
<1> DEFINE new == Dropped(list, i)
           old(j) == IF j < i THEN j ELSE j + 1
<1>1. /\ Len(list) \in Nat /\ DOMAIN list = 1 .. Len(list) /\ DOMAIN new = 1 .. Len(new)
      /\ Len(new) = Len(list) - 1
      /\ \A j \in 1 .. Len(list) - 1 : new[j] = IF j < i THEN list[j] ELSE list[j + 1]
  BY DroppedProperties, LenProperties
<1> HIDE DEF new
<1>2. \A j \in DOMAIN new : old(j) \in DOMAIN list /\ new[j] = list[old(j)]
  BY <1>1
<1>3. \A j, k \in DOMAIN new : j < k => old(j) < old(k)
  BY <1>1
<1>4. SUFFICES ASSUME parent # NoNode, NEW e \in DOMAIN new, Eligible(new[e])
               PROVE  \E j \in DOMAIN new :
                        Wins(new, j) /\ new[j].id = parent /\ new[j].rssi_p = metric
  BY DEF Chosen, new
<1>5. PICK w \in DOMAIN list :
        Wins(list, w) /\ list[w].id = parent /\ list[w].rssi_p = metric
  <2>1. Eligible(list[old(e)]) /\ old(e) \in DOMAIN list
    BY <1>2, <1>4
  <2> HIDE DEF old
  <2>. QED
    BY <1>4, <2>1 DEF Chosen
<1>6. PICK v \in DOMAIN new : old(v) = w
  <2>1. CASE w < i
    BY <1>1, <2>1
  <2>2. CASE w > i
    <3>1. w - 1 \in DOMAIN new /\ old(w - 1) = w
      BY <1>1, <2>2
    <3>. QED
      BY <3>1
  <2>. QED
    BY <1>1, <1>5, <2>1, <2>2
<1>7. Wins(new, v)
  <2>1. \A j \in DOMAIN new : j < v => old(j) < w
    BY <1>3, <1>6
  <2>2. new[v] = list[w]
    BY <1>2, <1>6
  <2> HIDE DEF old
  <2>3. ASSUME NEW j \in DOMAIN new, Eligible(new[j])
        PROVE  /\ new[j].rssi_p =< new[v].rssi_p
               /\ j < v => new[j].rssi_p < new[v].rssi_p
    BY <1>2, <1>5, <2>1, <2>2, <2>3 DEF Wins
  <2>. QED
    BY <1>5, <2>2, <2>3 DEF Wins
<1>. QED
  BY <1>2, <1>5, <1>6, <1>7

\* ParentIsBest: although the selection runs only when a beacon is filed, the
\* parent in use is the first of the best candidates between any two callbacks.
THEOREM ParentStaysBest == Spec => []ParentIsBest
<1>0. ParentIsBest <=> \A n \in Node :
        Chosen(preferred_parent_list[n], best_parent_id[n], my_path_rssi[n])
  BY DEF ParentIsBest, Chosen
<1>0p. ParentIsBest' <=> \A n \in Node :
        Chosen(preferred_parent_list'[n], best_parent_id'[n], my_path_rssi'[n])
  BY DEF ParentIsBest, Chosen
<1>1. Init => ParentIsBest
  BY DEF Init, ParentIsBest
<1>2. TypeOK /\ RouteIffParent /\ ParentIsBest /\ [Next]_vars => ParentIsBest'
  <2>. SUFFICES ASSUME TypeOK, RouteIffParent, ParentIsBest, [Next]_vars
                PROVE  ParentIsBest'
    OBVIOUS
  <2>1. CASE UNCHANGED table
    BY <1>0, <1>0p, <2>1 DEF table
  <2>2. ASSUME NEW n \in Node, NEW m \in Node, NEW sum \in Metric, Filed(n, m, sum)
        PROVE  ParentIsBest'
    <3> DEFINE new == Refreshed(preferred_parent_list[n], m, sum)
    <3>1. /\ new \in Seq(Entry)
          /\ SelectParent(n, new)
          /\ preferred_parent_list' = [preferred_parent_list EXCEPT ![n] = new]
      BY <2>2, RefreshedProperties DEF Filed, TypeOK
    <3> HIDE DEF new
    <3>2. CASE /\ UNCHANGED <<best_parent_id, my_path_rssi>>
               /\ n = Root \/ \A i \in DOMAIN new : ~ Eligible(new[i])
      <4>1. Chosen(new, best_parent_id[n], my_path_rssi[n])
        BY <3>2 DEF Chosen, RouteIffParent
      <4>. QED
        BY <1>0, <1>0p, <3>1, <3>2, <4>1 DEF TypeOK
    <3>3. ASSUME NEW i \in DOMAIN new, Wins(new, i),
                 best_parent_id' = [best_parent_id EXCEPT ![n] = new[i].id],
                 my_path_rssi' = [my_path_rssi EXCEPT ![n] = new[i].rssi_p]
          PROVE  ParentIsBest'
      <4>1. Chosen(new, new[i].id, new[i].rssi_p)
        BY <3>3 DEF Chosen
      <4>. QED
        BY <1>0, <1>0p, <3>1, <3>3, <4>1 DEF TypeOK
    <3>. QED
      BY <3>1, <3>2, <3>3, SelectParentCases
  <2>3. ASSUME NEW n \in Node, NEW i \in DOMAIN preferred_parent_list[n], Unlinked(n, i)
        PROVE  ParentIsBest'
    <3>1. CASE /\ UNCHANGED <<best_parent_id, my_path_rssi>>
               /\ best_parent_id[n] # preferred_parent_list[n][i].id
      <4>1. Chosen(Dropped(preferred_parent_list[n], i), best_parent_id[n], my_path_rssi[n])
        BY <1>0, <3>1, DroppedChosen DEF TypeOK
      <4>. QED
        BY <1>0, <1>0p, <2>3, <3>1, <4>1 DEF Unlinked, TypeOK
    <3>2. CASE /\ best_parent_id' = [best_parent_id EXCEPT ![n] = NoNode]
               /\ my_path_rssi' = [my_path_rssi EXCEPT ![n] = NoRoute]
      <4>1. \A list, metric : Chosen(list, NoNode, metric)
        BY DEF Chosen
      <4>. QED
        BY <1>0, <1>0p, <2>3, <3>2, <4>1 DEF Unlinked, TypeOK
    <3>. QED
      BY <2>3, <3>1, <3>2 DEF Unlinked, LoseParent
  <2>4. ASSUME NEW n \in Node, Forgotten(n)
        PROVE  ParentIsBest'
    <3>1. \A list, metric : Chosen(list, NoNode, metric)
      BY DEF Chosen
    <3>. QED
      BY <1>0, <1>0p, <2>4, <3>1 DEF Forgotten, TypeOK
  <2>. QED
    BY <2>1, <2>2, <2>3, <2>4, TableSteps
<1>. QED
  BY <1>1, <1>2, TypeCorrect, AdvertisesOnlyRoutes, PTL DEF Spec

-----------------------------------------------------------------------------
(***************************************************************************)
(* The tree.  Until the first fault a distance-vector protocol over static *)
(* links only ever learns better news.                                     *)
(***************************************************************************)
\* The entries of a refreshed list, from the old list and back.
LEMMA RefreshedEntries ==
  ASSUME NEW list \in Seq(Entry), NEW m \in Node, NEW sum \in Metric
  PROVE  LET new == Refreshed(list, m, sum)
             e == [id |-> m, rssi_p |-> sum]
         IN  /\ \A j \in DOMAIN new : new[j] = e \/ \E k \in DOMAIN list : new[j] = list[k]
             /\ \A k \in DOMAIN list : \E j \in DOMAIN new :
                  new[j] = IF list[k].id = m THEN e ELSE list[k]
<1> DEFINE new == Refreshed(list, m, sum)
           e == [id |-> m, rssi_p |-> sum]
<1>1. Len(list) \in Nat /\ DOMAIN list = 1 .. Len(list) /\ DOMAIN new = 1 .. Len(new)
  BY RefreshedProperties, LenProperties
<1>2. CASE Known(list, m)
  <2>1. /\ Len(new) = Len(list)
        /\ \A j \in 1 .. Len(list) : new[j] = IF list[j].id = m THEN e ELSE list[j]
    BY <1>2, RefreshedProperties
  <2> HIDE DEF new, e
  <2>. QED
    BY <1>1, <2>1 DEF new, e
<1>3. CASE ~ Known(list, m)
  <2>1. /\ Len(new) = Len(list) + 1
        /\ \A j \in 1 .. Len(list) + 1 : new[j] = IF j = 1 THEN e ELSE list[j - 1]
    BY <1>3, RefreshedProperties
  <2>2. \A k \in 1 .. Len(list) : list[k].id # m
    BY <1>1, <1>3 DEF Known
  <2> HIDE DEF new, e
  <2>3. \A j \in DOMAIN new : new[j] = e \/ \E k \in DOMAIN list : new[j] = list[k]
    <3>1. ASSUME NEW j \in 1 .. Len(list) + 1, j # 1
          PROVE  j - 1 \in 1 .. Len(list) /\ new[j] = list[j - 1]
      BY <1>1, <2>1, <3>1
    <3>. QED
      BY <1>1, <2>1, <3>1
  <2>4. ASSUME NEW k \in 1 .. Len(list)
        PROVE  \E j \in DOMAIN new : new[j] = IF list[k].id = m THEN e ELSE list[k]
    <3>1. k + 1 \in 1 .. Len(list) + 1 /\ k + 1 # 1 /\ (k + 1) - 1 = k
      BY <1>1
    <3>2. k + 1 \in DOMAIN new /\ new[k + 1] = list[k]
      BY <1>1, <2>1, <3>1
    <3>. QED
      BY <2>2, <3>2
  <2>. QED
    BY <1>1, <2>3, <2>4 DEF new, e
<1>. QED
  BY <1>2, <1>3

\* What a mote holds about a neighbour, in its table or in the air, is never
\* better than what the neighbour has, and the air is never older than the
\* table; the metric of a mote is that of its parent's entry.
NoBetterThanSource ==
  /\ \A n \in Node : up[n]
  /\ \A m, n \in Node : air[m][n] # NoBeacon => air[m][n] =< my_path_rssi[m]
  /\ \A n \in Node : \A i \in DOMAIN preferred_parent_list[n] :
       LET e == preferred_parent_list[n][i]
       IN  /\ Rssi[e.id][n] # {}
           /\ \A rssi \in Rssi[e.id][n] :
                /\ e.rssi_p =< my_path_rssi[e.id] + rssi
                /\ air[e.id][n] # NoBeacon => e.rssi_p =< air[e.id][n] + rssi
  /\ \A n \in Node : best_parent_id[n] # NoNode =>
       \E i \in DOMAIN preferred_parent_list[n] :
         /\ preferred_parent_list[n][i].id = best_parent_id[n]
         /\ preferred_parent_list[n][i].rssi_p = my_path_rssi[n]

\* Filing a beacon at n: its entry for the sender m gets no worse, hence
\* neither does its metric.
LEMMA FiledNoWorse ==
  ASSUME StaticLinks, TypeOK, RouteIffParent, NoBetterThanSource,
         NEW n \in Node, NEW m \in Node, NEW rssi \in Rssi[m][n],
         air[m][n] # NoBeacon, Filed(n, m, air[m][n] + rssi)
  PROVE  /\ my_path_rssi[n] =< my_path_rssi'[n]
         /\ \A k \in Node \ {n} : my_path_rssi'[k] = my_path_rssi[k]
         /\ best_parent_id'[n] # NoNode =>
              \E i \in DOMAIN preferred_parent_list'[n] :
                /\ preferred_parent_list'[n][i].id = best_parent_id'[n]
                /\ preferred_parent_list'[n][i].rssi_p = my_path_rssi'[n]
         /\ \A k \in Node \ {n} : best_parent_id'[k] = best_parent_id[k]
<1> DEFINE list == preferred_parent_list[n]
           sum == air[m][n] + rssi
           new == Refreshed(list, m, sum)
<1>1. /\ list \in Seq(Entry)
      /\ sum \in Metric
      /\ air[m][n] \in NoRoute .. 0
      /\ rssi \in -128 .. 127
      /\ rssi < 0
  BY SumType DEF TypeOK, StaticLinks
<1>2. /\ new \in Seq(Entry)
      /\ SelectParent(n, new)
      /\ preferred_parent_list' = [preferred_parent_list EXCEPT ![n] = new]
  BY <1>1, RefreshedProperties DEF Filed
<1>3. \A k \in DOMAIN list : \E j \in DOMAIN new :
        new[j] = IF list[k].id = m THEN [id |-> m, rssi_p |-> sum] ELSE list[k]
  <2> HIDE DEF list, sum
  <2>. QED
    BY <1>1, RefreshedEntries
<1>4. \A k \in DOMAIN list : list[k] \in Entry
  BY <1>1, LenProperties, ElementOfSeq
<1>5. \A j \in DOMAIN new : new[j] \in Entry
  BY <1>2, LenProperties, ElementOfSeq
<1> HIDE DEF new
<1>6. ASSUME best_parent_id[n] # NoNode
      PROVE  \E j \in DOMAIN new : Eligible(new[j]) /\ my_path_rssi[n] =< new[j].rssi_p
  <2>1. PICK k \in DOMAIN list : list[k].rssi_p = my_path_rssi[n]
    BY <1>6 DEF NoBetterThanSource
  <2>2. PICK cost \in Rssi[list[k].id][n] : TRUE
    BY DEF NoBetterThanSource
  <2>3. /\ list[k].id \in Node /\ list[k].rssi_p \in Int
        /\ cost \in -128 .. 127 /\ cost < 0
        /\ my_path_rssi[list[k].id] \in NoRoute .. 0
    <3>1. list[k].id \in Node /\ list[k].rssi_p \in Int
      BY <1>4, NoRouteAssumption DEF Entry, Metric
    <3>2. cost \in -128 .. 127
      <4>1. \A s, t \in Node : Rssi[s][t] \in SUBSET (-128 .. 127)
        BY RssiAssumption
      <4>2. Rssi[list[k].id][n] \in SUBSET (-128 .. 127)
        BY <3>1, <4>1
      <4>. QED
        BY <2>2, <4>2
    <3>3. cost < 0
      BY <2>2, <3>1 DEF StaticLinks
    <3>. QED
      BY <3>1, <3>2, <3>3 DEF TypeOK
  <2>4. list[k].rssi_p =< my_path_rssi[list[k].id] + cost
    BY <2>2 DEF NoBetterThanSource
  <2>5. NoRoute < list[k].rssi_p /\ list[k].rssi_p < 0
    <3>1. n # Root
      BY <1>6 DEF RouteIffParent
    <3>2. NoRoute < my_path_rssi[n]
      BY <1>6, <3>1 DEF RouteIffParent
    <3>. QED
      BY <2>1, <2>3, <2>4, <3>2, NoRouteAssumption
  <2>6. list[k].id = m => list[k].rssi_p =< sum /\ sum < 0
    <3>1. list[k].id = m => list[k].rssi_p =< sum
      BY DEF NoBetterThanSource
    <3>. QED
      BY <1>1, <3>1, NoRouteAssumption
  <2>7. PICK j \in DOMAIN new :
          new[j] = IF list[k].id = m THEN [id |-> m, rssi_p |-> sum] ELSE list[k]
    BY <1>3
  <2>8. my_path_rssi[n] =< new[j].rssi_p /\ NoRoute < new[j].rssi_p /\ new[j].rssi_p < 0
    <3> HIDE DEF list, sum
    <3>1. sum \in Int
      BY <1>1, NoRouteAssumption DEF Metric
    <3>2. CASE list[k].id = m
      BY <2>1, <2>3, <2>5, <2>6, <2>7, <3>1, <3>2, NoRouteAssumption
    <3>3. CASE list[k].id # m
      BY <2>1, <2>3, <2>5, <2>7, <3>3
    <3>. QED
      BY <3>2, <3>3
  <2>. QED
    BY <2>8 DEF Eligible
<1>7. CASE /\ UNCHANGED <<best_parent_id, my_path_rssi>>
           /\ n = Root \/ \A i \in DOMAIN new : ~ Eligible(new[i])
  <2>1. best_parent_id[n] = NoNode
    BY <1>6, <1>7 DEF RouteIffParent
  <2>2. my_path_rssi[n] \in Int
    BY NoRouteAssumption DEF TypeOK
  <2>. QED
    BY <1>7, <2>1, <2>2
<1>8. ASSUME NEW i \in DOMAIN new, n # Root, Wins(new, i),
             best_parent_id' = [best_parent_id EXCEPT ![n] = new[i].id],
             my_path_rssi' = [my_path_rssi EXCEPT ![n] = new[i].rssi_p]
      PROVE  /\ my_path_rssi[n] =< my_path_rssi'[n]
             /\ \A k \in Node \ {n} : my_path_rssi'[k] = my_path_rssi[k]
             /\ \E k \in DOMAIN preferred_parent_list'[n] :
                  /\ preferred_parent_list'[n][k].id = best_parent_id'[n]
                  /\ preferred_parent_list'[n][k].rssi_p = my_path_rssi'[n]
             /\ \A k \in Node \ {n} : best_parent_id'[k] = best_parent_id[k]
  <2>1. /\ my_path_rssi'[n] = new[i].rssi_p
        /\ best_parent_id'[n] = new[i].id
        /\ preferred_parent_list'[n] = new
        /\ \A k \in Node \ {n} : my_path_rssi'[k] = my_path_rssi[k]
        /\ \A k \in Node \ {n} : best_parent_id'[k] = best_parent_id[k]
    BY <1>2, <1>8 DEF TypeOK
  <2>2. /\ my_path_rssi[n] \in NoRoute .. 0
        /\ \A j \in DOMAIN new : new[j].rssi_p \in Int
    BY <1>5, NoRouteAssumption DEF TypeOK, Entry, Metric
  <2>3. NoRoute < new[i].rssi_p
    BY <1>8 DEF Wins, Eligible
  <2>4. my_path_rssi[n] =< new[i].rssi_p
    <3>1. CASE best_parent_id[n] = NoNode
      <4>1. ~ (NoRoute < my_path_rssi[n])
        BY <1>8, <3>1 DEF RouteIffParent
      <4>. QED
        BY <2>2, <2>3, <4>1, NoRouteAssumption
    <3>2. CASE best_parent_id[n] # NoNode
      <4>1. PICK j \in DOMAIN new : Eligible(new[j]) /\ my_path_rssi[n] =< new[j].rssi_p
        BY <1>6, <3>2
      <4>2. new[j].rssi_p =< new[i].rssi_p
        BY <1>8, <4>1 DEF Wins
      <4>. QED
        BY <2>2, <4>1, <4>2, NoRouteAssumption
    <3>. QED
      BY <3>1, <3>2
  <2>. QED
    BY <2>1, <2>4
<1>. QED
  BY <1>2, <1>7, <1>8, SelectParentCases

\* The faults only ever grow, and each one counts.
LEMMA FaultFreeSteps ==
  ASSUME TypeOK, NoBetterThanSource, [Next]_vars, faults' = 0
  PROVE  \/ UNCHANGED vars
         \/ \E n \in Node : broadcast_rssi(n)
         \/ \E n, m \in Node : \E rssi \in Rssi[m][n] : register_parent(n, m, rssi)
<1>1. faults \in Nat
  BY BoundAssumption DEF TypeOK
<1>2. ASSUME NEW n \in Node, NEW i \in DOMAIN preferred_parent_list[n],
             keepalive_expired(n, i)
      PROVE  FALSE
  <2>1. preferred_parent_list[n] \in Seq(Entry)
    BY DEF TypeOK
  <2>2. preferred_parent_list[n][i] \in Entry
    BY <2>1, LenProperties, ElementOfSeq
  <2>3. up[preferred_parent_list[n][i].id]
    BY <2>2 DEF NoBetterThanSource, Entry
  <2>4. faults' = faults + 1
    BY <1>2, <2>3 DEF keepalive_expired
  <2>. QED
    BY <1>1, <2>4
<1>3. ASSUME NEW n \in Node, Crash(n)
      PROVE  FALSE
  BY <1>1, <1>3 DEF Crash
<1>4. ASSUME NEW n \in Node, Restart(n)
      PROVE  FALSE
  BY <1>4 DEF Restart, NoBetterThanSource
<1>. QED
  BY <1>2, <1>3, <1>4 DEF Next

\* One step without a fault keeps NoBetterThanSource and worsens no metric.
LEMMA NoBetterStep ==
  ASSUME StaticLinks, TypeOK, TypeOK', RouteIffParent, NoBetterThanSource, [Next]_vars,
         faults' = 0
  PROVE  /\ NoBetterThanSource'
         /\ \A n \in Node : my_path_rssi[n] =< my_path_rssi'[n]
<1> USE NoBeaconAssumption
<1>1. \A n \in Node : my_path_rssi[n] \in Int /\ my_path_rssi'[n] \in Int
  BY NoRouteAssumption DEF TypeOK
<1>2. \A n \in Node : \A i \in DOMAIN preferred_parent_list[n] :
        preferred_parent_list[n][i] \in Entry
  BY LenProperties, ElementOfSeq DEF TypeOK
<1>3. CASE UNCHANGED vars
  BY <1>1, <1>3 DEF vars, NoBetterThanSource
<1>4. ASSUME NEW s \in Node, broadcast_rssi(s)
      PROVE  /\ NoBetterThanSource'
             /\ \A n \in Node : my_path_rssi[n] =< my_path_rssi'[n]
  <2>1. \A t \in Node : air'[s][t] # NoBeacon => air'[s][t] = my_path_rssi[s]
    BY <1>4 DEF broadcast_rssi, TypeOK, RouteIffParent
  <2>2. \A k \in Node \ {s} : air'[k] = air[k]
    BY <1>4 DEF broadcast_rssi, TypeOK
  <2>3. UNCHANGED <<up, preferred_parent_list, best_parent_id, my_path_rssi>>
    BY <1>4 DEF broadcast_rssi
  <2>4. \A m, n \in Node : air'[m][n] # NoBeacon => air'[m][n] =< my_path_rssi[m]
    BY <1>1, <2>1, <2>2 DEF NoBetterThanSource
  <2>5. ASSUME NEW n \in Node, NEW i \in DOMAIN preferred_parent_list[n],
               NEW rssi \in Rssi[preferred_parent_list[n][i].id][n],
               air'[preferred_parent_list[n][i].id][n] # NoBeacon
        PROVE  preferred_parent_list[n][i].rssi_p
                 =< air'[preferred_parent_list[n][i].id][n] + rssi
    <3>1. preferred_parent_list[n][i].id \in Node
      BY <1>2 DEF Entry
    <3>2. CASE preferred_parent_list[n][i].id = s
      BY <2>1, <2>5, <3>2 DEF NoBetterThanSource
    <3>3. CASE preferred_parent_list[n][i].id # s
      BY <2>2, <2>5, <3>1, <3>3 DEF NoBetterThanSource
    <3>. QED
      BY <3>2, <3>3
  <2>. QED
    BY <1>1, <2>3, <2>4, <2>5 DEF NoBetterThanSource
<1>5. ASSUME NEW n \in Node, NEW m \in Node, NEW rssi \in Rssi[m][n],
             register_parent(n, m, rssi)
      PROVE  /\ NoBetterThanSource'
             /\ \A k \in Node : my_path_rssi[k] =< my_path_rssi'[k]
  <2>1. /\ air' = [air EXCEPT ![m][n] = NoBeacon]
        /\ air[m][n] # NoBeacon
        /\ UNCHANGED up
    BY <1>5 DEF register_parent
  <2>2. n # m
    BY RssiAssumption
  <2>3. \A k, t \in Node : air'[k][t] # NoBeacon =>
          air'[k][t] = air[k][t] /\ (k # m \/ t # n)
    BY <2>1 DEF TypeOK
  <2>4. CASE UNCHANGED table
    <3>1. UNCHANGED <<preferred_parent_list, best_parent_id, my_path_rssi>>
      BY <2>4 DEF table
    <3>2. \A k, t \in Node : air'[k][t] # NoBeacon => air'[k][t] =< my_path_rssi'[k]
      BY <2>3, <3>1 DEF NoBetterThanSource
    <3>3. ASSUME NEW k \in Node, NEW i \in DOMAIN preferred_parent_list[k]
          PROVE  LET e == preferred_parent_list[k][i]
                 IN  /\ Rssi[e.id][k] # {}
                     /\ \A cost \in Rssi[e.id][k] :
                          /\ e.rssi_p =< my_path_rssi[e.id] + cost
                          /\ air'[e.id][k] # NoBeacon => e.rssi_p =< air'[e.id][k] + cost
      <4>1. preferred_parent_list[k][i].id \in Node
        BY <1>2 DEF Entry
      <4>. QED
        BY <2>3, <4>1 DEF NoBetterThanSource
    <3>4. \A k \in Node : my_path_rssi[k] =< my_path_rssi'[k]
      BY <1>1, <3>1
    <3>. QED
      BY <2>1, <3>1, <3>2, <3>3, <3>4 DEF NoBetterThanSource
  <2>5. CASE Filed(n, m, air[m][n] + rssi)
    <3> DEFINE sum == air[m][n] + rssi
               list == preferred_parent_list[n]
               new == Refreshed(list, m, sum)
    <3>1. /\ \A k \in Node : my_path_rssi[k] =< my_path_rssi'[k]
          /\ \A k \in Node : best_parent_id'[k] # NoNode =>
               \E i \in DOMAIN preferred_parent_list'[k] :
                 /\ preferred_parent_list'[k][i].id = best_parent_id'[k]
                 /\ preferred_parent_list'[k][i].rssi_p = my_path_rssi'[k]
      <4>1. /\ my_path_rssi[n] =< my_path_rssi'[n]
            /\ \A k \in Node \ {n} : my_path_rssi'[k] = my_path_rssi[k]
            /\ best_parent_id'[n] # NoNode =>
                 \E i \in DOMAIN preferred_parent_list'[n] :
                   /\ preferred_parent_list'[n][i].id = best_parent_id'[n]
                   /\ preferred_parent_list'[n][i].rssi_p = my_path_rssi'[n]
            /\ \A k \in Node \ {n} : best_parent_id'[k] = best_parent_id[k]
        BY <2>1, <2>5, FiledNoWorse
      <4>2. \A k \in Node \ {n} : preferred_parent_list'[k] = preferred_parent_list[k]
        BY <2>5 DEF Filed, TypeOK
      <4>3. ASSUME NEW k \in Node \ {n}, best_parent_id'[k] # NoNode
            PROVE  \E i \in DOMAIN preferred_parent_list'[k] :
                     /\ preferred_parent_list'[k][i].id = best_parent_id'[k]
                     /\ preferred_parent_list'[k][i].rssi_p = my_path_rssi'[k]
        BY <4>1, <4>2, <4>3 DEF NoBetterThanSource
      <4>. QED
        BY <1>1, <4>1, <4>3
    <3>2. \A k, t \in Node : air'[k][t] # NoBeacon => air'[k][t] =< my_path_rssi'[k]
      <4>1. ASSUME NEW k \in Node, NEW t \in Node, air'[k][t] # NoBeacon
            PROVE  air'[k][t] =< my_path_rssi'[k]
        <5>1. air'[k][t] = air[k][t] /\ air[k][t] =< my_path_rssi[k]
          BY <2>3, <4>1 DEF NoBetterThanSource
        <5>2. air[k][t] \in Int
          BY <4>1, <5>1, NoRouteAssumption DEF TypeOK
        <5>. QED
          BY <1>1, <3>1, <5>1, <5>2
      <4>. QED
        BY <4>1
    <3> DEFINE Fine(e, k) ==
          /\ Rssi[e.id][k] # {}
          /\ \A cost \in Rssi[e.id][k] :
               /\ e.rssi_p =< my_path_rssi'[e.id] + cost
               /\ air'[e.id][k] # NoBeacon => e.rssi_p =< air'[e.id][k] + cost
    <3>3. ASSUME NEW k \in Node, NEW i \in DOMAIN preferred_parent_list[k]
          PROVE  Fine(preferred_parent_list[k][i], k)
      <4> DEFINE e == preferred_parent_list[k][i]
      <4>1. e \in Entry /\ e.id \in Node /\ e.rssi_p \in Int
        BY <1>2, NoRouteAssumption DEF Entry, Metric
      <4>2. Rssi[e.id][k] # {}
        BY DEF NoBetterThanSource
      <4>3. ASSUME NEW cost \in Rssi[e.id][k]
            PROVE  /\ e.rssi_p =< my_path_rssi'[e.id] + cost
                   /\ air'[e.id][k] # NoBeacon => e.rssi_p =< air'[e.id][k] + cost
        <5>1. cost \in Int
          <6>1. \A s, t \in Node : Rssi[s][t] \in SUBSET (-128 .. 127)
            BY RssiAssumption
          <6>2. Rssi[e.id][k] \in SUBSET (-128 .. 127)
            BY <4>1, <6>1
          <6>. QED
            BY <4>3, <6>2
        <5>2. e.rssi_p =< my_path_rssi[e.id] + cost
          BY <4>3 DEF NoBetterThanSource
        <5>3. my_path_rssi[e.id] =< my_path_rssi'[e.id]
          BY <3>1, <4>1
        <5>4. e.rssi_p =< my_path_rssi'[e.id] + cost
          BY <1>1, <4>1, <5>1, <5>2, <5>3
        <5>5. air'[e.id][k] # NoBeacon => e.rssi_p =< air'[e.id][k] + cost
          BY <2>3, <4>1, <4>3 DEF NoBetterThanSource
        <5>. QED
          BY <5>4, <5>5
      <4>. QED
        BY <4>2, <4>3
    <3>4. Fine([id |-> m, rssi_p |-> sum], n)
      <4>1. /\ air[m][n] \in Int /\ rssi \in Int
            /\ air[m][n] =< my_path_rssi[m]
        BY <2>1, SumType, NoRouteAssumption DEF NoBetterThanSource
      <4>2. sum =< my_path_rssi'[m] + rssi
        BY <1>1, <3>1, <4>1
      <4>3. air'[m][n] = NoBeacon
        BY <2>1 DEF TypeOK
      <4>4. \A cost \in Rssi[m][n] : cost = rssi
        BY DEF StaticLinks
      <4>. QED
        BY <4>2, <4>3, <4>4
    <3>5. ASSUME NEW k \in Node, NEW i \in DOMAIN preferred_parent_list'[k]
          PROVE  Fine(preferred_parent_list'[k][i], k)
      <4>1. preferred_parent_list' = [preferred_parent_list EXCEPT ![n] = new]
        BY <2>5 DEF Filed
      <4>2. \A j \in DOMAIN new :
              new[j] = [id |-> m, rssi_p |-> sum] \/ \E l \in DOMAIN list : new[j] = list[l]
        <5>1. list \in Seq(Entry) /\ sum \in Metric
          BY <2>1, SumType DEF TypeOK
        <5> HIDE DEF list, sum
        <5>. QED
          BY <5>1, RefreshedEntries
      <4> HIDE DEF Fine, new, sum
      <4>3. CASE k = n
        <5>1. preferred_parent_list'[k] = new
          BY <4>1, <4>3 DEF TypeOK
        <5>2. CASE new[i] = [id |-> m, rssi_p |-> sum]
          BY <3>4, <4>3, <5>1, <5>2
        <5>3. CASE \E l \in DOMAIN preferred_parent_list[n] : new[i] = preferred_parent_list[n][l]
          BY <3>3, <4>3, <5>1, <5>3
        <5>. QED
          BY <3>5, <4>2, <5>1, <5>2, <5>3
      <4>4. CASE k # n
        BY <3>3, <3>5, <4>1, <4>4 DEF TypeOK
      <4>. QED
        BY <4>3, <4>4
    <3>6. \A k \in Node : up'[k]
      BY <2>1 DEF NoBetterThanSource
    <3>. QED
      BY <3>1, <3>2, <3>5, <3>6 DEF NoBetterThanSource
  <2>. QED
    BY <1>5, <2>4, <2>5, RegisterParentCases DEF table, Filed
<1>. QED
  BY <1>3, <1>4, <1>5, FaultFreeSteps

\* The invariant behind the tree, and that of every step without a fault.
FaultFree == faults = 0 => NoBetterThanSource

LEMMA FaultFreeInvariant == ASSUME StaticLinks PROVE Spec => []FaultFree
<1>1. Init => FaultFree
  BY NoBeaconAssumption DEF Init, FaultFree, NoBetterThanSource
<1>2. TypeOK /\ TypeOK' /\ RouteIffParent /\ FaultFree /\ [Next]_vars => FaultFree'
  <2>. SUFFICES ASSUME TypeOK, TypeOK', RouteIffParent, FaultFree, [Next]_vars, faults' = 0
                PROVE  NoBetterThanSource'
    BY DEF FaultFree
  <2>1. faults = 0
    BY BoundAssumption DEF Next, vars, broadcast_rssi, register_parent, keepalive_expired,
                           Crash, Restart, TypeOK
  <2>. QED
    BY <2>1, NoBetterStep DEF FaultFree
<1>. QED
  BY <1>1, <1>2, TypeCorrect, AdvertisesOnlyRoutes, PTL DEF Spec

\* PathRises: towards the root the metric rises by the RSSI of the link.
THEOREM MetricRisesTowardsRoot == ASSUME StaticLinks PROVE Spec => []PathRises
<1>1. TypeOK /\ FaultFree => PathRises
  <2>. SUFFICES ASSUME TypeOK, FaultFree, faults = 0,
                       NEW n \in Node, best_parent_id[n] # NoNode
                PROVE  \E rssi \in Rssi[best_parent_id[n]][n] :
                         my_path_rssi[n] =< my_path_rssi[best_parent_id[n]] + rssi
    BY DEF PathRises
  <2>1. PICK i \in DOMAIN preferred_parent_list[n] :
          /\ preferred_parent_list[n][i].id = best_parent_id[n]
          /\ preferred_parent_list[n][i].rssi_p = my_path_rssi[n]
    BY DEF FaultFree, NoBetterThanSource
  <2>2. PICK rssi \in Rssi[best_parent_id[n]][n] : TRUE
    BY <2>1 DEF FaultFree, NoBetterThanSource
  <2>. QED
    BY <2>1, <2>2 DEF FaultFree, NoBetterThanSource
<1>. QED
  BY <1>1, TypeCorrect, FaultFreeInvariant, PTL

\* NoParentCycle: until a fault the preferred parents form a tree, however
\* beacons are lost and delayed.
THEOREM ParentsFormTree == ASSUME StaticLinks PROVE Spec => []NoParentCycle
<1>1. TypeOK /\ PathRises => NoParentCycle
  <2>. SUFFICES ASSUME TypeOK, PathRises, faults = 0,
                       NEW S \in (SUBSET Node) \ {{}},
                       \A n \in S : best_parent_id[n] \in S
                PROVE  FALSE
    BY DEF NoParentCycle
  <2>1. \A n \in Node : my_path_rssi[n] \in Int /\ - my_path_rssi[n] \in Nat
    BY NoRouteAssumption DEF TypeOK
  <2> DEFINE T == { - my_path_rssi[n] : n \in S }
             R == OpToRel(<, Nat)
  <2>2. T \subseteq Nat /\ T # {}
    BY <2>1
  <2>3. PICK x \in T : \A y \in T : ~ (<<y, x>> \in R)
    <3> HIDE DEF T, R
    <3>1. IsWellFoundedOn(R, Nat)
      BY NatLessThanWellFounded DEF R
    <3>. QED
      BY <2>2, <3>1, WFMin
  <2>4. PICK n \in S : x = - my_path_rssi[n]
    OBVIOUS
  <2> DEFINE p == best_parent_id[n]
  <2>5. p \in S /\ p \in Node /\ n \in Node /\ p # NoNode
    BY NodeAssumption
  <2>6. PICK rssi \in Rssi[p][n] : my_path_rssi[n] =< my_path_rssi[p] + rssi
    BY <2>5 DEF PathRises
  <2>7. rssi < 0 /\ rssi \in Int
    <3>1. \A s, t \in Node : Rssi[s][t] \in SUBSET (-128 .. 127)
      BY RssiAssumption
    <3>2. Rssi[p][n] \in SUBSET (-128 .. 127)
      BY <2>5, <3>1
    <3>3. rssi \in -128 .. 127
      BY <3>2
    <3>. QED
      BY <2>5, <3>3 DEF StaticLinks
  <2>8. - my_path_rssi[p] \in T /\ - my_path_rssi[p] < x
    BY <2>1, <2>4, <2>5, <2>6, <2>7
  <2>9. <<- my_path_rssi[p], x>> \in R
    BY <2>1, <2>4, <2>5, <2>8 DEF OpToRel
  <2>. QED
    BY <2>3, <2>8, <2>9
<1>. QED
  BY <1>1, TypeCorrect, MetricRisesTowardsRoot, PTL

\* NeverWorse: until a fault no metric ever gets worse.
THEOREM MetricNeverWorsens == ASSUME StaticLinks PROVE Spec => NeverWorse
<1>1. /\ TypeOK /\ TypeOK' /\ RouteIffParent /\ FaultFree /\ FaultFree'
      /\ [Next]_vars
      => [faults' = 0 => \A n \in Node : my_path_rssi[n] =< my_path_rssi'[n]]_vars
  <2>. SUFFICES ASSUME TypeOK, TypeOK', RouteIffParent, FaultFree, [Next]_vars, faults' = 0
                PROVE  \A n \in Node : my_path_rssi[n] =< my_path_rssi'[n]
    OBVIOUS
  <2>1. faults = 0
    BY BoundAssumption DEF Next, vars, broadcast_rssi, register_parent, keepalive_expired,
                           Crash, Restart, TypeOK
  <2>. QED
    BY <2>1, NoBetterStep DEF FaultFree
<1>. QED
  BY <1>1, TypeCorrect, AdvertisesOnlyRoutes, FaultFreeInvariant, PTL DEF Spec, NeverWorse

-----------------------------------------------------------------------------
(***************************************************************************)
(* The refinement of DistanceVector.                                       *)
(***************************************************************************)
\* No mote is a candidate for its own parent.
NoSelf == \A n \in Node : \A i \in DOMAIN preferred_parent_list[n] :
            preferred_parent_list[n][i].id # n

LEMMA NoSelfStep == ASSUME TypeOK, NoSelf, [Next]_vars PROVE NoSelf'
<1>1. \A n \in Node : preferred_parent_list[n] \in Seq(Entry)
  BY DEF TypeOK
<1>2. CASE UNCHANGED table
  BY <1>2 DEF table, NoSelf
<1>3. ASSUME NEW n \in Node, NEW m \in Node, NEW sum \in Metric, Filed(n, m, sum), n # m
      PROVE  NoSelf'
  <2> DEFINE new == Refreshed(preferred_parent_list[n], m, sum)
             e == [id |-> m, rssi_p |-> sum]
  <2>1. preferred_parent_list' = [preferred_parent_list EXCEPT ![n] = new]
    BY <1>3 DEF Filed
  <2>2. \A j \in DOMAIN new : new[j] = e \/ \E k \in DOMAIN preferred_parent_list[n] :
                                                new[j] = preferred_parent_list[n][k]
    BY <1>1, RefreshedEntries
  <2>3. e.id # n
    BY <1>3
  <2> HIDE DEF new, e
  <2>4. \A j \in DOMAIN new : new[j].id # n
    BY <2>2, <2>3 DEF NoSelf
  <2>5. ASSUME NEW k \in Node, NEW i \in DOMAIN preferred_parent_list'[k]
        PROVE  preferred_parent_list'[k][i].id # k
    <3>1. CASE k = n
      BY <2>1, <2>4, <2>5, <3>1 DEF TypeOK
    <3>2. CASE k # n
      BY <2>1, <2>5, <3>2 DEF TypeOK, NoSelf
    <3> QED
      BY <3>1, <3>2
  <2> QED
    BY <2>5 DEF NoSelf
<1>4. ASSUME NEW n \in Node, NEW i \in DOMAIN preferred_parent_list[n], Unlinked(n, i)
      PROVE  NoSelf'
  <2> DEFINE list == preferred_parent_list[n]
             new == Dropped(list, i)
  <2>1. preferred_parent_list' = [preferred_parent_list EXCEPT ![n] = new]
    BY <1>4 DEF Unlinked
  <2>2. /\ Len(list) \in Nat /\ DOMAIN list = 1 .. Len(list)
        /\ new \in Seq(Entry) /\ Len(new) = Len(list) - 1
        /\ \A j \in 1 .. Len(list) - 1 : new[j] = IF j < i THEN list[j] ELSE list[j + 1]
    BY <1>1, DroppedProperties, LenProperties
  <2>3. DOMAIN new = 1 .. Len(new)
    BY <2>2, LenProperties
  <2> HIDE DEF new, list
  <2>4. ASSUME NEW j \in DOMAIN new PROVE \E k \in DOMAIN list : new[j] = list[k]
    <3>1. j \in 1 .. Len(list) - 1 /\ j \in DOMAIN list /\ j + 1 \in DOMAIN list
      BY <2>2, <2>3
    <3> QED
      BY <2>2, <3>1
  <2>5. \A j \in DOMAIN new : new[j].id # n
    BY <2>4 DEF NoSelf, list
  <2>6. ASSUME NEW k \in Node, NEW j \in DOMAIN preferred_parent_list'[k]
        PROVE  preferred_parent_list'[k][j].id # k
    <3>1. CASE k = n
      BY <2>1, <2>5, <2>6, <3>1 DEF TypeOK
    <3>2. CASE k # n
      BY <2>1, <2>6, <3>2 DEF TypeOK, NoSelf
    <3> QED
      BY <3>1, <3>2
  <2> QED
    BY <2>6 DEF NoSelf
<1>5. ASSUME NEW n \in Node, Forgotten(n) PROVE NoSelf'
  BY <1>5 DEF Forgotten, NoSelf, TypeOK
<1>6. ASSUME NEW n \in Node, broadcast_rssi(n) PROVE UNCHANGED table
  BY <1>6 DEF broadcast_rssi, table
<1>7. ASSUME NEW n \in Node, NEW m \in Node, NEW rssi \in Rssi[m][n],
             register_parent(n, m, rssi)
      PROVE  NoSelf'
  <2>1. air[m][n] + rssi \in Metric
    BY <1>7, SumType DEF register_parent
  <2>2. n # m
    BY RssiAssumption
  <2>3. UNCHANGED table \/ Filed(n, m, air[m][n] + rssi)
    BY <1>7, RegisterParentCases DEF table, Filed
  <2> QED
    BY <1>2, <1>3, <2>1, <2>2, <2>3
<1>8. ASSUME NEW n \in Node, NEW i \in DOMAIN preferred_parent_list[n],
             keepalive_expired(n, i)
      PROVE  Unlinked(n, i)
  BY <1>8 DEF keepalive_expired, Unlinked, TypeOK
<1>9. ASSUME NEW n \in Node, Crash(n) PROVE Forgotten(n)
  BY <1>9 DEF Crash, Forgotten
<1>10. ASSUME NEW n \in Node, Restart(n) PROVE UNCHANGED table
  BY <1>10 DEF Restart, table
<1>11. UNCHANGED vars => UNCHANGED table
  BY DEF vars, table
<1> QED
  BY <1>2, <1>4, <1>5, <1>6, <1>7, <1>8, <1>9, <1>10, <1>11 DEF Next

\* A parent chosen on a beacon is an improvement, or, after a failure, a belief.
LEMMA ChoiceIsAbstract ==
  ASSUME StaticLinks, TypeOK, TypeOK', NoSelf', PathRises',
         faults' = 0 => \A k \in Node : my_path_rssi[k] =< my_path_rssi'[k],
         NEW n \in Node \ {Root}, NEW list \in Seq(Entry), NEW i \in DOMAIN list,
         Wins(list, i), preferred_parent_list'[n] = list,
         best_parent_id' = [best_parent_id EXCEPT ![n] = list[i].id],
         my_path_rssi' = [my_path_rssi EXCEPT ![n] = list[i].rssi_p],
         UNCHANGED faults
  PROVE  DV!Next
<1> DEFINE m == list[i].id
           v == list[i].rssi_p
<1>1. list[i] \in Entry
  BY LenProperties, ElementOfSeq
<1>2. m \in Node \ {n} /\ v \in Int
  <2>1. m # n
    BY DEF NoSelf
  <2> QED
    BY <1>1, <2>1, NoRouteAssumption DEF Entry, Metric
<1>3. NoRoute < v /\ v < 0
  BY DEF Wins, Eligible
<1>4. DV!Take(n, m, v)
  BY DEF DV!Take
<1>5. faults \in Nat /\ NoRoute \in Int
  BY BoundAssumption, NoRouteAssumption DEF TypeOK
<1>6. my_path_rssi'[n] = v /\ best_parent_id'[n] = m /\ my_path_rssi'[m] = my_path_rssi[m]
  BY <1>2 DEF TypeOK
<1>7. my_path_rssi[n] \in Int /\ my_path_rssi[m] \in Int
  BY <1>2, NoRouteAssumption DEF TypeOK
<1> HIDE DEF m, v
<1>8. CASE faults > 0
  <2>1. v \in NoRoute + 1 .. -1
    BY <1>2, <1>3, <1>5
  <2>2. DV!Believe(n, m)
    BY <1>4, <1>8, <2>1 DEF DV!Believe
  <2> QED
    BY <1>2, <2>2 DEF DV!Next
<1>9. CASE ~ (faults > 0)
  <2>1. faults = 0 /\ faults' = 0
    BY <1>5, <1>9
  <2>2. m # NoNode
    BY <1>2, NodeAssumption
  <2>3. PICK rssi \in Rssi[m][n] : v =< my_path_rssi[m] + rssi
    BY <1>6, <2>1, <2>2 DEF PathRises
  <2>4. rssi \in Int
    <3>1. \A s, t \in Node : Rssi[s][t] \in SUBSET (-128 .. 127)
      BY RssiAssumption
    <3>2. Rssi[m][n] \in SUBSET (-128 .. 127)
      BY <1>2, <3>1
    <3>3. rssi \in -128 .. 127
      BY <2>3, <3>2
    <3> QED
      BY <3>3
  <2>5. my_path_rssi[n] =< v
    BY <1>6, <2>1
  <2>6. v \in my_path_rssi[n] .. my_path_rssi[m] + rssi
    BY <1>2, <1>7, <2>3, <2>4, <2>5
  <2>7. DV!Improve(n, m)
    BY <1>3, <1>4, <1>9, <2>3, <2>6 DEF DV!Improve
  <2> QED
    BY <1>2, <2>7 DEF DV!Next
<1> QED
  BY <1>8, <1>9

\* Every step of the program is a step of the protocol, or none of its business.
LEMMA StepIsAbstract ==
  ASSUME StaticLinks, TypeOK, TypeOK', RouteIffParent, FaultFree, NoSelf, PathRises', [Next]_vars
  PROVE  [DV!Next]_(DV!vars)
<1>1. faults \in Nat /\ faults' \in Nat
  BY BoundAssumption DEF TypeOK
<1>2. faults' = 0 => faults = 0
  BY <1>1 DEF Next, vars, broadcast_rssi, register_parent, keepalive_expired, Crash, Restart
<1>3. faults' = 0 => \A n \in Node : my_path_rssi[n] =< my_path_rssi'[n]
  BY <1>2, NoBetterStep DEF FaultFree
<1>4. NoSelf'
  BY NoSelfStep
<1>5. ASSUME UNCHANGED <<best_parent_id, my_path_rssi, faults>> PROVE UNCHANGED DV!vars
  BY <1>5 DEF DV!vars
<1>6. ASSUME NEW n \in Node, NEW m \in Node, NEW rssi \in Rssi[m][n],
             register_parent(n, m, rssi)
      PROVE  DV!Next \/ UNCHANGED DV!vars
  <2> DEFINE sum == air[m][n] + rssi
             new == Refreshed(preferred_parent_list[n], m, sum)
  <2>1. UNCHANGED faults
    BY <1>6 DEF register_parent
  <2>2. CASE UNCHANGED table
    BY <1>5, <2>1, <2>2 DEF table
  <2>3. CASE Filed(n, m, sum)
    <3>1. sum \in Metric /\ preferred_parent_list[n] \in Seq(Entry)
      BY <1>6, SumType DEF register_parent, TypeOK
    <3>2. /\ new \in Seq(Entry) /\ SelectParent(n, new)
          /\ preferred_parent_list' = [preferred_parent_list EXCEPT ![n] = new]
      BY <2>3, <3>1, RefreshedProperties DEF Filed
    <3>3. preferred_parent_list'[n] = new
      BY <3>2 DEF TypeOK
    <3> HIDE DEF new
    <3>4. CASE UNCHANGED <<best_parent_id, my_path_rssi>>
      BY <1>5, <2>1, <3>4
    <3>5. ASSUME NEW i \in DOMAIN new, n # Root, Wins(new, i),
                 best_parent_id' = [best_parent_id EXCEPT ![n] = new[i].id],
                 my_path_rssi' = [my_path_rssi EXCEPT ![n] = new[i].rssi_p]
          PROVE  DV!Next
      BY <1>3, <1>4, <2>1, <3>2, <3>3, <3>5, ChoiceIsAbstract
    <3> QED
      BY <3>2, <3>4, <3>5, SelectParentCases
  <2> QED
    BY <1>6, <2>2, <2>3, RegisterParentCases DEF table, Filed
<1>7. ASSUME NEW n \in Node, NEW i \in DOMAIN preferred_parent_list[n],
             keepalive_expired(n, i)
      PROVE  DV!Next
  <2> DEFINE m == preferred_parent_list[n][i].id
  <2>1. m \in Node
    <3>1. preferred_parent_list[n] \in Seq(Entry)
      BY DEF TypeOK
    <3>2. preferred_parent_list[n][i] \in Entry
      BY <3>1, LenProperties, ElementOfSeq
    <3> QED
      BY <3>2 DEF Entry
  <2>2. faults' > 0
    <3>1. CASE up[m]
      BY <1>1, <1>7, <3>1 DEF keepalive_expired
    <3>2. CASE ~ up[m]
      <4>1. faults' = faults
        BY <1>7, <3>2 DEF keepalive_expired
      <4>2. faults # 0
        BY <2>1, <3>2 DEF FaultFree, NoBetterThanSource
      <4> QED
        BY <1>1, <4>1, <4>2
    <3> QED
      BY <3>1, <3>2
  <2>3. LoseParent(n, m)
    BY <1>7 DEF keepalive_expired
  <2> HIDE DEF m
  <2>4. DV!Take(n, NoNode, DV!Alone(n)) \/ UNCHANGED <<best_parent_id, my_path_rssi>>
    <3>1. CASE best_parent_id[n] = m
      <4>1. n # Root
        BY <2>1, <3>1, NodeAssumption DEF RouteIffParent
      <4> QED
        BY <2>3, <3>1, <4>1 DEF LoseParent, DV!Take, DV!Alone
    <3>2. CASE best_parent_id[n] # m
      BY <2>3, <3>2 DEF LoseParent
    <3> QED
      BY <3>1, <3>2
  <2>5. DV!Fail(n)
    BY <2>2, <2>4 DEF DV!Fail
  <2> QED
    BY <2>5 DEF DV!Next
<1>8. ASSUME NEW n \in Node, Crash(n) PROVE DV!Next
  <2>1. faults' > 0
    BY <1>1, <1>8 DEF Crash
  <2>2. DV!Take(n, NoNode, DV!Alone(n))
    BY <1>8 DEF Crash, BootMetric, DV!Take, DV!Alone
  <2>3. DV!Fail(n)
    BY <2>1, <2>2 DEF DV!Fail
  <2> QED
    BY <2>3 DEF DV!Next
<1>9. ASSUME NEW n \in Node, broadcast_rssi(n) \/ Restart(n) PROVE UNCHANGED DV!vars
  BY <1>5, <1>9 DEF broadcast_rssi, Restart
<1>10. CASE UNCHANGED vars
  BY <1>5, <1>10 DEF vars
<1> QED
  BY <1>6, <1>7, <1>8, <1>9, <1>10 DEF Next

\* IsDistanceVector: over static links the program is a distance-vector
\* protocol, for any number of motes, any table and any delay of beacons.
THEOREM RefinesDistanceVector == ASSUME StaticLinks PROVE Spec => IsDistanceVector
<1>1. Init => DV!Init /\ NoSelf
  <2> SUFFICES ASSUME Init PROVE DV!Init /\ NoSelf
    OBVIOUS
  <2>1. ~ (faults > 0)
    BY DEF Init
  <2>2. DV!Init
    BY <2>1 DEF Init, BootMetric, DV!Init, DV!Alone
  <2>3. NoSelf
    BY DEF Init, NoSelf
  <2> QED
    BY <2>2, <2>3
<1>2. TypeOK /\ NoSelf /\ [Next]_vars => NoSelf'
  BY NoSelfStep
<1>3. /\ TypeOK /\ TypeOK' /\ RouteIffParent /\ FaultFree /\ NoSelf /\ PathRises'
      /\ [Next]_vars
      => [DV!Next]_(DV!vars)
  BY StepIsAbstract
<1> QED
  BY <1>1, <1>2, <1>3, TypeCorrect, AdvertisesOnlyRoutes, FaultFreeInvariant,
     MetricRisesTowardsRoot, PTL DEF Spec, IsDistanceVector, DV!Spec
===============================================================================
