-------------------------- MODULE RoutingTable_proofs --------------------------
(***************************************************************************)
(* Proofs about the routing tables of a network of any size.               *)
(***************************************************************************)
EXTENDS RoutingTable, SequenceTheorems, TLAPS

\* What is proved of the functions of tree_lib.c holds of every routing tree.
Growth == INSTANCE TreeGrowth_proofs WITH Id <- Node, tree <- routing_tree

\* The loops of update_routing_table.
Inner == INSTANCE FoldFacts WITH op <- AddEdge
Outer == INSTANCE FoldFacts WITH op <- MergeNode

LEMMA GrowthAssumption == Growth!TreeLibAssumption /\ Growth!IdAssumption
BY TreeLibAssumption, RoutingAssumption DEF Growth!TreeLibAssumption, Growth!IdAssumption

-----------------------------------------------------------------------------
(***************************************************************************)
(* The operators of the two modules are the same.                          *)
(***************************************************************************)
LEMMA SameTable ==
  ASSUME NEW t
  PROVE  /\ IsTable(t) <=> Growth!IsTree(t)
         /\ Edges(t) = Growth!Edges(t)
<1>1. IsTable(t) <=> Growth!IsTree(t)
  BY DEF IsTable, Growth!IsTree, Growth!Entry, Growth!Distinct
<1>2. Edges(t) = Growth!Edges(t)
  BY DEF Edges, Growth!Edges, ToSet, Growth!ToSet
<1> QED
  BY <1>1, <1>2

LEMMA SameAddChild ==
  ASSUME NEW t, NEW p, NEW c
  PROVE  Add_child(t, p, c) = Growth!Add_child(t, p, c)
BY DEF Add_child, Growth!Add_child, WithChild, Growth!WithChild, Contains, Growth!Contains,
       Index, Growth!Index, SelectInSeq, Growth!SelectInSeq, Min, Growth!Min

LEMMA SameSerialize ==
  ASSUME NEW t
  PROVE  Serialize(t) = Growth!Serialize(t)
BY DEF Serialize, Growth!Serialize, PutNode, Growth!PutNode, PutChild, Growth!PutChild,
       FoldLeft, Growth!FoldLeft, MapThenFoldSet, Growth!MapThenFoldSet,
       Max, Growth!Max, Fits, Growth!Fits, Digits, Growth!Digits

LEMMA SameDeserialize ==
  ASSUME NEW t
  PROVE  Deserialize(t) = Growth!Deserialize(t)
BY DEF Deserialize, Growth!Deserialize, FirstFew, Growth!FirstFew

LEMMA SameSearch ==
  ASSUME NEW t, NEW n, NEW d
  PROVE  /\ Search_forwarder(t, n, d) = Growth!Search_forwarder(t, n, d)
         /\ Upstream = Growth!Upstream /\ Diverges = Growth!Diverges
<1>1. ASSUME NEW id PROVE Index(t, id) = Growth!Index(t, id)
  BY DEF Index, Growth!Index, SelectInSeq, Growth!SelectInSeq, Min, Growth!Min
<1>2. ASSUME NEW s PROVE FirstDecisive(s) = Growth!FirstDecisive(s)
  BY DEF FirstDecisive, Growth!FirstDecisive, SelectInSeq, Growth!SelectInSeq, Min, Growth!Min
<1>3. ASSUME NEW r PROVE find_in_subtree(t, r, d) = Growth!find_in_subtree(t, r, d)
  BY DEF find_in_subtree, Growth!find_in_subtree, ToSet, Growth!ToSet,
         Outcome, Growth!Outcome, FirstDecisive, Growth!FirstDecisive,
         Index, Growth!Index, SelectInSeq, Growth!SelectInSeq, Min, Growth!Min
<1>4. Search_forwarder(t, n, d) = Growth!Search_forwarder(t, n, d)
  BY <1>1, <1>2, <1>3
  DEF Search_forwarder, Growth!Search_forwarder, Upstream, Growth!Upstream,
      Diverges, Growth!Diverges
<1> QED
  BY <1>4 DEF Upstream, Growth!Upstream, Diverges, Growth!Diverges

LEMMA TableTakesChild ==
  ASSUME NEW t, IsTable(t), NEW p \in Node, NEW c \in Node
  PROVE  /\ IsTable(Add_child(t, p, c))
         /\ Edges(Add_child(t, p, c)) \subseteq Edges(t) \cup {<<p, c>>}
         /\ Edges(t) \subseteq Edges(Add_child(t, p, c))
         /\ Add_child(t, p, c) # << >>
         /\ Add_child(t, p, c)[1].id = IF t = << >> THEN p ELSE t[1].id
<1>1. Growth!IsTree(t)
  BY SameTable
<1>2. /\ Growth!IsTree(Growth!Add_child(t, p, c))
      /\ Growth!Edges(Growth!Add_child(t, p, c)) \subseteq Growth!Edges(t) \cup {<<p, c>>}
      /\ Growth!Edges(t) \subseteq Growth!Edges(Growth!Add_child(t, p, c))
      /\ Growth!Add_child(t, p, c) # << >>
      /\ Growth!Add_child(t, p, c)[1].id = IF t = << >> THEN p ELSE t[1].id
  BY <1>1, GrowthAssumption, Growth!AddChildValue
<1> QED
  BY <1>2, SameTable, SameAddChild

-----------------------------------------------------------------------------
(***************************************************************************)
(* What the actions do to a table.                                         *)
(***************************************************************************)
Entry == [id : Node, children : Seq(Node)]

\* What a reader, or the end of the buffer, leaves of a table.
LEMMA TableIsRead ==
  ASSUME NEW t, IsTable(t)
  PROVE  /\ IsTable(Deserialize(t))
         /\ Edges(Deserialize(t)) \subseteq Edges(t)
         /\ Deserialize(t) # << >> => t # << >> /\ Deserialize(t)[1].id = t[1].id
<1> DEFINE read == Growth!Deserialize(t)
<1>1. Growth!IsTree(t) /\ t \in Seq(Growth!Entry)
  BY SameTable DEF Growth!IsTree
<1>2. read \in Seq(Growth!Entry) /\ Growth!CutFrom(read, t)
  BY <1>1, GrowthAssumption, Growth!DeserializeValue
<1>3. /\ Growth!IsTree(read)
      /\ Growth!Edges(read) \subseteq Growth!Edges(t)
      /\ read # << >> => t # << >> /\ read[1].id = t[1].id
  BY <1>1, <1>2, GrowthAssumption, Growth!CutTreeValue
<1>4. Deserialize(t) = read
  BY SameDeserialize
<1> QED
  BY <1>3, <1>4, SameTable

\* Search_forwarder, on any table: it names a child below which the destination
\* is, or goes upstream when the destination is below none of them.
Reachable(t, r, d) ==
  \A S \in SUBSET Node : (r \in S /\ \A e \in Edges(t) : e[1] \in S => e[2] \in S) => d \in S

LEMMA TableIsSearched ==
  ASSUME NEW t, IsTable(t), NEW n \in Node, NEW d \in Node
  PROVE  LET next == Search_forwarder(t, n, d)
         IN  /\ next \in Node \cup {Upstream, Diverges}
             /\ next \in Node => <<n, next>> \in Edges(t) /\ Reachable(t, next, d)
             /\ next = Upstream => \A c \in Node : <<n, c>> \in Edges(t) => ~ Reachable(t, c, d)
             /\ next = Diverges => \E e \in Edges(t) : /\ Reachable(t, n, e[1])
                                                      /\ Reachable(t, e[2], e[1])
<1>1. Growth!IsTree(t)
  BY SameTable
<1> DEFINE next == Growth!Search_forwarder(t, n, d)
<1>2. /\ next \in Node \cup {Growth!Upstream, Growth!Diverges}
      /\ next \in Node => <<n, next>> \in Growth!Edges(t) /\ Growth!Reachable(t, next, d)
      /\ next = Growth!Upstream
           => \A c \in Node : <<n, c>> \in Growth!Edges(t) => ~ Growth!Reachable(t, c, d)
      /\ next = Growth!Diverges => Growth!CycleBelow(t, n)
  BY <1>1, GrowthAssumption, Growth!SearchValue
<1> HIDE DEF next
<1>3. /\ Search_forwarder(t, n, d) = next
      /\ Upstream = Growth!Upstream /\ Diverges = Growth!Diverges
  BY SameSearch DEF next
<1>4. Growth!Edges(t) = Edges(t)
  BY SameTable
<1>5. \A x, y : Growth!Reachable(t, x, y) <=> Reachable(t, x, y)
  BY <1>4 DEF Reachable, Growth!Reachable
<1> QED
  BY <1>2, <1>3, <1>4, <1>5 DEF Growth!CycleBelow

LEMMA TableIsWritten ==
  ASSUME NEW t, IsTable(t)
  PROVE  /\ IsTable(Serialize(t).segments)
         /\ Edges(Serialize(t).segments) \subseteq Edges(t)
         /\ Serialize(t).segments # << >> =>
              t # << >> /\ Serialize(t).segments[1].id = t[1].id
<1> DEFINE segments == Growth!Serialize(t).segments
<1>1. Growth!IsTree(t) /\ t \in Seq(Growth!Entry)
  BY SameTable DEF Growth!IsTree
<1>2. segments \in Seq(Growth!Entry) /\ Growth!CutFrom(segments, t)
  BY <1>1, GrowthAssumption, Growth!SerializeValue DEF Growth!Text
<1>3. /\ Growth!IsTree(segments)
      /\ Growth!Edges(segments) \subseteq Growth!Edges(t)
      /\ segments # << >> => t # << >> /\ segments[1].id = t[1].id
  BY <1>1, <1>2, GrowthAssumption, Growth!CutTreeValue
<1>4. Serialize(t).segments = segments
  BY SameSerialize
<1> QED
  BY <1>3, <1>4, SameTable

\* A table with a single entry that has no child.
LEMMA LeafTable ==
  ASSUME NEW n \in Node
  PROVE  /\ IsTable(<<[id |-> n, children |-> << >>]>>)
         /\ Edges(<<[id |-> n, children |-> << >>]>>) = {}
         /\ <<[id |-> n, children |-> << >>]>>[1].id = n
<1> DEFINE leaf == [id |-> n, children |-> << >>]
           t == <<leaf>>
<1>1. leaf \in [id : Node, children : Seq(Node)] /\ leaf.id = n /\ leaf.children = << >>
  OBVIOUS
<1> HIDE DEF leaf
<1>2. /\ t \in Seq([id : Node, children : Seq(Node)]) /\ Len(t) = 1 /\ DOMAIN t = 1 .. 1
      /\ t[1] = leaf
  BY <1>1
<1> HIDE DEF t
<1>3. \A i \in DOMAIN t : i = 1 /\ t[i] = leaf
  BY <1>2
<1>4. Len(leaf.children) = 0 /\ DOMAIN leaf.children = {} /\ ToSet(leaf.children) = {}
  BY <1>1 DEF ToSet
<1>5. MaxTreeNodes >= 1 /\ MaxChildren >= 0
  BY TreeLibAssumption
<1>6. IsTable(t)
  BY <1>2, <1>3, <1>4, <1>5 DEF IsTable
<1>7. Edges(t) = {}
  BY <1>3, <1>4 DEF Edges
<1> QED
  BY <1>1, <1>2, <1>6, <1>7 DEF t, leaf

LEMMA EmptyTable == IsTable(<< >>) /\ Edges(<< >>) = {}
BY TreeLibAssumption DEF IsTable, Edges

\* The tables that begin with first, hold the edges of kept and have no other
\* than those of edges.
Tables(first, kept, edges) ==
  { t \in Seq(Entry) : /\ IsTable(t) /\ t # << >> /\ t[1].id = first
                       /\ kept \subseteq Edges(t) /\ Edges(t) \subseteq edges }

LEMMA TablesTakeChild ==
  ASSUME NEW first, NEW kept, NEW edges, NEW t \in Tables(first, kept, edges),
         NEW p \in Node, NEW c \in Node, <<p, c>> \in edges
  PROVE  Add_child(t, p, c) \in Tables(first, kept, edges)
<1>1. /\ IsTable(t) /\ t # << >> /\ t[1].id = first
      /\ kept \subseteq Edges(t) /\ Edges(t) \subseteq edges
  BY DEF Tables
<1>2. /\ IsTable(Add_child(t, p, c))
      /\ Edges(Add_child(t, p, c)) \subseteq Edges(t) \cup {<<p, c>>}
      /\ Edges(t) \subseteq Edges(Add_child(t, p, c))
      /\ Add_child(t, p, c) # << >>
      /\ Add_child(t, p, c)[1].id = t[1].id
  BY <1>1, TableTakesChild
<1>3. Add_child(t, p, c) \in Seq(Entry)
  BY <1>2 DEF IsTable, Entry
<1> QED
  BY <1>1, <1>2, <1>3 DEF Tables

\* The inner loop registers edges of the entry.
LEMMA MergeNodeValue ==
  ASSUME NEW first, NEW kept, NEW edges, NEW t \in Tables(first, kept, edges), NEW e \in Entry,
         \A c \in ToSet(e.children) : <<e.id, c>> \in edges
  PROVE  MergeNode(t, e) \in Tables(first, kept, edges)
<1> DEFINE loop == EdgesOf(e)
           T == [i \in 0 .. Len(loop) |-> Tables(first, kept, edges)]
<1>1. /\ e.id \in Node /\ e.children \in Seq(Node) /\ Len(e.children) \in Nat
      /\ DOMAIN e.children = 1 .. Len(e.children)
  BY DEF Entry
<1>2. /\ loop \in Seq(Node \X Node) /\ Len(loop) = Len(e.children) /\ Len(loop) \in Nat
      /\ \A i \in 1 .. Len(loop) : loop[i] = <<e.id, e.children[i]>>
  <2>1. loop = [i \in 1 .. Len(e.children) |-> <<e.id, e.children[i]>>]
    BY <1>1 DEF EdgesOf
  <2> HIDE DEF loop
  <2>2. \A i \in 1 .. Len(e.children) : <<e.id, e.children[i]>> \in Node \X Node
    BY <1>1
  <2> QED
    BY <1>1, <2>1, <2>2
<1> HIDE DEF loop
<1>3. t \in T[0]
  BY <1>2
<1>4. ASSUME NEW i \in 1 .. Len(loop), NEW u \in T[i - 1] PROVE AddEdge(u, loop[i]) \in T[i]
  <2>1. u \in Tables(first, kept, edges)
    BY <1>2
  <2>2. e.children[i] \in ToSet(e.children) /\ e.children[i] \in Node
    BY <1>1, <1>2 DEF ToSet
  <2>3. <<e.id, e.children[i]>> \in edges
    BY <2>2
  <2>4. AddEdge(u, loop[i]) = Add_child(u, e.id, e.children[i])
    BY <1>2 DEF AddEdge
  <2>5. Add_child(u, e.id, e.children[i]) \in Tables(first, kept, edges)
    BY <1>1, <2>1, <2>2, <2>3, TablesTakeChild
  <2> QED
    BY <1>2, <2>4, <2>5
<1>5. T[Len(loop)] = Tables(first, kept, edges)
  BY <1>2
<1> HIDE DEF T
<1>6. Inner!Fold(t, loop) \in T[Len(loop)]
  BY <1>2, <1>3, <1>4, Inner!FoldRule
<1>7. FoldLeft(AddEdge, t, loop) = Inner!Fold(t, loop)
  BY DEF FoldLeft, MapThenFoldSet, Max, Inner!Fold, Inner!FoldLeft,
         Inner!MapThenFoldSet, Inner!Max
<1> QED
  BY <1>5, <1>6, <1>7 DEF MergeNode, loop

LEMMA EdgesValue ==
  ASSUME NEW t, NEW i \in DOMAIN t, NEW c \in ToSet(t[i].children)
  PROVE  <<t[i].id, c>> \in Edges(t)
BY DEF Edges

\* The outer loop: what is merged has the edges of both and the new one.
LEMMA MergeValue ==
  ASSUME NEW t, IsTable(t), NEW n \in Node, NEW r, IsTable(r), r # << >>,
         NEW edges, Edges(t) \subseteq edges, Edges(r) \subseteq edges,
         <<n, r[1].id>> \in edges
  PROVE  Merge(t, n, r) \in Tables(IF t = << >> THEN n ELSE t[1].id, Edges(t), edges)
<1> DEFINE first == IF t = << >> THEN n ELSE t[1].id
           base == Add_child(t, n, r[1].id)
           T == [i \in 0 .. Len(r) |-> Tables(first, Edges(t), edges)]
<1>1. r \in Seq(Entry) /\ Len(r) \in Nat /\ DOMAIN r = 1 .. Len(r) /\ 1 \in 1 .. Len(r)
  <2>1. r \in Seq(Entry)
    BY DEF IsTable, Entry
  <2> QED
    BY <2>1
<1>2. r[1].id \in Node
  <2>1. r[1] \in Entry
    BY <1>1
  <2> QED
    BY <2>1 DEF Entry
<1>3. base \in Tables(first, Edges(t), edges)
  <2>1. /\ IsTable(base) /\ Edges(base) \subseteq Edges(t) \cup {<<n, r[1].id>>}
        /\ Edges(t) \subseteq Edges(base)
        /\ base # << >> /\ base[1].id = first
    BY <1>2, TableTakesChild
  <2>2. base \in Seq(Entry)
    BY <2>1 DEF IsTable, Entry
  <2> HIDE DEF base, first
  <2> QED
    BY <2>1, <2>2 DEF Tables
<1> HIDE DEF base, first
<1>4. base \in T[0]
  BY <1>1, <1>3
<1>5. ASSUME NEW i \in 1 .. Len(r), NEW u \in T[i - 1] PROVE MergeNode(u, r[i]) \in T[i]
  <2>1. u \in Tables(first, Edges(t), edges) /\ r[i] \in Entry
    BY <1>1
  <2>2. \A c \in ToSet(r[i].children) : <<r[i].id, c>> \in edges
    BY <1>1, EdgesValue
  <2>3. MergeNode(u, r[i]) \in Tables(first, Edges(t), edges)
    BY <2>1, <2>2, MergeNodeValue
  <2> QED
    BY <1>1, <2>3
<1>6. T[Len(r)] = Tables(first, Edges(t), edges)
  BY <1>1
<1> HIDE DEF T
<1>7. Outer!Fold(base, r) \in T[Len(r)]
  BY <1>1, <1>4, <1>5, Outer!FoldRule
<1>8. FoldLeft(MergeNode, base, r) = Outer!Fold(base, r)
  BY DEF FoldLeft, MapThenFoldSet, Max, Outer!Fold, Outer!FoldLeft,
         Outer!MapThenFoldSet, Outer!Max
<1> QED
  BY <1>6, <1>7, <1>8 DEF Merge, base, first

-----------------------------------------------------------------------------
(***************************************************************************)
(* The inductive invariant.  A table on its way tells the receiver who     *)
(* sent it, by its first entry, and was sent to a parent of that time; a   *)
(* mote registers the first entry of what it reads as its child, so the    *)
(* new edge is one that was.                                               *)
(***************************************************************************)
\* The routing tree of n; a table from s for n; the buffer of n.
Own(t, n) == IsTable(t) /\ Edges(t) \subseteq once /\ (t # << >> => t[1].id = n)
Sent(t, s, n) ==
  IsTable(t) /\ t # << >> /\ t[1].id = s /\ Edges(t) \subseteq once /\ <<n, s>> \in once
Received(t, n) ==
  IsTable(t) /\ t # << >> /\ Edges(t) \subseteq once /\ <<n, t[1].id>> \in once

Typed ==
  /\ best_parent_id \in [Node -> Node \cup {NoNode}]
  /\ DOMAIN routing_tree = Node
  /\ DOMAIN ctrl = Node /\ \A s \in Node : DOMAIN ctrl[s] = Node
  /\ DOMAIN ctrl_payload = Node
  /\ once \subseteq Node \X Node

IInv ==
  /\ Typed
  /\ \A n \in Node : best_parent_id[n] # NoNode => <<best_parent_id[n], n>> \in once
  /\ \A n \in Node : Own(routing_tree[n], n)
  /\ \A s, n \in Node : ctrl[s][n] # NoTable => Sent(ctrl[s][n], s, n)
  /\ \A n \in Node : ctrl_payload[n] # NoTable => Received(ctrl_payload[n], n)

\* An event finds a table in the buffer; the bounds of the counters.
Events ==
  /\ posted \in [Node -> 0 .. QueueSize]
  /\ \A n \in Node : posted[n] > 0 => ctrl_payload[n] # NoTable
  /\ changes \in 0 .. MaxChanges

LEMMA InitIInv == Init => IInv
<1> SUFFICES ASSUME Init PROVE IInv
  OBVIOUS
<1> USE DEF Init
<1>1. Typed
  BY DEF Typed
<1>2. \A n \in Node : best_parent_id[n] = NoNode /\ ctrl_payload[n] = NoTable
  OBVIOUS
<1>3. \A s, n \in Node : ctrl[s][n] = NoTable
  OBVIOUS
<1>4. ASSUME NEW n \in Node PROVE Own(routing_tree[n], n)
  <2>1. routing_tree[n] = BootTree(n)
    OBVIOUS
  <2> QED
    BY <2>1, LeafTable, EmptyTable DEF BootTree, Own
<1> QED
  BY <1>1, <1>2, <1>3, <1>4 DEF IInv

LEMMA ChooseParentKeeps ==
  ASSUME IInv, NEW n \in Node, NEW p \in Candidates[n], ChooseParent(n, p)
  PROVE  IInv'
<1>1. /\ best_parent_id' = [best_parent_id EXCEPT ![n] = p]
      /\ once' = once \cup {<<p, n>>}
      /\ routing_tree' = routing_tree /\ ctrl' = ctrl /\ ctrl_payload' = ctrl_payload
  BY DEF ChooseParent
<1>2. p \in Node /\ once \subseteq once'
  BY <1>1, RoutingAssumption
<1>3. Typed'
  BY <1>1, <1>2 DEF IInv, Typed
<1>4. \A m \in Node : best_parent_id'[m] # NoNode => <<best_parent_id'[m], m>> \in once'
  <2> SUFFICES ASSUME NEW m \in Node, best_parent_id'[m] # NoNode
               PROVE  <<best_parent_id'[m], m>> \in once'
    OBVIOUS
  <2>1. best_parent_id \in [Node -> Node \cup {NoNode}]
    BY DEF IInv, Typed
  <2>2. CASE m = n
    BY <1>1, <2>1, <2>2
  <2>3. CASE m # n
    BY <1>1, <2>1, <2>3 DEF IInv
  <2> QED
    BY <2>2, <2>3
<1>5. \A m \in Node : Own(routing_tree[m], m)'
  BY <1>1, <1>2 DEF IInv, Own
<1>6. \A s, m \in Node : (ctrl[s][m] # NoTable => Sent(ctrl[s][m], s, m))'
  BY <1>1, <1>2 DEF IInv, Sent
<1>7. \A m \in Node : (ctrl_payload[m] # NoTable => Received(ctrl_payload[m], m))'
  BY <1>1, <1>2 DEF IInv, Received
<1> QED
  BY <1>3, <1>4, <1>5, <1>6, <1>7 DEF IInv

\* The steps that leave the history and all tables alone.
LEMMA ParentKeeps ==
  ASSUME IInv, NEW n \in Node,
         \/ best_parent_id' = [best_parent_id EXCEPT ![n] = NoNode]
         \/ best_parent_id' = best_parent_id,
         UNCHANGED <<routing_tree, ctrl, ctrl_payload, once>>
  PROVE  IInv'
<1>1. Typed'
  BY DEF IInv, Typed
<1>2. \A m \in Node : best_parent_id'[m] # NoNode => <<best_parent_id'[m], m>> \in once'
  BY DEF IInv, Typed
<1>3. \A m \in Node : Own(routing_tree[m], m)'
  BY DEF IInv, Own
<1>4. \A s, m \in Node : (ctrl[s][m] # NoTable => Sent(ctrl[s][m], s, m))'
  BY DEF IInv, Sent
<1>5. \A m \in Node : (ctrl_payload[m] # NoTable => Received(ctrl_payload[m], m))'
  BY DEF IInv, Received
<1> QED
  BY <1>1, <1>2, <1>3, <1>4, <1>5 DEF IInv

LEMMA LoseParentKeeps ==
  ASSUME IInv, NEW n \in Node, LoseParent(n)
  PROVE  IInv'
BY ParentKeeps DEF LoseParent

LEMMA RebootKeeps ==
  ASSUME IInv, NEW n \in Node, Reboot(n)
  PROVE  IInv'
<1>1. /\ best_parent_id' = [best_parent_id EXCEPT ![n] = NoNode]
      /\ routing_tree' = [routing_tree EXCEPT ![n] = BootTree(n)]
      /\ ctrl' = [s \in Node |-> [ctrl[s] EXCEPT ![n] = NoTable]]
      /\ ctrl_payload' = [ctrl_payload EXCEPT ![n] = NoTable]
      /\ once' = once
  BY DEF Reboot
<1>2. Typed
  BY DEF IInv
<1>3. Typed'
  BY <1>1, <1>2 DEF Typed
<1>4. \A m \in Node : best_parent_id'[m] # NoNode => <<best_parent_id'[m], m>> \in once'
  BY <1>1, <1>2 DEF IInv, Typed
<1>5. ASSUME NEW m \in Node PROVE Own(routing_tree[m], m)'
  <2>1. CASE m = n
    <3>1. routing_tree'[m] = BootTree(n)
      BY <1>1, <1>2, <2>1 DEF Typed
    <3> QED
      BY <2>1, <3>1, LeafTable, EmptyTable DEF BootTree, Own
  <2>2. CASE m # n
    <3>1. routing_tree'[m] = routing_tree[m] /\ Own(routing_tree[m], m)
      BY <1>1, <1>2, <2>2 DEF Typed, IInv
    <3> QED
      BY <1>1, <3>1 DEF Own
  <2> QED
    BY <2>1, <2>2
<1>6. ASSUME NEW s \in Node, NEW m \in Node
      PROVE  (ctrl[s][m] # NoTable => Sent(ctrl[s][m], s, m))'
  <2>1. ctrl'[s][m] = ctrl[s][m] \/ ctrl'[s][m] = NoTable
    BY <1>1, <1>2 DEF Typed
  <2> QED
    BY <1>1, <2>1 DEF IInv, Sent
<1>7. ASSUME NEW m \in Node
      PROVE  (ctrl_payload[m] # NoTable => Received(ctrl_payload[m], m))'
  <2>1. ctrl_payload'[m] = ctrl_payload[m] \/ ctrl_payload'[m] = NoTable
    BY <1>1, <1>2 DEF Typed
  <2> QED
    BY <1>1, <2>1 DEF IInv, Received
<1> QED
  BY <1>3, <1>4, <1>5, <1>6, <1>7 DEF IInv

LEMMA SendKeeps ==
  ASSUME IInv, NEW n \in Node, send_routing_table(n)
  PROVE  IInv'
<1> DEFINE p == best_parent_id[n]
<1>1. /\ p # NoNode /\ Report(n) # << >>
      /\ ctrl' = [ctrl EXCEPT ![n][p] = Report(n)]
      /\ best_parent_id' = best_parent_id /\ routing_tree' = routing_tree
      /\ ctrl_payload' = ctrl_payload /\ once' = once
  BY DEF send_routing_table
<1>2. Typed
  BY DEF IInv
<1>3. p \in Node /\ <<p, n>> \in once
  BY <1>1, <1>2 DEF IInv, Typed
<1>4. Sent(Report(n), n, p)
  <2> DEFINE t == routing_tree[n]
  <2>1. Own(t, n)
    BY DEF IInv
  <2>2. CASE t = << >>
    <3>1. Report(n) = <<[id |-> n, children |-> << >>]>>
      BY <2>2 DEF Report
    <3> QED
      BY <1>1, <1>3, <3>1, LeafTable DEF Sent
  <2>3. CASE t # << >>
    <3>1. Report(n) = Serialize(t).segments
      BY <2>3 DEF Report
    <3> QED
      BY <1>1, <1>3, <2>1, <3>1, TableIsWritten DEF Sent, Own
  <2> QED
    BY <2>2, <2>3
<1>5. ASSUME NEW s \in Node, NEW m \in Node
      PROVE  (ctrl[s][m] # NoTable => Sent(ctrl[s][m], s, m))'
  <2>1. CASE s = n /\ m = p
    <3>1. ctrl'[s][m] = Report(n)
      BY <1>1, <1>2, <1>3, <2>1 DEF Typed
    <3> QED
      BY <1>1, <1>4, <2>1, <3>1 DEF Sent
  <2>2. CASE ~ (s = n /\ m = p)
    <3>1. ctrl'[s][m] = ctrl[s][m]
      BY <1>1, <1>2, <1>3, <2>2 DEF Typed
    <3> QED
      BY <1>1, <3>1 DEF IInv, Sent
  <2> QED
    BY <2>1, <2>2
<1>6. Typed'
  BY <1>1, <1>2, <1>3 DEF Typed
<1>7. \A m \in Node : best_parent_id'[m] # NoNode => <<best_parent_id'[m], m>> \in once'
  BY <1>1 DEF IInv
<1>8. \A m \in Node : Own(routing_tree[m], m)'
  BY <1>1 DEF IInv, Own
<1>9. \A m \in Node : (ctrl_payload[m] # NoTable => Received(ctrl_payload[m], m))'
  BY <1>1 DEF IInv, Received
<1> QED
  BY <1>5, <1>6, <1>7, <1>8, <1>9 DEF IInv

\* Whether or not the queue takes the event.
LEMMA ReceiveKeeps ==
  ASSUME IInv, NEW n \in Node, NEW s \in Node, NEW full, recv_uc(n, s, full)
  PROVE  IInv' /\ ctrl_payload'[n] # NoTable
               /\ \A m \in Node : m # n => ctrl_payload'[m] = ctrl_payload[m]
<1>1. /\ ctrl[s][n] # NoTable
      /\ ctrl' = [ctrl EXCEPT ![s][n] = NoTable]
      /\ ctrl_payload' = [ctrl_payload EXCEPT ![n] = ctrl[s][n]]
      /\ best_parent_id' = best_parent_id /\ routing_tree' = routing_tree /\ once' = once
  BY DEF recv_uc
<1>2. Typed
  BY DEF IInv
<1>3. Received(ctrl[s][n], n)
  BY <1>1 DEF IInv, Sent, Received
<1>4. ctrl_payload'[n] = ctrl[s][n] /\ \A m \in Node : m # n => ctrl_payload'[m] = ctrl_payload[m]
  BY <1>1, <1>2 DEF Typed
<1>5. Typed'
  BY <1>1, <1>2 DEF Typed
<1>6. ASSUME NEW r \in Node, NEW m \in Node
      PROVE  (ctrl[r][m] # NoTable => Sent(ctrl[r][m], r, m))'
  <2>1. ctrl'[r][m] = ctrl[r][m] \/ ctrl'[r][m] = NoTable
    BY <1>1, <1>2 DEF Typed
  <2> QED
    BY <1>1, <2>1 DEF IInv, Sent
<1>7. ASSUME NEW m \in Node
      PROVE  (ctrl_payload[m] # NoTable => Received(ctrl_payload[m], m))'
  BY <1>1, <1>3, <1>4 DEF IInv, Received
<1>8. \A m \in Node : best_parent_id'[m] # NoNode => <<best_parent_id'[m], m>> \in once'
  BY <1>1 DEF IInv
<1>9. \A m \in Node : Own(routing_tree[m], m)'
  BY <1>1 DEF IInv, Own
<1> QED
  BY <1>1, <1>4, <1>5, <1>6, <1>7, <1>8, <1>9 DEF IInv

\* An event that is handled: there is a table in the buffer.
LEMMA UpdateKeeps ==
  ASSUME IInv, NEW n \in Node, ctrl_payload[n] # NoTable, update_routing_table(n)
  PROVE  IInv'
<1> DEFINE t == routing_tree[n]
           r == Deserialize(ctrl_payload[n])
           u == IF r = << >> THEN t ELSE Merge(t, n, r)
<1>1. /\ routing_tree' = [routing_tree EXCEPT ![n] = u]
      /\ best_parent_id' = best_parent_id /\ ctrl' = ctrl
      /\ ctrl_payload' = ctrl_payload /\ once' = once
  BY DEF update_routing_table
<1>2. Typed /\ Own(t, n) /\ Received(ctrl_payload[n], n)
  BY DEF IInv
<1>3. Own(u, n)
  <2>1. CASE r = << >>
    BY <1>2, <2>1
  <2>2. CASE r # << >>
    <3>1. /\ IsTable(r) /\ Edges(r) \subseteq once /\ <<n, r[1].id>> \in once
          /\ IsTable(t) /\ Edges(t) \subseteq once
          /\ (IF t = << >> THEN n ELSE t[1].id) = n
      BY <1>2, <2>2, TableIsRead DEF Own, Received
    <3> HIDE DEF r, t
    <3>2. Merge(t, n, r) \in Tables(n, Edges(t), once)
      BY <2>2, <3>1, MergeValue
    <3> QED
      BY <2>2, <3>2 DEF Tables, Own
  <2> QED
    BY <2>1, <2>2
<1> HIDE DEF u
<1>4. Typed'
  BY <1>1, <1>2 DEF Typed
<1>5. ASSUME NEW m \in Node PROVE Own(routing_tree[m], m)'
  <2>1. CASE m = n
    <3>1. routing_tree'[m] = u
      BY <1>1, <1>2, <2>1 DEF Typed
    <3> QED
      BY <1>1, <1>3, <2>1, <3>1 DEF Own
  <2>2. CASE m # n
    <3>1. routing_tree'[m] = routing_tree[m]
      BY <1>1, <1>2, <2>2 DEF Typed
    <3> QED
      BY <1>1, <3>1 DEF IInv, Own
  <2> QED
    BY <2>1, <2>2
<1>6. \A m \in Node : best_parent_id'[m] # NoNode => <<best_parent_id'[m], m>> \in once'
  BY <1>1 DEF IInv
<1>7. \A s, m \in Node : (ctrl[s][m] # NoTable => Sent(ctrl[s][m], s, m))'
  BY <1>1 DEF IInv, Sent
<1>8. \A m \in Node : (ctrl_payload[m] # NoTable => Received(ctrl_payload[m], m))'
  BY <1>1 DEF IInv, Received
<1> QED
  BY <1>4, <1>5, <1>6, <1>7, <1>8 DEF IInv

LEMMA InitEvents == Init => Events
BY RoutingAssumption DEF Init, Events

LEMMA NextKeeps == IInv /\ Events /\ [Next]_vars => IInv' /\ Events'
<1> SUFFICES ASSUME IInv, Events, [Next]_vars PROVE IInv' /\ Events'
  OBVIOUS
<1>0. QueueSize \in Nat /\ MaxChanges \in Nat
  BY RoutingAssumption
<1>1. ASSUME NEW n \in Node, NEW p \in Candidates[n], ChooseParent(n, p) PROVE IInv' /\ Events'
  <2>1. /\ posted' = posted /\ ctrl_payload' = ctrl_payload
        /\ changes' = changes \/ (changes < MaxChanges /\ changes' = changes + 1)
    BY <1>1 DEF ChooseParent
  <2> QED
    BY <1>0, <1>1, <2>1, ChooseParentKeeps DEF Events
<1>2. ASSUME NEW n \in Node, LoseParent(n) PROVE IInv' /\ Events'
  <2>1. /\ posted' = posted /\ ctrl_payload' = ctrl_payload
        /\ changes < MaxChanges /\ changes' = changes + 1
    BY <1>2 DEF LoseParent
  <2> QED
    BY <1>0, <1>2, <2>1, LoseParentKeeps DEF Events
<1>3. ASSUME NEW n \in Node, Reboot(n) PROVE IInv' /\ Events'
  <2>1. /\ posted' = [posted EXCEPT ![n] = 0]
        /\ ctrl_payload' = [ctrl_payload EXCEPT ![n] = NoTable]
        /\ changes < MaxChanges /\ changes' = changes + 1
    BY <1>3 DEF Reboot
  <2>2. posted' \in [Node -> 0 .. QueueSize]
    BY <1>0, <2>1 DEF Events
  <2>3. ASSUME NEW m \in Node, posted'[m] > 0 PROVE ctrl_payload'[m] # NoTable
    <3>1. m # n
      BY <2>1, <2>3 DEF Events
    <3> QED
      BY <2>1, <2>3, <3>1 DEF Events, IInv, Typed
  <2>4. changes' \in 0 .. MaxChanges
    BY <1>0, <2>1 DEF Events
  <2> QED
    BY <1>3, <2>2, <2>3, <2>4, RebootKeeps DEF Events
<1>4. ASSUME NEW n \in Node, send_routing_table(n) PROVE IInv' /\ Events'
  <2>1. posted' = posted /\ ctrl_payload' = ctrl_payload /\ changes' = changes
    BY <1>4 DEF send_routing_table
  <2> QED
    BY <1>4, <2>1, SendKeeps DEF Events
<1>5. ASSUME NEW n \in Node, NEW s \in Node, recv_uc(n, s, posted[n] = QueueSize)
      PROVE  IInv' /\ Events'
  <2>1. /\ posted' = [posted EXCEPT ![n] = IF posted[n] = QueueSize THEN @ ELSE @ + 1]
        /\ changes' = changes
    BY <1>5 DEF recv_uc
  <2>2. /\ IInv' /\ ctrl_payload'[n] # NoTable
        /\ \A m \in Node : m # n => ctrl_payload'[m] = ctrl_payload[m]
    BY <1>5, ReceiveKeeps
  <2>3. posted' \in [Node -> 0 .. QueueSize]
    BY <1>0, <2>1 DEF Events
  <2>4. \A m \in Node : posted'[m] > 0 => ctrl_payload'[m] # NoTable
    BY <2>1, <2>2 DEF Events
  <2> QED
    BY <2>1, <2>2, <2>3, <2>4 DEF Events
<1>6. ASSUME NEW n \in Node, update_routing_table(n) PROVE IInv' /\ Events'
  <2>1. /\ posted[n] > 0 /\ posted' = [posted EXCEPT ![n] = @ - 1]
        /\ changes' = changes /\ ctrl_payload' = ctrl_payload
    BY <1>6 DEF update_routing_table
  <2>2. ctrl_payload[n] # NoTable
    BY <2>1 DEF Events
  <2>3. posted' \in [Node -> 0 .. QueueSize]
    BY <1>0, <2>1 DEF Events
  <2>4. \A m \in Node : posted'[m] > 0 => ctrl_payload'[m] # NoTable
    BY <2>1, <2>2 DEF Events
  <2> QED
    BY <1>6, <2>1, <2>2, <2>3, <2>4, UpdateKeeps DEF Events
<1>7. CASE UNCHANGED vars
  BY <1>7, ParentKeeps, RoutingAssumption DEF vars, Events
<1> QED
  BY <1>1, <1>2, <1>3, <1>4, <1>5, <1>6, <1>7 DEF Next

LEMMA Tracking == Spec => [](IInv /\ Events)
<1>1. Init => IInv /\ Events
  BY InitIInv, InitEvents
<1> QED
  BY <1>1, NextKeeps, PTL DEF Spec

-----------------------------------------------------------------------------
(***************************************************************************)
(* As long as no parent is lost or changed and nothing reboots: tables     *)
(* only grow, and what a mote knows beyond its own children, one of its    *)
(* children knows too.  A packet that is sent down finds its way down.     *)
(***************************************************************************)
\* A child of n holds the edge e.
Held(e, n) == \E c \in Node : best_parent_id[c] = n /\ e \in Edges(routing_tree[c])

Steady ==
  /\ \A e \in once : best_parent_id[e[2]] = e[1]
  /\ \A n \in Node : \A e \in Edges(routing_tree[n]) :
       Below(e[1], n) /\ (e[1] = n \/ Held(e, n))
  /\ \A s, n \in Node : ctrl[s][n] # NoTable => Edges(ctrl[s][n]) \subseteq Edges(routing_tree[s])
  /\ \A n \in Node : ctrl_payload[n] # NoTable =>
       Edges(ctrl_payload[n]) \subseteq Edges(routing_tree[ctrl_payload[n][1].id])

ParentsStay ==
  \A n \in Node : best_parent_id[n] # NoNode => best_parent_id'[n] = best_parent_id[n]
TablesGrow == \A n \in Node : Edges(routing_tree[n]) \subseteq Edges(routing_tree'[n])

\* A step of this module, with any queue, that finds a table for its event.
Step ==
  \/ \E n \in Node : \E p \in Candidates[n] : ChooseParent(n, p)
  \/ \E n \in Node : LoseParent(n) \/ Reboot(n) \/ send_routing_table(n)
  \/ \E n, s \in Node : \E full : recv_uc(n, s, full)
  \/ \E n \in Node : ctrl_payload[n] # NoTable /\ update_routing_table(n)
  \/ UNCHANGED vars

LEMMA BelowItself ==
  ASSUME NEW n \in Node
  PROVE  Below(n, n)
BY DEF Below

LEMMA BelowParent ==
  ASSUME NEW x \in Node, NEW c \in Node, NEW n \in Node, Below(x, c), best_parent_id[c] = n
  PROVE  Below(x, n)
<1>1. n # NoNode
  BY RoutingAssumption
<1> SUFFICES ASSUME NEW S \in SUBSET Node, x \in S,
                    \A m \in S : best_parent_id[m] \in S \cup {NoNode}
             PROVE  n \in S
  BY DEF Below
<1>2. c \in S
  BY DEF Below
<1> QED
  BY <1>1, <1>2

LEMMA BelowStays ==
  ASSUME ParentsStay, NEW x \in Node, NEW n \in Node, Below(x, n)
  PROVE  Below(x, n)'
<1> SUFFICES ASSUME NEW S \in SUBSET Node, x \in S,
                    \A m \in S : best_parent_id'[m] \in S \cup {NoNode}
             PROVE  n \in S
  BY DEF Below
<1>1. \A m \in S : best_parent_id[m] \in S \cup {NoNode}
  BY DEF ParentsStay
<1> QED
  BY <1>1 DEF Below

LEMMA HeldStays ==
  ASSUME ParentsStay, TablesGrow, NEW e, NEW n \in Node, Held(e, n)
  PROVE  Held(e, n)'
<1>1. PICK c \in Node : best_parent_id[c] = n /\ e \in Edges(routing_tree[c])
  BY DEF Held
<1>2. best_parent_id'[c] = n
  BY <1>1, RoutingAssumption DEF ParentsStay
<1>3. e \in Edges(routing_tree'[c])
  BY <1>1 DEF TablesGrow
<1>4. \E d \in Node : best_parent_id'[d] = n /\ e \in Edges(routing_tree'[d])
  BY <1>2, <1>3
<1> QED
  BY <1>4 DEF Held, Edges

\* What a step has to show.
LEMMA SteadyStays ==
  ASSUME IInv, Steady, ParentsStay, TablesGrow,
         \A e \in once' : best_parent_id'[e[2]] = e[1],
         \A n \in Node : \A e \in Edges(routing_tree'[n]) :
           e \in Edges(routing_tree[n]) \/ e[1] = n \/ (Below(e[1], n) /\ Held(e, n)),
         \A n \in Node : \A e \in Edges(routing_tree'[n]) : e[1] \in Node,
         \A s, n \in Node : ctrl'[s][n] # NoTable =>
           Edges(ctrl'[s][n]) \subseteq Edges(routing_tree'[s]),
         \A n \in Node : ctrl_payload'[n] # NoTable =>
           Edges(ctrl_payload'[n]) \subseteq Edges(routing_tree'[ctrl_payload'[n][1].id])
  PROVE  Steady'
<1>1. ASSUME NEW n \in Node, NEW e \in Edges(routing_tree'[n])
      PROVE  Below(e[1], n)' /\ (e[1] = n \/ Held(e, n)')
  <2>1. e[1] \in Node
    OBVIOUS
  <2>2. CASE e \in Edges(routing_tree[n])
    BY <2>1, <2>2, BelowStays, HeldStays DEF Steady
  <2>3. CASE e[1] = n
    BY <2>1, <2>3, BelowItself, BelowStays
  <2>4. CASE Below(e[1], n) /\ Held(e, n)
    BY <2>1, <2>4, BelowStays, HeldStays
  <2> QED
    BY <2>2, <2>3, <2>4
<1>2. \A n \in Node : \A e \in Edges(routing_tree[n])' :
        Below(e[1], n)' /\ (e[1] = n \/ Held(e, n)')
  BY <1>1 DEF Edges
<1>3. \A s, n \in Node : (ctrl[s][n] # NoTable => Edges(ctrl[s][n]) \subseteq Edges(routing_tree[s]))'
  BY DEF Edges
<1>4. \A n \in Node : (ctrl_payload[n] # NoTable =>
         Edges(ctrl_payload[n]) \subseteq Edges(routing_tree[ctrl_payload[n][1].id]))'
  BY DEF Edges
<1> QED
  BY <1>2, <1>3, <1>4 DEF Steady

LEMMA EdgesAreOfMotes ==
  ASSUME IInv
  PROVE  \A n \in Node : \A e \in Edges(routing_tree[n]) : e[1] \in Node /\ e[2] \in Node
BY DEF IInv, Own, Typed

LEMMA StepKeepsSteady ==
  ASSUME IInv, IInv', Steady, Step, changes = 0, changes' = 0
  PROVE  Steady' /\ ParentsStay /\ TablesGrow
<1>1. /\ Typed /\ Typed'
      /\ \A n \in Node : \A e \in Edges(routing_tree[n]) : e[1] \in Node
      /\ \A n \in Node : \A e \in Edges(routing_tree'[n]) : e[1] \in Node
  <2>1. \A n \in Node : (\A e \in Edges(routing_tree[n]) : e[1] \in Node)'
    BY DEF IInv, Own, Typed
  <2> QED
    BY <2>1, EdgesAreOfMotes DEF IInv, Edges
<1>2. ASSUME NEW n \in Node, NEW p \in Candidates[n], ChooseParent(n, p)
      PROVE  Steady' /\ ParentsStay /\ TablesGrow
  <2>1. /\ best_parent_id[n] = NoNode
        /\ best_parent_id' = [best_parent_id EXCEPT ![n] = p]
        /\ once' = once \cup {<<p, n>>}
        /\ routing_tree' = routing_tree /\ ctrl' = ctrl /\ ctrl_payload' = ctrl_payload
    <3>1. best_parent_id[n] # NoNode => changes' = changes + 1
      BY <1>2 DEF ChooseParent
    <3> QED
      BY <1>2, <3>1 DEF ChooseParent
  <2>2. best_parent_id'[n] = p /\ \A m \in Node : m # n => best_parent_id'[m] = best_parent_id[m]
    BY <1>1, <2>1 DEF Typed
  <2>3. ParentsStay /\ TablesGrow
    BY <2>1, <2>2 DEF ParentsStay, TablesGrow
  <2>4. \A e \in once' : best_parent_id'[e[2]] = e[1]
    <3> SUFFICES ASSUME NEW e \in once' PROVE best_parent_id'[e[2]] = e[1]
      OBVIOUS
    <3>1. CASE e = <<p, n>>
      BY <2>2, <3>1
    <3>2. CASE e \in once
      <4>1. e[1] \in Node /\ e[2] \in Node /\ best_parent_id[e[2]] = e[1]
        BY <1>1, <3>2 DEF Typed, Steady
      <4> QED
        BY <2>1, <2>2, <4>1, RoutingAssumption
    <3> QED
      BY <2>1, <3>1, <3>2
  <2>5. Steady'
    BY <1>1, <2>1, <2>3, <2>4, SteadyStays DEF Steady
  <2> QED
    BY <2>3, <2>5
<1>3. ASSUME NEW n \in Node, LoseParent(n) \/ Reboot(n) PROVE FALSE
  BY <1>3 DEF LoseParent, Reboot
<1>4. ASSUME NEW n \in Node, send_routing_table(n)
      PROVE  Steady' /\ ParentsStay /\ TablesGrow
  <2> DEFINE p == best_parent_id[n]
  <2>1. /\ p # NoNode
        /\ ctrl' = [ctrl EXCEPT ![n][p] = Report(n)]
        /\ best_parent_id' = best_parent_id /\ routing_tree' = routing_tree
        /\ ctrl_payload' = ctrl_payload /\ once' = once
    BY <1>4 DEF send_routing_table
  <2>2. p \in Node
    BY <1>1, <2>1 DEF Typed
  <2>3. Edges(Report(n)) \subseteq Edges(routing_tree[n])
    <3>1. IsTable(routing_tree[n])
      BY DEF IInv, Own
    <3>2. CASE routing_tree[n] = << >>
      <4>1. Report(n) = <<[id |-> n, children |-> << >>]>>
        BY <3>2 DEF Report
      <4> QED
        BY <4>1, LeafTable
    <3>3. CASE routing_tree[n] # << >>
      <4>1. Report(n) = Serialize(routing_tree[n]).segments
        BY <3>3 DEF Report
      <4> QED
        BY <3>1, <4>1, TableIsWritten
    <3> QED
      BY <3>2, <3>3
  <2>4. ParentsStay /\ TablesGrow
    BY <2>1 DEF ParentsStay, TablesGrow
  <2>5. \A s, m \in Node : ctrl'[s][m] # NoTable =>
          Edges(ctrl'[s][m]) \subseteq Edges(routing_tree'[s])
    <3> SUFFICES ASSUME NEW s \in Node, NEW m \in Node, ctrl'[s][m] # NoTable
                 PROVE  Edges(ctrl'[s][m]) \subseteq Edges(routing_tree[s])
      BY <2>1
    <3>1. CASE s = n /\ m = p
      <4>1. ctrl'[s][m] = Report(n)
        BY <1>1, <2>1, <2>2, <3>1 DEF Typed
      <4> QED
        BY <2>3, <3>1, <4>1
    <3>2. CASE ~ (s = n /\ m = p)
      <4>1. ctrl'[s][m] = ctrl[s][m]
        BY <1>1, <2>1, <2>2, <3>2 DEF Typed
      <4> QED
        BY <4>1 DEF Steady
    <3> QED
      BY <3>1, <3>2
  <2>6. Steady'
    BY <1>1, <2>1, <2>4, <2>5, SteadyStays DEF Steady
  <2> QED
    BY <2>4, <2>6
<1>5. ASSUME NEW n \in Node, NEW s \in Node, NEW full, recv_uc(n, s, full)
      PROVE  Steady' /\ ParentsStay /\ TablesGrow
  <2>1. /\ ctrl[s][n] # NoTable
        /\ ctrl' = [ctrl EXCEPT ![s][n] = NoTable]
        /\ ctrl_payload' = [ctrl_payload EXCEPT ![n] = ctrl[s][n]]
        /\ best_parent_id' = best_parent_id /\ routing_tree' = routing_tree /\ once' = once
    BY <1>5 DEF recv_uc
  <2>2. ParentsStay /\ TablesGrow
    BY <2>1 DEF ParentsStay, TablesGrow
  <2>3. \A r, m \in Node : ctrl'[r][m] # NoTable =>
          Edges(ctrl'[r][m]) \subseteq Edges(routing_tree'[r])
    <3>1. \A r, m \in Node : ctrl'[r][m] = ctrl[r][m] \/ ctrl'[r][m] = NoTable
      BY <1>1, <2>1 DEF Typed
    <3> QED
      BY <2>1, <3>1 DEF Steady
  <2>4. \A m \in Node : ctrl_payload'[m] # NoTable =>
          Edges(ctrl_payload'[m]) \subseteq Edges(routing_tree'[ctrl_payload'[m][1].id])
    <3>1. ctrl_payload'[n] = ctrl[s][n] /\ \A m \in Node : m # n => ctrl_payload'[m] = ctrl_payload[m]
      BY <1>1, <2>1 DEF Typed
    <3>2. ctrl[s][n][1].id = s /\ Edges(ctrl[s][n]) \subseteq Edges(routing_tree[s])
      BY <2>1 DEF IInv, Sent, Steady
    <3> QED
      BY <2>1, <3>1, <3>2 DEF Steady
  <2>5. Steady'
    BY <1>1, <2>1, <2>2, <2>3, <2>4, SteadyStays DEF Steady
  <2> QED
    BY <2>2, <2>5
<1>6. ASSUME NEW n \in Node, ctrl_payload[n] # NoTable, update_routing_table(n)
      PROVE  Steady' /\ ParentsStay /\ TablesGrow
  <2> DEFINE t == routing_tree[n]
             r == Deserialize(ctrl_payload[n])
             c == ctrl_payload[n][1].id
             u == IF r = << >> THEN t ELSE Merge(t, n, r)
             all == Edges(t) \cup Edges(r) \cup {<<n, c>>}
  <2>1. /\ routing_tree' = [routing_tree EXCEPT ![n] = u]
        /\ best_parent_id' = best_parent_id /\ ctrl' = ctrl
        /\ ctrl_payload' = ctrl_payload /\ once' = once
    BY <1>6 DEF update_routing_table
  <2>2. /\ Own(t, n) /\ Received(ctrl_payload[n], n)
        /\ Edges(ctrl_payload[n]) \subseteq Edges(routing_tree[c])
    BY <1>6 DEF IInv, Steady
  <2>3. c \in Node /\ best_parent_id[c] = n
    BY <1>1, <2>2 DEF Received, Typed, Steady
  <2>4. Edges(t) \subseteq Edges(u) /\ Edges(u) \subseteq all
    <3>1. CASE r = << >>
      BY <3>1
    <3>2. CASE r # << >>
      <4>1. IsTable(r) /\ r[1].id = c /\ IsTable(t)
        BY <2>2, <3>2, TableIsRead DEF Own, Received
      <4> HIDE DEF r, t, c
      <4>2. Merge(t, n, r) \in Tables(IF t = << >> THEN n ELSE t[1].id, Edges(t), all)
        BY <3>2, <4>1, MergeValue
      <4>3. u = Merge(t, n, r)
        BY <3>2
      <4> QED
        BY <4>2, <4>3 DEF Tables
    <3> QED
      BY <3>1, <3>2
  <2>5. Edges(r) \subseteq Edges(routing_tree[c])
    BY <2>2, TableIsRead DEF Received
  <2> HIDE DEF u, c, r
  <2>6. routing_tree'[n] = u /\ \A m \in Node : m # n => routing_tree'[m] = routing_tree[m]
    BY <1>1, <2>1 DEF Typed
  <2>7. ParentsStay /\ TablesGrow
    BY <2>1, <2>4, <2>6 DEF ParentsStay, TablesGrow
  <2>8. ASSUME NEW m \in Node, NEW e \in Edges(routing_tree'[m])
        PROVE  e \in Edges(routing_tree[m]) \/ e[1] = m \/ (Below(e[1], m) /\ Held(e, m))
    <3>1. CASE m # n
      BY <2>6, <3>1
    <3>2. CASE m = n /\ e \in Edges(r)
      <4>1. e \in Edges(routing_tree[c]) /\ e[1] \in Node
        BY <1>1, <2>3, <2>5, <3>2
      <4>2. Below(e[1], c)
        BY <2>3, <4>1 DEF Steady
      <4>3. Below(e[1], n)
        BY <2>3, <4>1, <4>2, BelowParent
      <4>4. Held(e, n)
        BY <2>3, <4>1 DEF Held
      <4> QED
        BY <3>2, <4>3, <4>4
    <3>3. CASE m = n /\ e \notin Edges(r)
      <4>1. e \in Edges(t) \/ e = <<n, c>>
        BY <2>4, <2>6, <3>3
      <4> QED
        BY <3>3, <4>1
    <3> QED
      BY <3>1, <3>2, <3>3
  <2>9. \A s, m \in Node : ctrl'[s][m] # NoTable =>
          Edges(ctrl'[s][m]) \subseteq Edges(routing_tree'[s])
    BY <2>1, <2>7 DEF Steady, TablesGrow
  <2>10. \A m \in Node : ctrl_payload'[m] # NoTable =>
           Edges(ctrl_payload'[m]) \subseteq Edges(routing_tree'[ctrl_payload'[m][1].id])
    <3> SUFFICES ASSUME NEW m \in Node, ctrl_payload[m] # NoTable
                 PROVE  Edges(ctrl_payload[m]) \subseteq Edges(routing_tree'[ctrl_payload[m][1].id])
      BY <2>1
    <3>1. ctrl_payload[m][1].id \in Node
      BY <1>1 DEF IInv, Received, Typed
    <3> QED
      BY <2>7, <3>1 DEF Steady, TablesGrow
  <2>11. Steady'
    BY <1>1, <2>1, <2>7, <2>8, <2>9, <2>10, SteadyStays DEF Steady
  <2> QED
    BY <2>7, <2>11
<1>7. CASE UNCHANGED vars
  <2>1. ParentsStay /\ TablesGrow
    BY <1>7 DEF vars, ParentsStay, TablesGrow
  <2>2. Steady'
    BY <1>1, <1>7, <2>1, SteadyStays DEF vars, Steady
  <2> QED
    BY <2>1, <2>2
<1> QED
  BY <1>2, <1>3, <1>4, <1>5, <1>6, <1>7 DEF Step

LEMMA InitSteady == Init => Steady
<1> SUFFICES ASSUME Init PROVE Steady
  OBVIOUS
<1>1. \A n \in Node : Edges(routing_tree[n]) = {}
  <2> SUFFICES ASSUME NEW n \in Node PROVE Edges(BootTree(n)) = {}
    BY DEF Init
  <2> QED
    BY LeafTable, EmptyTable DEF BootTree
<1> QED
  BY <1>1 DEF Init, Steady
-----------------------------------------------------------------------------
\* Trees and tables stay within their arrays and list nobody twice, for any
\* number of motes and arrays and a buffer of any size.
THEOREM TypeCorrect == Spec => []TypeOK
<1>1. IInv /\ Events => TypeOK
  BY DEF IInv, Typed, Own, Sent, Received, Events, TypeOK
<1> QED
  BY <1>1, Tracking, PTL

\* The first entry of a tree, and of a table that is sent, is the mote's own.
THEOREM FirstEntryIsOwn == Spec => []OwnEntryFirst
<1>1. IInv => OwnEntryFirst
  BY DEF IInv, Own, Sent, OwnEntryFirst
<1> QED
  BY <1>1, Tracking, PTL

\* update_routing_table makes no edge up: every edge of a tree, of a table on
\* its way and of a buffer was once the choice of a parent.
THEOREM NoEdgeIsMadeUp == Spec => []EdgesWereReal
<1>1. IInv => EdgesWereReal
  BY DEF IInv, Own, Sent, Received, EdgesWereReal
<1> QED
  BY <1>1, Tracking, PTL

\* An event that is handled finds a table of a child in ctrl_payload, although
\* recv_uc overwrites the buffer and process_post may fail.
THEOREM EventFindsTable == Spec => []PostedTableIsChilds
<1>1. IInv /\ Events => PostedTableIsChilds
  BY DEF IInv, Received, Events, PostedTableIsChilds
<1> QED
  BY <1>1, Tracking, PTL
================================================================================
