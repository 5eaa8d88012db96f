----------------------------- MODULE RoutingTable -----------------------------
(***************************************************************************)
(* The downstream half of the tree: every mote sends the routing tree it   *)
(* has gathered to its preferred parent, which registers the sender as a   *)
(* child and merges what it says.  Nothing is ever removed from a routing  *)
(* tree but by a reboot.                                                   *)
(*                                                                         *)
(* A received table is copied to one static buffer, ctrl_payload, and an   *)
(* event is posted that carries a pointer to it: a table that arrives      *)
(* before the event is handled takes the place of the first.  The choice   *)
(* of parent is the environment here; the parents always form a tree.      *)
(***************************************************************************)
EXTENDS TreeLib, Integers

CONSTANTS
  Node,        \* u8[0] of the addresses of the motes
  Root,        \* 1
  NoNode,      \* linkaddr_null
  NoTable,     \* nothing in flight, nothing received
  Candidates,  \* Candidates[n]: the motes n may take for parent
  QueueSize,   \* bound: events the queue of Contiki holds for one process
  MaxChanges   \* bound: parents lost or changed, and reboots

ASSUME RoutingAssumption ==
  /\ Node \subseteq 1 .. 255
  /\ Root \in Node
  /\ NoNode \notin Node
  /\ Candidates \in [Node -> SUBSET Node]
  /\ Candidates[Root] = {}
  /\ QueueSize \in Nat \ {0}
  /\ MaxChanges \in Nat

VARIABLES
  best_parent_id,
  routing_tree,
  ctrl,          \* ctrl[s][r]: the table on its way from s to r
  ctrl_payload,
  posted,        \* posted[n]: ev_update_routing events waiting at n
  changes,
  once           \* history: <<p, c>> if p was ever the parent of c

vars == <<best_parent_id, routing_tree, ctrl, ctrl_payload, posted, changes, once>>

-----------------------------------------------------------------------------
BootTree(n) == IF n = Root THEN <<[id |-> n, children |-> << >>]>> ELSE << >>

Init ==
  /\ best_parent_id = [n \in Node |-> NoNode]
  /\ routing_tree = [n \in Node |-> BootTree(n)]
  /\ ctrl = [s \in Node |-> [r \in Node |-> NoTable]]
  /\ ctrl_payload = [n \in Node |-> NoTable]
  /\ posted = [n \in Node |-> 0]
  /\ changes = 0
  /\ once = {}

\* No set of motes is closed under "my parent".
IsTree(parent) == \A S \in (SUBSET Node) \ {{}} : \E n \in S : parent[n] \notin S

\* n takes p for its parent: the first is free, a change is counted.
ChooseParent(n, p) ==
  LET parent == [best_parent_id EXCEPT ![n] = p]
  IN  /\ p # best_parent_id[n]
      /\ IsTree(parent)
      /\ best_parent_id' = parent
      /\ once' = once \cup {<<p, n>>}
      /\ IF best_parent_id[n] = NoNode
         THEN UNCHANGED changes
         ELSE changes < MaxChanges /\ changes' = changes + 1
      /\ UNCHANGED <<routing_tree, ctrl, ctrl_payload, posted>>

LoseParent(n) ==
  /\ best_parent_id[n] # NoNode
  /\ changes < MaxChanges
  /\ changes' = changes + 1
  /\ best_parent_id' = [best_parent_id EXCEPT ![n] = NoNode]
  /\ UNCHANGED <<routing_tree, ctrl, ctrl_payload, posted, once>>

\* n reboots; tables on their way to it are lost.
Reboot(n) ==
  /\ changes < MaxChanges
  /\ changes' = changes + 1
  /\ best_parent_id' = [best_parent_id EXCEPT ![n] = NoNode]
  /\ routing_tree' = [routing_tree EXCEPT ![n] = BootTree(n)]
  /\ ctrl' = [s \in Node |-> [ctrl[s] EXCEPT ![n] = NoTable]]
  /\ ctrl_payload' = [ctrl_payload EXCEPT ![n] = NoTable]
  /\ posted' = [posted EXCEPT ![n] = 0]
  /\ UNCHANGED once

\* The 15 s timer of n expires.  A leaf announces itself.  A table that is
\* still on its way is superseded: that is how the model loses tables.
Report(n) ==
  IF routing_tree[n] = << >> THEN <<[id |-> n, children |-> << >>]>>
                             ELSE Serialize(routing_tree[n]).segments

send_routing_table(n) ==
  /\ best_parent_id[n] # NoNode
  /\ Report(n) # << >>
  /\ ctrl' = [ctrl EXCEPT ![n][best_parent_id[n]] = Report(n)]
  /\ UNCHANGED <<best_parent_id, routing_tree, ctrl_payload, posted, changes, once>>

\* recv_uc for U_CONTROL: process_post fails, unnoticed, when the queue is full.
recv_uc(n, s, full) ==
  /\ ctrl[s][n] # NoTable
  /\ ctrl' = [ctrl EXCEPT ![s][n] = NoTable]
  /\ ctrl_payload' = [ctrl_payload EXCEPT ![n] = ctrl[s][n]]
  /\ posted' = [posted EXCEPT ![n] = IF full THEN @ ELSE @ + 1]
  /\ UNCHANGED <<best_parent_id, routing_tree, changes, once>>

\* The inner loop: the children of an entry are registered one by one.
EdgesOf(e) == [k \in DOMAIN e.children |-> <<e.id, e.children[k]>>]
AddEdge(tree, edge) == Add_child(tree, edge[1], edge[2])
MergeNode(tree, e) == FoldLeft(AddEdge, tree, EdgesOf(e))

\* Slips: the sender is not registered as a child; it is, but last; the
\* entries of the table are all registered under the sender.
MergeWithoutSender(tree, me, recv_tree) == FoldLeft(MergeNode, tree, recv_tree)
MergeSenderLast(tree, me, recv_tree) ==
  Add_child(FoldLeft(MergeNode, tree, recv_tree), me, recv_tree[1].id)
MergeUnderSender(tree, me, recv_tree) ==
  LET UnderSender(e) == [e EXCEPT !.id = recv_tree[1].id]
  IN  FoldLeft(MergeNode, Add_child(tree, me, recv_tree[1].id),
               [i \in DOMAIN recv_tree |-> UnderSender(recv_tree[i])])

\* The sender becomes a child, and its table is registered entry by entry.
Merge(tree, me, recv_tree) ==
  FoldLeft(MergeNode, Add_child(tree, me, recv_tree[1].id), recv_tree)

update_routing_table(n) ==
  LET recv_tree == Deserialize(ctrl_payload[n])
  IN  /\ posted[n] > 0
      /\ posted' = [posted EXCEPT ![n] = @ - 1]
      /\ routing_tree' = [routing_tree EXCEPT ![n] =
           IF recv_tree = << >> THEN @ ELSE Merge(@, n, recv_tree)]
      /\ UNCHANGED <<best_parent_id, ctrl, ctrl_payload, changes, once>>

Next ==
  \/ \E n \in Node : \E p \in Candidates[n] : ChooseParent(n, p)
  \/ \E n \in Node : LoseParent(n)
  \/ \E n \in Node : Reboot(n)
  \/ \E n \in Node : send_routing_table(n)
  \/ \E n, s \in Node : recv_uc(n, s, posted[n] = QueueSize)
  \/ \E n \in Node : update_routing_table(n)

Spec == Init /\ [][Next]_vars

-----------------------------------------------------------------------------
(***************************************************************************)
(* Fairness.  Motes find a parent again, their timers run, unicasts get    *)
(* through in the end and posted events are handled.  An event is handled  *)
(* within milliseconds and tables are 15 s apart, so the table of no       *)
(* child is always overwritten: the handling of each is strongly fair.     *)
(***************************************************************************)
Fairness ==
  /\ \A n \in Node : WF_vars(\E p \in Candidates[n] :
                               best_parent_id[n] = NoNode /\ ChooseParent(n, p))
  /\ \A n \in Node : WF_vars(send_routing_table(n))
  /\ \A s \in Node : \A n \in Candidates[s] :
       /\ WF_vars(recv_uc(n, s, posted[n] = QueueSize))
       /\ SF_vars(/\ ctrl_payload[n] # NoTable /\ ctrl_payload[n][1].id = s
                  /\ update_routing_table(n))

FairSpec == Spec /\ Fairness

-----------------------------------------------------------------------------
Edges(t) == UNION { { <<t[i].id, c>> : c \in ToSet(t[i].children) } : i \in DOMAIN t }

IsTable(t) ==
  /\ t \in Seq([id : Node, children : Seq(Node)])
  /\ Len(t) =< MaxTreeNodes
  /\ \A i, j \in DOMAIN t : t[i].id = t[j].id => i = j
  /\ \A i \in DOMAIN t :
       LET children == t[i].children
       IN  /\ Len(children) =< MaxChildren
           /\ \A k, l \in DOMAIN children : children[k] = children[l] => k = l

\* Trees and tables stay within their arrays and list nobody twice.
TypeOK ==
  /\ best_parent_id \in [Node -> Node \cup {NoNode}]
  /\ \A n \in Node : IsTable(routing_tree[n])
  /\ \A n, s \in Node : ctrl[s][n] # NoTable => IsTable(ctrl[s][n])
  /\ \A n \in Node : ctrl_payload[n] # NoTable => IsTable(ctrl_payload[n])
  /\ posted \in [Node -> 0 .. QueueSize]
  /\ changes \in 0 .. MaxChanges
  /\ once \subseteq Node \X Node

\* The first entry of a routing tree is the mote's own, whatever came first:
\* a parent takes recv_tree[0] for the sender of a table.
OwnEntryFirst ==
  /\ \A n \in Node : routing_tree[n] # << >> => routing_tree[n][1].id = n
  /\ \A n, s \in Node : ctrl[s][n] # NoTable => ctrl[s][n][1].id = s

\* Every edge a mote believes in, and every edge on its way to one, was once
\* the choice of a parent: overwritten buffers, tables cut off at the end of
\* the buffer, full queues and reboots lose edges and never make one up.
EdgesWereReal ==
  \A n \in Node :
    /\ Edges(routing_tree[n]) \subseteq once
    /\ ctrl_payload[n] # NoTable => Edges(ctrl_payload[n]) \subseteq once
    /\ \A s \in Node : ctrl[s][n] # NoTable => Edges(ctrl[s][n]) \subseteq once

\* An event that is handled always finds a table of a child in the buffer.
PostedTableIsChilds ==
  \A n \in Node : posted[n] > 0 =>
    /\ ctrl_payload[n] # NoTable
    /\ <<n, ctrl_payload[n][1].id>> \in once

\* Looking up a next hop returns: find_in_subtree never runs round a cycle.
SearchReturns ==
  \A n, d \in Node : Search_forwarder(routing_tree[n], n, d) # Diverges

\* d is c, or below c: every set that holds d and the parents of its members
\* holds c.
Below(d, c) ==
  \A S \in SUBSET Node :
    (d \in S /\ \A m \in S : best_parent_id[m] \in S \cup {NoNode}) => c \in S

\* In the end every mote knows, for each mote below it, the child that leads
\* there (if the tables are large enough): send_routing_table repeats what an
\* overwritten ctrl_payload, a full queue or a reboot has lost on the way up.
TablesComplete ==
  <>[](\A c, d \in Node : best_parent_id[c] # NoNode /\ Below(d, c) =>
         Search_forwarder(routing_tree[best_parent_id[c]], best_parent_id[c], d) = c)
===============================================================================
