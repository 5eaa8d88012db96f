------------------------------ MODULE TreeGrowth ------------------------------
(***************************************************************************)
(* Every tree that a sequence of calls of Add_child can build, and what    *)
(* the other functions of tree_lib.c make of it.                           *)
(***************************************************************************)
EXTENDS TreeLib, Integers

CONSTANT Id     \* identifiers of motes, u8[0] of their addresses

ASSUME IdAssumption == Id \subseteq 1 .. 255

VARIABLE tree

Init == tree = << >>

\* A mote is never registered as its own child.
Grow(p, c) == p # c /\ tree' = Add_child(tree, p, c)

Next == \E p, c \in Id : Grow(p, c)

Spec == Init /\ [][Next]_tree

-----------------------------------------------------------------------------
Edges(t) == UNION { { <<t[i].id, c>> : c \in ToSet(t[i].children) } : i \in DOMAIN t }

\* One entry per mote, each child once, both arrays within their bounds: what
\* Index, Find and the bound on nested calls rely on.
TreeOK ==
  /\ Len(tree) =< MaxTreeNodes
  /\ \A i, j \in DOMAIN tree : tree[i].id = tree[j].id => i = j
  /\ \A i \in DOMAIN tree :
       LET children == tree[i].children
       IN  /\ Len(children) \in 1 .. MaxChildren
           /\ \A k, l \in DOMAIN children : children[k] = children[l] => k = l

\* The reference: d can be reached from r along the edges of t, if every set
\* that holds r and where its edges lead holds d.
Reachable(t, r, d) ==
  LET edges == Edges(t)
  IN  \A S \in SUBSET Id :
        (r \in S /\ \A e \in edges : e[1] \in S => e[2] \in S) => d \in S

\* find_in_subtree never lies: what it finds can be reached, what it gives up
\* on cannot, and it runs away only below a cycle, so that on a tree, and on
\* any acyclic graph, the recursion returns.  The child Search_forwarder picks
\* leads to the destination, and it answers "upstream" for exactly the
\* destinations below none of the children.
SearchIsReachability ==
  LET edges == Edges(tree)
      reach == [r \in Id |-> { d \in Id : Reachable(tree, r, d) }]
  IN  \A r, d \in Id :
        LET outcome == find_in_subtree(tree, r, d)
            next == Search_forwarder(tree, r, d)
        IN  /\ outcome = "found" => d \in reach[r]
            /\ outcome = "absent" => d \notin reach[r]
            /\ outcome = "diverges" => \E e \in edges : e[1] \in reach[r] /\ e[1] \in reach[e[2]]
            /\ next \notin {Upstream, Diverges} => <<r, next>> \in edges /\ d \in reach[next]
            /\ next = Upstream => \A c \in Id : <<r, c>> \in edges => d \notin reach[c]

-----------------------------------------------------------------------------
\* Characters of the whole text, had the buffer no end.
AddDigits(n, c) == n + Digits(c)
SegmentLength(e) ==
  Digits(e.id) + 2 + FoldLeft(AddDigits, 0, e.children) + (Len(e.children) - 1)
AddSegment(n, e) == n + SegmentLength(e)
TextLength(t) == FoldLeft(AddSegment, 0, t)

\* The text and its final '\0' stay inside the buffer.
TextWithinBuffer == Serialize(tree).pos =< SerialBuf - 1

\* A text cut off at the end of the buffer still reads as part of the tree: no
\* identifier comes out shortened, no child under the wrong parent, and the
\* first entry is the first entry.
CutTextReadsTrue ==
  LET read == Deserialize(Serialize(tree).segments)
  IN  /\ \A i \in DOMAIN read :
           /\ read[i].id = tree[i].id
           /\ IsPrefix(read[i].children, tree[i].children)
      /\ Len(read) =< Len(tree)

\* A text that fits reads back as the tree it was made from.
WholeTextReadsBack ==
  TextLength(tree) =< SerialBuf - 1 => Deserialize(Serialize(tree).segments) = tree
=============================================================================
