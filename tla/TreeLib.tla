------------------------------- MODULE TreeLib -------------------------------
(***************************************************************************)
(* The routing tree of a mote and the functions of Lab3/tree_lib.c on it.  *)
(* A tree is the array of struct tree_node: a sequence of records with an  *)
(* id and the sequence of its children.                                    *)
(***************************************************************************)
EXTENDS Naturals, Sequences, SequencesExt

CONSTANTS
  MaxTreeNodes,   \* MAX_TREE_NODES, 20
  MaxChildren,    \* MAX_CHILDREN, 8
  SerialBuf       \* TREE_SERIAL_BUF, 128

ASSUME TreeLibAssumption ==
  /\ MaxTreeNodes \in Nat \ {0}
  /\ MaxChildren \in Nat \ {0}
  /\ SerialBuf \in Nat \ {0}

-----------------------------------------------------------------------------
(***************************************************************************)
(* Add_child.                                                              *)
(***************************************************************************)
\* The first entry of id, 0 if it has none.
Index(tree, id) == SelectInSeq(tree, LAMBDA e : e.id = id)

\* Slip: a child is appended without looking for it first.
WithChildAgain(node, c) ==
  IF Len(node.children) >= MaxChildren THEN node
  ELSE [node EXCEPT !.children = Append(@, c)]

WithChild(node, c) ==
  IF Contains(node.children, c) \/ Len(node.children) >= MaxChildren
  THEN node
  ELSE [node EXCEPT !.children = Append(@, c)]

Add_child(tree, p, c) ==
  LET i == Index(tree, p)
  IN  IF i # 0
      THEN [tree EXCEPT ![i] = WithChild(@, c)]
      ELSE IF Len(tree) < MaxTreeNodes
           THEN Append(tree, WithChild([id |-> p, children |-> << >>], c))
           ELSE tree

-----------------------------------------------------------------------------
(***************************************************************************)
(* Serialize and Deserialize.  The text "id:h1,h2;id:;" is represented by  *)
(* what a reader finds in it, the segments, and by its length pos, which   *)
(* decides where the buffer cuts it off.  The rest of an identifier that   *)
(* did not fit is either overwritten by ';' or ends the text without ':',  *)
(* and Deserialize passes over it.                                         *)
(***************************************************************************)
Digits(id) == IF id < 10 THEN 1 ELSE IF id < 100 THEN 2 ELSE 3

\* Slip: no room is kept for the final '\0'.
FitsExactly(pos, written) == pos + written =< SerialBuf

Fits(pos, written) == pos + written < SerialBuf

\* Slip: a child that does not fit is passed over, the loop goes on.
PutChildGoesOn(s, c) ==
  IF Fits(s.pos, Digits(c) + 1)
  THEN [s EXCEPT !.pos = @ + Digits(c) + 1, !.node.children = Append(@, c)]
  ELSE s

\* One round of the loop over the children, which cut ends.
PutChild(s, c) ==
  LET pos == IF s.node.children = << >> THEN s.pos ELSE s.pos + 1   \* ','
  IN  IF s.cut \/ s.pos >= SerialBuf - 1 THEN s
      ELSE IF Fits(pos, Digits(c))
           THEN [s EXCEPT !.pos = pos + Digits(c), !.node.children = Append(@, c)]
           ELSE [s EXCEPT !.pos = pos, !.cut = TRUE]

\* One round of the loop over the nodes, which cut ends.
PutNode(s, node) ==
  LET head == Digits(node.id) + 1
      body == FoldLeft(PutChild,
                       [pos |-> s.pos + head, cut |-> FALSE,
                        node |-> [id |-> node.id, children |-> << >>]],
                       node.children)
  IN  IF s.cut \/ s.pos >= SerialBuf - 1 \/ ~ Fits(s.pos, head)
      THEN [s EXCEPT !.cut = TRUE]
      ELSE [pos |-> IF body.pos < SerialBuf - 1 THEN body.pos + 1 ELSE body.pos,   \* ';'
            cut |-> FALSE,
            segments |-> Append(s.segments, body.node)]

Serialize(tree) ==
  FoldLeft(PutNode, [pos |-> 0, cut |-> FALSE, segments |-> << >>], tree)

FirstFew(s, n) == IF Len(s) =< n THEN s ELSE SubSeq(s, 1, n)

\* Slip: the last entry of the array is never filled.
DeserializeOneShort(segments) == FirstFew(segments, MaxTreeNodes - 1)

Deserialize(segments) ==
  LET kept == FirstFew(segments, MaxTreeNodes)
  IN  [i \in DOMAIN kept |-> [kept[i] EXCEPT !.children = FirstFew(@, MaxChildren)]]

-----------------------------------------------------------------------------
(***************************************************************************)
(* find_in_subtree and Search_forwarder.  The recursion keeps no record of *)
(* the nodes it has visited: on a cycle it never returns.                  *)
(***************************************************************************)
\* Slip: the children of a node are compared but not searched.
FindAmongChildren(tree, root, dst) ==
  LET i == Index(tree, root)
  IN  IF root = dst \/ (i # 0 /\ Contains(tree[i].children, dst))
      THEN "found" ELSE "absent"

\* The loop over the children ends with the first that is not "absent".
FirstDecisive(outcomes) == SelectInSeq(outcomes, LAMBDA o : o # "absent")

\* The call for id, when nested[c] is the outcome of the nested call for c.
Outcome(tree, dst, nested, id) ==
  IF id = dst THEN "found"
  ELSE IF Index(tree, id) = 0 THEN "absent"
  ELSE LET children == tree[Index(tree, id)].children
           outcomes == [j \in DOMAIN children |-> nested[children[j]]]
           decisive == FirstDecisive(outcomes)
       IN  IF decisive = 0 THEN "absent" ELSE outcomes[decisive]

\* call[d][id] is the outcome of the call for id when d calls may still nest.
\* Without a repetition on the path at most Len(tree) + 1 calls nest.
find_in_subtree(tree, root, dst) ==
  LET Ids == {root, dst} \cup { tree[i].id : i \in DOMAIN tree }
                         \cup UNION { ToSet(tree[i].children) : i \in DOMAIN tree }
      call[d \in 0 .. Len(tree) + 1] ==
        [id \in Ids |-> IF d = 0 THEN "diverges" ELSE Outcome(tree, dst, call[d - 1], id)]
  IN  call[Len(tree) + 1][root]

Upstream == 0
Diverges == 256   \* no uint8_t: the call never returns

Search_forwarder(tree, my_id, dst_id) ==
  LET i == Index(tree, my_id)
      children == IF i = 0 THEN << >> ELSE tree[i].children
      outcomes == [j \in DOMAIN children |-> find_in_subtree(tree, children[j], dst_id)]
      decisive == FirstDecisive(outcomes)
  IN  IF decisive = 0 THEN Upstream
      ELSE IF outcomes[decisive] = "found" THEN children[decisive]
      ELSE Diverges
=============================================================================
