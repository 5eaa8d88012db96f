--------------------------- MODULE TreeGrowth_proofs ---------------------------
(***************************************************************************)
(* Proofs about the functions of tree_lib.c, for arrays and a buffer of    *)
(* any size, and about the trees that Add_child builds.                    *)
(***************************************************************************)
EXTENDS TreeGrowth, FiniteSets, SequenceTheorems, FiniteSetTheorems, TLAPS

\* The loops of Serialize, over the children of a node and over the nodes.
Children == INSTANCE FoldFacts WITH op <- PutChild
Nodes == INSTANCE FoldFacts WITH op <- PutNode

\* The sums of TextLength.
DigitSum == INSTANCE FoldFacts WITH op <- AddDigits
SegmentSum == INSTANCE FoldFacts WITH op <- AddSegment

LEMMA Bounds ==
  /\ MaxTreeNodes \in Nat /\ MaxTreeNodes > 0
  /\ MaxChildren \in Nat /\ MaxChildren > 0
  /\ SerialBuf \in Nat /\ SerialBuf > 0
  /\ Id \subseteq 1 .. 255
BY TreeLibAssumption, IdAssumption

-----------------------------------------------------------------------------
(***************************************************************************)
(* Trees.                                                                  *)
(***************************************************************************)
Entry == [id : Id, children : Seq(Id)]

Distinct(s) == \A k, l \in DOMAIN s : s[k] = s[l] => k = l

\* One entry per mote, each child once, arrays within their bounds.
IsTree(t) ==
  /\ t \in Seq(Entry)
  /\ Len(t) =< MaxTreeNodes
  /\ \A i, j \in DOMAIN t : t[i].id = t[j].id => i = j
  /\ \A i \in DOMAIN t : Len(t[i].children) =< MaxChildren /\ Distinct(t[i].children)

-----------------------------------------------------------------------------
(***************************************************************************)
(* Add_child.                                                              *)
(***************************************************************************)
\* The search for the entry of a mote.
LEMMA IndexValue ==
  ASSUME NEW t \in Seq(Entry), NEW id
  PROVE  /\ Index(t, id) \in 0 .. Len(t)
         /\ Index(t, id) = 0 => \A i \in 1 .. Len(t) : t[i].id # id
         /\ Index(t, id) # 0 => t[Index(t, id)].id = id
<1> DEFINE I == { i \in 1 .. Len(t) : t[i].id = id }
<1>1. Index(t, id) = IF I # {} THEN Min(I) ELSE 0
  BY DEF Index, SelectInSeq
<1>2. ASSUME I # {} PROVE Min(I) \in I
  <2>1. I \in SUBSET Nat
    OBVIOUS
  <2>2. \E m \in I : \A y \in I : m =< y
    BY <1>2, <2>1, Nodes!LeastMember
  <2> QED
    BY <2>2 DEF Min
<1>3. CASE I # {}
  BY <1>1, <1>2, <1>3
<1>4. CASE I = {}
  BY <1>1, <1>4
<1> QED
  BY <1>3, <1>4

\* A node takes a child at the end, once and within its bound, or stays as it is.
LEMMA WithChildValue ==
  ASSUME NEW e \in Entry, NEW c \in Id, Len(e.children) =< MaxChildren, Distinct(e.children)
  PROVE  /\ WithChild(e, c) \in Entry
         /\ WithChild(e, c).id = e.id
         /\ Len(WithChild(e, c).children) =< MaxChildren
         /\ Distinct(WithChild(e, c).children)
         /\ ToSet(WithChild(e, c).children) \subseteq ToSet(e.children) \cup {c}
         /\ ToSet(e.children) \subseteq ToSet(WithChild(e, c).children)
         /\ WithChild(e, c).children # << >>
<1> DEFINE s == e.children
<1>1. s \in Seq(Id) /\ Len(s) \in Nat /\ DOMAIN s = 1 .. Len(s)
  BY DEF Entry
<1>2. CASE Contains(s, c) \/ Len(s) >= MaxChildren
  <2>1. WithChild(e, c) = e
    BY <1>2 DEF WithChild
  <2>2. s # << >>
    BY <1>1, <1>2, Bounds DEF Contains
  <2> QED
    BY <2>1, <2>2
<1>3. CASE ~ (Contains(s, c) \/ Len(s) >= MaxChildren)
  <2>1. WithChild(e, c) = [e EXCEPT !.children = Append(s, c)]
    BY <1>3 DEF WithChild
  <2>2. WithChild(e, c) \in Entry /\ WithChild(e, c).id = e.id
        /\ WithChild(e, c).children = Append(s, c)
    <3>1. Append(s, c) \in Seq(Id)
      BY <1>1
    <3> HIDE DEF s
    <3> QED
      BY <2>1, <3>1 DEF Entry
  <2>3. /\ Len(Append(s, c)) = Len(s) + 1
        /\ DOMAIN Append(s, c) = 1 .. Len(s) + 1
        /\ \A i \in 1 .. Len(s) : Append(s, c)[i] = s[i]
        /\ Append(s, c)[Len(s) + 1] = c
    BY <1>1
  <2>4. \A i \in 1 .. Len(s) : s[i] # c
    BY <1>3 DEF Contains
  <2>5. Distinct(Append(s, c))
    BY <1>1, <2>3, <2>4 DEF Distinct
  <2>6. ToSet(Append(s, c)) \subseteq ToSet(s) \cup {c} /\ ToSet(s) \subseteq ToSet(Append(s, c))
    BY <1>1, <2>3 DEF ToSet
  <2>7. Len(s) + 1 =< MaxChildren
    BY <1>1, <1>3, Bounds
  <2>8. Append(s, c) # << >>
    BY <1>1
  <2> HIDE DEF s
  <2> QED
    BY <2>2, <2>3, <2>5, <2>6, <2>7, <2>8 DEF s
<1> QED
  BY <1>2, <1>3

LEMMA EdgesValue ==
  ASSUME NEW t, NEW e
  PROVE  e \in Edges(t) <=> \E i \in DOMAIN t : \E c \in ToSet(t[i].children) : e = <<t[i].id, c>>
BY DEF Edges

\* A tree that takes a child of p stays a tree, keeps its edges and has no other
\* but the new one, keeps its first entry and leaves no entry without a child.
LEMMA AddChildValue ==
  ASSUME NEW t, IsTree(t), NEW p \in Id, NEW c \in Id
  PROVE  /\ IsTree(Add_child(t, p, c))
         /\ Edges(Add_child(t, p, c)) \subseteq Edges(t) \cup {<<p, c>>}
         /\ Edges(t) \subseteq Edges(Add_child(t, p, c))
         /\ Add_child(t, p, c) # << >>
         /\ Add_child(t, p, c)[1].id = IF t = << >> THEN p ELSE t[1].id
         /\ (\A i \in DOMAIN t : t[i].children # << >>)
            => \A i \in DOMAIN Add_child(t, p, c) : Add_child(t, p, c)[i].children # << >>
<1> DEFINE k == Index(t, p)
           u == Add_child(t, p, c)
<1>1. /\ t \in Seq(Entry) /\ Len(t) \in Nat /\ Len(t) =< MaxTreeNodes /\ DOMAIN t = 1 .. Len(t)
      /\ \A i, j \in 1 .. Len(t) : t[i].id = t[j].id => i = j
      /\ \A i \in 1 .. Len(t) : /\ t[i] \in Entry
                               /\ Len(t[i].children) =< MaxChildren /\ Distinct(t[i].children)
  BY DEF IsTree
<1>2. /\ k \in 0 .. Len(t)
      /\ k = 0 => \A i \in 1 .. Len(t) : t[i].id # p
      /\ k # 0 => t[k].id = p
  BY <1>1, IndexValue
<1>3. CASE k # 0
  <2> DEFINE new == WithChild(t[k], c)
  <2>1. k \in 1 .. Len(t) /\ t # << >>
    BY <1>1, <1>2, <1>3
  <2>2. u = [t EXCEPT ![k] = new]
    BY <1>3 DEF Add_child
  <2>3. /\ new \in Entry /\ new.id = t[k].id
        /\ Len(new.children) =< MaxChildren /\ Distinct(new.children)
        /\ ToSet(new.children) \subseteq ToSet(t[k].children) \cup {c}
        /\ ToSet(t[k].children) \subseteq ToSet(new.children)
        /\ new.children # << >>
    BY <1>1, <2>1, WithChildValue
  <2> HIDE DEF new, u
  <2>4. /\ u \in Seq(Entry) /\ Len(u) = Len(t) /\ DOMAIN u = 1 .. Len(t)
        /\ u[k] = new
        /\ \A i \in 1 .. Len(t) : i # k => u[i] = t[i]
        /\ u # << >>
    BY <1>1, <2>1, <2>2, <2>3
  <2>5. \A i \in 1 .. Len(t) : u[i].id = t[i].id
    BY <2>3, <2>4
  <2>6. IsTree(u)
    BY <1>1, <2>3, <2>4, <2>5 DEF IsTree
  <2>7. Edges(u) \subseteq Edges(t) \cup {<<p, c>>}
    <3> SUFFICES ASSUME NEW i \in 1 .. Len(t), NEW d \in ToSet(u[i].children)
                 PROVE  <<u[i].id, d>> \in Edges(t) \cup {<<p, c>>}
      BY <2>4, EdgesValue
    <3>1. CASE i = k
      BY <1>1, <1>2, <1>3, <2>1, <2>3, <2>4, <3>1, EdgesValue
    <3>2. CASE i # k
      BY <1>1, <2>4, <3>2, EdgesValue
    <3> QED
      BY <3>1, <3>2
  <2>8. (\A i \in DOMAIN t : t[i].children # << >>) => \A i \in DOMAIN u : u[i].children # << >>
    BY <1>1, <2>3, <2>4
  <2>9. u[1].id = t[1].id
    BY <1>1, <2>1, <2>5
  <2>10. Edges(t) \subseteq Edges(u)
    <3> SUFFICES ASSUME NEW i \in 1 .. Len(t), NEW d \in ToSet(t[i].children)
                 PROVE  <<t[i].id, d>> \in Edges(u)
      BY <1>1, EdgesValue
    <3>1. d \in ToSet(u[i].children) /\ u[i].id = t[i].id
      BY <2>3, <2>4, <2>5
    <3> QED
      BY <2>4, <3>1, EdgesValue
  <2> QED
    BY <2>1, <2>4, <2>6, <2>7, <2>8, <2>9, <2>10 DEF u
<1>4. CASE k = 0 /\ Len(t) < MaxTreeNodes
  <2> DEFINE bare == [id |-> p, children |-> << >>]
             new == WithChild(bare, c)
  <2>1. u = Append(t, new)
    BY <1>4 DEF Add_child
  <2>2. /\ bare \in Entry /\ bare.id = p
        /\ Len(bare.children) =< MaxChildren /\ Distinct(bare.children)
        /\ ToSet(bare.children) = {}
    BY Bounds DEF Entry, Distinct, ToSet
  <2> HIDE DEF bare
  <2>3. /\ new \in Entry /\ new.id = p
        /\ Len(new.children) =< MaxChildren /\ Distinct(new.children)
        /\ ToSet(new.children) \subseteq {c}
        /\ new.children # << >>
    BY <2>2, WithChildValue
  <2> HIDE DEF new, u
  <2>4. /\ u \in Seq(Entry) /\ Len(u) = Len(t) + 1 /\ DOMAIN u = 1 .. Len(t) + 1
        /\ u[Len(t) + 1] = new
        /\ \A i \in 1 .. Len(t) : u[i] = t[i]
        /\ u # << >>
    BY <1>1, <2>1, <2>3
  <2>5. \A i \in 1 .. Len(t) + 1 : i \in 1 .. Len(t) \/ i = Len(t) + 1
    BY <1>1
  <2>6. IsTree(u)
    <3>1. Len(u) =< MaxTreeNodes
      BY <1>1, <1>4, <2>4, Bounds
    <3>2. \A i, j \in DOMAIN u : u[i].id = u[j].id => i = j
      BY <1>1, <1>2, <1>4, <2>3, <2>4, <2>5
    <3>3. \A i \in DOMAIN u : Len(u[i].children) =< MaxChildren /\ Distinct(u[i].children)
      BY <1>1, <2>3, <2>4, <2>5
    <3> QED
      BY <2>4, <3>1, <3>2, <3>3 DEF IsTree
  <2>7. Edges(u) \subseteq Edges(t) \cup {<<p, c>>}
    <3> SUFFICES ASSUME NEW i \in 1 .. Len(t) + 1, NEW d \in ToSet(u[i].children)
                 PROVE  <<u[i].id, d>> \in Edges(t) \cup {<<p, c>>}
      BY <2>4, EdgesValue
    <3>1. CASE i = Len(t) + 1
      BY <2>3, <2>4, <3>1
    <3>2. CASE i \in 1 .. Len(t)
      BY <1>1, <2>4, <3>2, EdgesValue
    <3> QED
      BY <2>5, <3>1, <3>2
  <2>8. (\A i \in DOMAIN t : t[i].children # << >>) => \A i \in DOMAIN u : u[i].children # << >>
    BY <1>1, <2>3, <2>4, <2>5
  <2>9. u[1].id = IF t = << >> THEN p ELSE t[1].id
    BY <1>1, <2>3, <2>4
  <2>10. Edges(t) \subseteq Edges(u)
    <3> SUFFICES ASSUME NEW i \in 1 .. Len(t), NEW d \in ToSet(t[i].children)
                 PROVE  <<t[i].id, d>> \in Edges(u)
      BY <1>1, EdgesValue
    <3>1. u[i] = t[i] /\ i \in DOMAIN u
      BY <1>1, <2>4
    <3> QED
      BY <3>1, EdgesValue
  <2> QED
    BY <2>4, <2>6, <2>7, <2>8, <2>9, <2>10 DEF u
<1>5. CASE k = 0 /\ ~ (Len(t) < MaxTreeNodes)
  <2>1. u = t
    BY <1>5 DEF Add_child
  <2>2. t # << >>
    BY <1>1, <1>5, Bounds
  <2> QED
    BY <2>1, <2>2
<1> QED
  BY <1>3, <1>4, <1>5

\* Add_child makes no entry without a child.
NoLeaf(t) == \A i \in DOMAIN t : t[i].children # << >>

LEMMA EmptyTree == IsTree(<< >>) /\ NoLeaf(<< >>)
BY Bounds DEF IsTree, NoLeaf

\* What Add_child builds is a tree, for arrays of any size.
LEMMA GrowsToTree == Spec => [](IsTree(tree) /\ NoLeaf(tree))
<1>1. Init => IsTree(tree) /\ NoLeaf(tree)
  BY EmptyTree DEF Init
<1>2. IsTree(tree) /\ NoLeaf(tree) /\ [Next]_tree => (IsTree(tree) /\ NoLeaf(tree))'
  <2> SUFFICES ASSUME IsTree(tree), NoLeaf(tree), [Next]_tree
               PROVE  IsTree(tree') /\ NoLeaf(tree')
    BY DEF IsTree, NoLeaf, Distinct
  <2>1. ASSUME NEW p \in Id, NEW c \in Id, Grow(p, c) PROVE IsTree(tree') /\ NoLeaf(tree')
    BY <2>1, AddChildValue DEF Grow, NoLeaf
  <2>2. CASE UNCHANGED tree
    BY <2>2
  <2> QED
    BY <2>1, <2>2 DEF Next
<1> QED
  BY <1>1, <1>2, PTL DEF Spec

\* One entry per mote, each child once, at least one child in each entry, and
\* both arrays within their bounds.
THEOREM TreesAreWellFormed == Spec => []TreeOK
<1>1. IsTree(tree) /\ NoLeaf(tree) => TreeOK
  <2> SUFFICES ASSUME IsTree(tree), NoLeaf(tree) PROVE TreeOK
    OBVIOUS
  <2>1. ASSUME NEW i \in DOMAIN tree PROVE Len(tree[i].children) \in 1 .. MaxChildren
    <3>1. tree[i].children \in Seq(Id)
      <4>1. tree[i] \in Entry
        BY DEF IsTree
      <4> QED
        BY <4>1 DEF Entry
    <3>2. tree[i].children # << >> /\ Len(tree[i].children) =< MaxChildren
      BY DEF IsTree, NoLeaf
    <3>3. Len(tree[i].children) \in Nat /\ Len(tree[i].children) # 0
      BY <3>1, <3>2
    <3> QED
      BY <3>2, <3>3, Bounds
  <2> QED
    BY <2>1 DEF IsTree, TreeOK, Distinct
<1> QED
  BY <1>1, GrowsToTree, PTL

-----------------------------------------------------------------------------
(***************************************************************************)
(* Serialize.                                                              *)
(***************************************************************************)
\* s is how l begins.
Begins(s, l) == Len(s) =< Len(l) /\ \A j \in 1 .. Len(s) : s[j] = l[j]

LEMMA DigitsValue == ASSUME NEW id \in Id PROVE Digits(id) \in Nat /\ Digits(id) > 0
BY Bounds DEF Digits

\* Where the loop over the children of e is after i rounds: within the buffer,
\* with the first children of e in its hands, and with all i of them unless the
\* buffer has stopped it.
Body(e, i) ==
  { s \in [pos : Nat, cut : BOOLEAN, node : Entry] :
      /\ s.pos =< SerialBuf - 1
      /\ s.node.id = e.id
      /\ Begins(s.node.children, e.children)
      /\ Len(s.node.children) =< i
      /\ s.cut \/ s.pos >= SerialBuf - 1 \/ Len(s.node.children) = i }

LEMMA PutChildValue ==
  ASSUME NEW e \in Entry, NEW i \in 1 .. Len(e.children), NEW s \in Body(e, i - 1)
  PROVE  PutChild(s, e.children[i]) \in Body(e, i)
<1> DEFINE c == e.children[i]
           kept == s.node.children
           pos == IF kept = << >> THEN s.pos ELSE s.pos + 1
<1>1. /\ e.children \in Seq(Id) /\ Len(e.children) \in Nat /\ c \in Id
      /\ i \in Nat /\ i > 0 /\ i =< Len(e.children)
  BY DEF Entry
<1>2. /\ s \in [pos : Nat, cut : BOOLEAN, node : Entry]
      /\ s.pos \in Nat /\ s.pos =< SerialBuf - 1 /\ s.cut \in BOOLEAN /\ s.node \in Entry
      /\ s.node.id = e.id /\ kept \in Seq(Id) /\ Len(kept) \in Nat
      /\ Begins(kept, e.children) /\ Len(kept) =< i - 1
      /\ s.cut \/ s.pos >= SerialBuf - 1 \/ Len(kept) = i - 1
  BY DEF Body, Entry
<1>3. Digits(c) \in Nat /\ Digits(c) > 0
  BY <1>1, DigitsValue
<1>4. CASE s.cut \/ s.pos >= SerialBuf - 1
  <2>1. PutChild(s, c) = s
    BY <1>4 DEF PutChild
  <2>2. Len(kept) =< i
    BY <1>1, <1>2
  <2> QED
    BY <1>2, <1>4, <2>1, <2>2 DEF Body
<1>5. CASE ~ (s.cut \/ s.pos >= SerialBuf - 1)
  <2>1. /\ Len(kept) = i - 1
        /\ pos \in Nat /\ pos =< SerialBuf - 1
    BY <1>2, <1>5, Bounds
  <2>2. CASE Fits(pos, Digits(c))
    <3> DEFINE more == Append(kept, c)
               r == [pos |-> pos + Digits(c), cut |-> s.cut,
                     node |-> [id |-> s.node.id, children |-> more]]
    <3>1. PutChild(s, c) = [s EXCEPT !.pos = pos + Digits(c), !.node.children = Append(@, c)]
      BY <1>5, <2>2 DEF PutChild
    <3>2. PutChild(s, c) = r
      BY <1>2, <3>1 DEF Entry
    <3>3. /\ more \in Seq(Id) /\ Len(more) = i
          /\ \A j \in 1 .. i : j # i => more[j] = kept[j]
          /\ more[i] = c
      BY <1>1, <1>2, <2>1
    <3>4. pos + Digits(c) \in Nat /\ pos + Digits(c) =< SerialBuf - 1
      BY <1>3, <2>1, <2>2, Bounds DEF Fits
    <3>5. Begins(more, e.children)
      BY <1>1, <1>2, <2>1, <3>3 DEF Begins
    <3> HIDE DEF more, pos
    <3>6. r.node \in Entry /\ r.node.id = e.id /\ r.node.children = more
      BY <1>2, <3>3 DEF Entry
    <3>7. r \in [pos : Nat, cut : BOOLEAN, node : Entry]
      BY <1>2, <3>4, <3>6
    <3>8. Len(more) =< i
      BY <1>1, <3>3
    <3> QED
      BY <3>2, <3>3, <3>4, <3>5, <3>6, <3>7, <3>8 DEF Body
  <2>3. CASE ~ Fits(pos, Digits(c))
    <3>1. PutChild(s, c) = [s EXCEPT !.pos = pos, !.cut = TRUE]
      BY <1>5, <2>3 DEF PutChild
    <3>2. Len(kept) =< i
      BY <1>1, <1>2
    <3> HIDE DEF pos
    <3>3. /\ PutChild(s, c) \in [pos : Nat, cut : BOOLEAN, node : Entry]
          /\ PutChild(s, c).pos = pos /\ PutChild(s, c).cut = TRUE
          /\ PutChild(s, c).node = s.node
      BY <1>2, <2>1, <3>1
    <3> QED
      BY <1>2, <2>1, <3>2, <3>3 DEF Body
  <2> QED
    BY <2>2, <2>3
<1> QED
  BY <1>4, <1>5

LEMMA ChildrenLoop ==
  ASSUME NEW e \in Entry, NEW pos \in Nat, pos =< SerialBuf - 1
  PROVE  FoldLeft(PutChild,
                  [pos |-> pos, cut |-> FALSE, node |-> [id |-> e.id, children |-> << >>]],
                  e.children) \in Body(e, Len(e.children))
<1> DEFINE base == [pos |-> pos, cut |-> FALSE, node |-> [id |-> e.id, children |-> << >>]]
           T == [i \in 0 .. Len(e.children) |-> Body(e, i)]
<1>1. e.children \in Seq(Id) /\ Len(e.children) \in Nat /\ e.id \in Id
  BY DEF Entry
<1>2. base \in T[0]
  <2>1. /\ base.node \in Entry /\ base.node.id = e.id /\ base.node.children = << >>
        /\ base.pos = pos /\ base.cut = FALSE
        /\ base \in [pos : Nat, cut : BOOLEAN, node : Entry]
    BY <1>1 DEF Entry
  <2>2. Len(base.node.children) = 0 /\ Begins(base.node.children, e.children)
    BY <1>1, <2>1 DEF Begins
  <2> HIDE DEF base
  <2>3. base \in Body(e, 0)
    BY <2>1, <2>2 DEF Body
  <2> QED
    BY <1>1, <2>3
<1>3. \A i \in 1 .. Len(e.children) : \A s \in T[i - 1] : PutChild(s, e.children[i]) \in T[i]
  BY <1>1, PutChildValue
<1>4. T[Len(e.children)] = Body(e, Len(e.children))
  BY <1>1
<1> HIDE DEF base, T
<1>5. Children!Fold(base, e.children) \in T[Len(e.children)]
  BY <1>1, <1>2, <1>3, Children!FoldRule
<1>6. FoldLeft(PutChild, base, e.children) = Children!Fold(base, e.children)
  BY DEF FoldLeft, MapThenFoldSet, Max, Children!Fold, Children!FoldLeft,
         Children!MapThenFoldSet, Children!Max
<1> QED
  BY <1>4, <1>5, <1>6 DEF base

\* The first entries of l, each with the first of its children.
CutFrom(s, l) ==
  /\ Len(s) =< Len(l)
  /\ \A j \in 1 .. Len(s) : s[j].id = l[j].id /\ Begins(s[j].children, l[j].children)

\* Where the loop over the nodes is after i rounds.
Text(t, i) ==
  { s \in [pos : Nat, cut : BOOLEAN, segments : Seq(Entry)] :
      /\ s.pos =< SerialBuf - 1
      /\ CutFrom(s.segments, t)
      /\ Len(s.segments) =< i
      /\ s.cut \/ Len(s.segments) = i }

LEMMA PutNodeValue ==
  ASSUME NEW t \in Seq(Entry), NEW i \in 1 .. Len(t), NEW s \in Text(t, i - 1)
  PROVE  PutNode(s, t[i]) \in Text(t, i)
<1> DEFINE e == t[i]
           head == Digits(e.id) + 1
           base == [pos |-> s.pos + head, cut |-> FALSE,
                    node |-> [id |-> e.id, children |-> << >>]]
           body == FoldLeft(PutChild, base, e.children)
<1>1. /\ Len(t) \in Nat /\ e \in Entry /\ e.id \in Id
      /\ i \in Nat /\ i > 0 /\ i =< Len(t)
  <2>1. e \in Entry
    OBVIOUS
  <2> QED
    BY <2>1 DEF Entry
<1>2. /\ s \in [pos : Nat, cut : BOOLEAN, segments : Seq(Entry)]
      /\ s.pos \in Nat /\ s.pos =< SerialBuf - 1 /\ s.cut \in BOOLEAN
      /\ s.segments \in Seq(Entry) /\ Len(s.segments) \in Nat
      /\ CutFrom(s.segments, t) /\ Len(s.segments) =< i - 1
      /\ s.cut \/ Len(s.segments) = i - 1
  BY DEF Text
<1>3. CASE s.cut \/ s.pos >= SerialBuf - 1 \/ ~ Fits(s.pos, head)
  <2>1. PutNode(s, t[i]) = [s EXCEPT !.cut = TRUE]
    BY <1>3 DEF PutNode
  <2>2. /\ PutNode(s, t[i]) \in [pos : Nat, cut : BOOLEAN, segments : Seq(Entry)]
        /\ PutNode(s, t[i]).pos = s.pos /\ PutNode(s, t[i]).cut = TRUE
        /\ PutNode(s, t[i]).segments = s.segments
    BY <1>2, <2>1
  <2>3. Len(s.segments) =< i
    BY <1>1, <1>2
  <2> QED
    BY <1>2, <2>2, <2>3 DEF Text
<1>4. CASE ~ (s.cut \/ s.pos >= SerialBuf - 1 \/ ~ Fits(s.pos, head))
  <2> DEFINE pos == IF body.pos < SerialBuf - 1 THEN body.pos + 1 ELSE body.pos
             segments == Append(s.segments, body.node)
  <2>1. PutNode(s, t[i]) = [pos |-> pos, cut |-> FALSE, segments |-> segments]
    BY <1>4 DEF PutNode
  <2>2. s.pos + head \in Nat /\ s.pos + head =< SerialBuf - 1
    <3>1. head \in Nat
      BY <1>1, DigitsValue
    <3> HIDE DEF head
    <3>2. s.pos + head < SerialBuf
      BY <1>4 DEF Fits
    <3> HIDE DEF e
    <3> QED
      BY <1>2, <3>1, <3>2, Bounds
  <2> HIDE DEF head
  <2>3. body \in Body(e, Len(e.children))
    BY <1>1, <2>2, ChildrenLoop
  <2> HIDE DEF body
  <2>4. /\ body.pos \in Nat /\ body.pos =< SerialBuf - 1 /\ body.node \in Entry
        /\ body.node.id = e.id /\ Begins(body.node.children, e.children)
    BY <2>3 DEF Body
  <2>5. pos \in Nat /\ pos =< SerialBuf - 1
    BY <2>4, Bounds
  <2>6. Len(s.segments) = i - 1
    BY <1>2, <1>4
  <2>7. /\ segments \in Seq(Entry) /\ Len(segments) = i
        /\ \A j \in 1 .. i : j # i => segments[j] = s.segments[j]
        /\ segments[i] = body.node
    BY <1>1, <1>2, <2>4, <2>6
  <2> HIDE DEF segments, pos
  <2>8. CutFrom(segments, t)
    BY <1>1, <1>2, <2>4, <2>6, <2>7 DEF CutFrom
  <2>9. Len(segments) =< i
    BY <1>1, <2>7
  <2> QED
    BY <2>1, <2>5, <2>7, <2>8, <2>9 DEF Text
<1> QED
  BY <1>3, <1>4

\* The text stays in the buffer with its final '\0', and is cut from the tree.
LEMMA SerializeValue ==
  ASSUME NEW t \in Seq(Entry)
  PROVE  Serialize(t) \in Text(t, Len(t))
<1> DEFINE base == [pos |-> 0, cut |-> FALSE, segments |-> << >>]
           T == [i \in 0 .. Len(t) |-> Text(t, i)]
<1>1. Len(t) \in Nat
  OBVIOUS
<1>2. base \in T[0]
  <2>1. base \in Text(t, 0)
    BY <1>1, Bounds DEF Text, CutFrom
  <2> QED
    BY <1>1, <2>1
<1>3. \A i \in 1 .. Len(t) : \A s \in T[i - 1] : PutNode(s, t[i]) \in T[i]
  BY <1>1, PutNodeValue
<1>4. T[Len(t)] = Text(t, Len(t))
  BY <1>1
<1> HIDE DEF base, T
<1>5. Nodes!Fold(base, t) \in T[Len(t)]
  BY <1>2, <1>3, Nodes!FoldRule
<1>6. FoldLeft(PutNode, base, t) = Nodes!Fold(base, t)
  BY DEF FoldLeft, MapThenFoldSet, Max, Nodes!Fold, Nodes!FoldLeft,
         Nodes!MapThenFoldSet, Nodes!Max
<1> QED
  BY <1>4, <1>5, <1>6 DEF base, Serialize

\* With any contents of the buffer the final '\0' has its place.
THEOREM TextsStayInTheBuffer == Spec => []TextWithinBuffer
<1>1. IsTree(tree) /\ NoLeaf(tree) => TextWithinBuffer
  BY SerializeValue DEF IsTree, Text, TextWithinBuffer
<1> QED
  BY <1>1, GrowsToTree, PTL

-----------------------------------------------------------------------------
(***************************************************************************)
(* Deserialize.                                                            *)
(***************************************************************************)
LEMMA FirstFewValue ==
  ASSUME NEW S, NEW s \in Seq(S), NEW n \in Nat
  PROVE  /\ FirstFew(s, n) \in Seq(S)
         /\ Len(FirstFew(s, n)) = IF Len(s) =< n THEN Len(s) ELSE n
         /\ Begins(FirstFew(s, n), s)
<1>1. Len(s) \in Nat
  OBVIOUS
<1>2. CASE Len(s) =< n
  BY <1>1, <1>2 DEF FirstFew, Begins
<1>3. CASE ~ (Len(s) =< n)
  <2>1. FirstFew(s, n) = SubSeq(s, 1, n)
    BY <1>3 DEF FirstFew
  <2>2. \A j \in 1 .. n : s[j] \in S
    BY <1>1, <1>3
  <2>3. SubSeq(s, 1, n) = [j \in 1 .. n |-> s[j]]
    BY <1>1, <1>3
  <2> DEFINE f == [j \in 1 .. n |-> s[j]]
  <2>4. f \in Seq(S) /\ Len(f) = n /\ \A j \in 1 .. n : f[j] = s[j]
    BY <2>2
  <2> QED
    BY <1>1, <1>3, <2>1, <2>3, <2>4 DEF Begins
<1> QED
  BY <1>2, <1>3

\* A reader keeps the first entries and of each the first children.
LEMMA DeserializeValue ==
  ASSUME NEW s \in Seq(Entry)
  PROVE  /\ Deserialize(s) \in Seq(Entry)
         /\ Len(Deserialize(s)) = IF Len(s) =< MaxTreeNodes THEN Len(s) ELSE MaxTreeNodes
         /\ CutFrom(Deserialize(s), s)
         /\ \A i \in DOMAIN Deserialize(s) :
              Deserialize(s)[i].children = FirstFew(s[i].children, MaxChildren)
<1> DEFINE kept == FirstFew(s, MaxTreeNodes)
           read == [i \in DOMAIN kept |->
                      [kept[i] EXCEPT !.children = FirstFew(@, MaxChildren)]]
<1>1. Deserialize(s) = read
  BY DEF Deserialize
<1>2. /\ kept \in Seq(Entry) /\ Begins(kept, s)
      /\ Len(kept) = IF Len(s) =< MaxTreeNodes THEN Len(s) ELSE MaxTreeNodes
  BY Bounds, FirstFewValue
<1> HIDE DEF kept
<1>3. Len(kept) \in Nat /\ DOMAIN kept = 1 .. Len(kept) /\ Len(s) \in Nat
      /\ \A i \in 1 .. Len(kept) : kept[i] = s[i]
  BY <1>2 DEF Begins
<1>4. ASSUME NEW i \in 1 .. Len(kept)
      PROVE  /\ read[i] \in Entry
             /\ read[i].id = s[i].id
             /\ read[i].children = FirstFew(s[i].children, MaxChildren)
             /\ Begins(read[i].children, s[i].children)
  <2> DEFINE few == FirstFew(s[i].children, MaxChildren)
  <2>1. kept[i] \in Entry
    BY <1>2, <1>3
  <2>2. s[i] \in Entry
    BY <1>3, <2>1
  <2>3. s[i].children \in Seq(Id)
    BY <2>2 DEF Entry
  <2>4. few \in Seq(Id) /\ Begins(few, s[i].children)
    BY <2>3, Bounds, FirstFewValue
  <2>5. read[i] = [s[i] EXCEPT !.children = few]
    BY <1>3
  <2> HIDE DEF few, read
  <2>6. read[i] \in Entry /\ read[i].id = s[i].id /\ read[i].children = few
    BY <2>2, <2>4, <2>5 DEF Entry
  <2> QED
    BY <2>4, <2>6 DEF few
<1>5. read \in Seq(Entry) /\ Len(read) = Len(kept) /\ DOMAIN read = 1 .. Len(kept)
  <2>1. read = [i \in 1 .. Len(kept) |-> read[i]]
    BY <1>3
  <2> HIDE DEF read
  <2> QED
    BY <1>3, <1>4, <2>1
<1> HIDE DEF read
<1>6. CutFrom(read, s)
  BY <1>2, <1>3, <1>4, <1>5, Bounds DEF CutFrom
<1> QED
  BY <1>1, <1>2, <1>4, <1>5, <1>6

LEMMA BeginsFacts ==
  ASSUME NEW a \in Seq(Id), NEW b \in Seq(Id), NEW c \in Seq(Id), Begins(a, b)
  PROVE  /\ Begins(b, c) => Begins(a, c)
         /\ Distinct(b) => Distinct(a)
         /\ ToSet(a) \subseteq ToSet(b)
         /\ IsPrefix(a, b)
         /\ Len(a) = Len(b) => a = b
<1>1. /\ Len(a) \in Nat /\ Len(b) \in Nat /\ Len(c) \in Nat
      /\ DOMAIN a = 1 .. Len(a) /\ DOMAIN b = 1 .. Len(b)
  OBVIOUS
<1>2. Len(a) =< Len(b) /\ \A j \in 1 .. Len(a) : a[j] = b[j] /\ j \in 1 .. Len(b)
  BY <1>1 DEF Begins
<1>3. Begins(b, c) => Begins(a, c)
  BY <1>1, <1>2 DEF Begins
<1>4. Distinct(b) => Distinct(a)
  BY <1>1, <1>2 DEF Distinct
<1>5. ToSet(a) \subseteq ToSet(b)
  BY <1>1, <1>2 DEF ToSet
<1>6. IsPrefix(a, b)
  BY <1>1, <1>2 DEF IsPrefix
<1>7. Len(a) = Len(b) => a = b
  BY <1>1, <1>2
<1> QED
  BY <1>3, <1>4, <1>5, <1>6, <1>7

\* What is cut from a tree, be it cut twice, is cut from that tree.
LEMMA CutFromTwice ==
  ASSUME NEW r \in Seq(Entry), NEW s \in Seq(Entry), NEW t \in Seq(Entry),
         CutFrom(r, s), CutFrom(s, t)
  PROVE  CutFrom(r, t)
<1>1. Len(r) \in Nat /\ Len(s) \in Nat /\ Len(t) \in Nat
  OBVIOUS
<1>2. ASSUME NEW j \in 1 .. Len(r) PROVE r[j].id = t[j].id /\ Begins(r[j].children, t[j].children)
  <2>1. j \in 1 .. Len(s)
    BY <1>1 DEF CutFrom
  <2>2. j \in 1 .. Len(t)
    BY <1>1, <2>1 DEF CutFrom
  <2>3. r[j] \in Entry /\ s[j] \in Entry /\ t[j] \in Entry
    BY <2>1, <2>2
  <2>4. r[j].children \in Seq(Id) /\ s[j].children \in Seq(Id) /\ t[j].children \in Seq(Id)
    BY <2>3 DEF Entry
  <2>5. r[j].id = s[j].id /\ Begins(r[j].children, s[j].children)
    BY DEF CutFrom
  <2>6. s[j].id = t[j].id /\ Begins(s[j].children, t[j].children)
    BY <2>1 DEF CutFrom
  <2> QED
    BY <2>4, <2>5, <2>6, BeginsFacts
<1>3. Len(r) =< Len(t)
  BY <1>1 DEF CutFrom
<1> QED
  BY <1>2, <1>3 DEF CutFrom

\* What is cut from a tree is a tree, with no edge that is not in it.
LEMMA CutTreeValue ==
  ASSUME NEW t, IsTree(t), NEW s \in Seq(Entry), CutFrom(s, t)
  PROVE  /\ IsTree(s)
         /\ Edges(s) \subseteq Edges(t)
         /\ s # << >> => t # << >> /\ s[1].id = t[1].id
<1>1. /\ t \in Seq(Entry) /\ Len(t) \in Nat /\ Len(t) =< MaxTreeNodes /\ DOMAIN t = 1 .. Len(t)
      /\ Len(s) \in Nat /\ Len(s) =< Len(t) /\ DOMAIN s = 1 .. Len(s)
      /\ \A j \in 1 .. Len(s) : j \in 1 .. Len(t)
  BY DEF IsTree, CutFrom
<1>2. ASSUME NEW j \in 1 .. Len(s)
      PROVE  /\ s[j].id = t[j].id
             /\ Len(s[j].children) =< MaxChildren /\ Distinct(s[j].children)
             /\ ToSet(s[j].children) \subseteq ToSet(t[j].children)
  <2>1. s[j] \in Entry /\ t[j] \in Entry
    BY <1>1
  <2>2. /\ s[j].children \in Seq(Id) /\ Len(s[j].children) \in Nat
        /\ t[j].children \in Seq(Id) /\ Len(t[j].children) \in Nat
    BY <2>1 DEF Entry
  <2>3. s[j].id = t[j].id /\ Begins(s[j].children, t[j].children)
    BY DEF CutFrom
  <2>4. Len(t[j].children) =< MaxChildren /\ Distinct(t[j].children)
    BY <1>1 DEF IsTree
  <2>5. Len(s[j].children) =< MaxChildren
    BY <2>2, <2>3, <2>4, Bounds DEF Begins
  <2> QED
    BY <2>2, <2>3, <2>4, <2>5, BeginsFacts
<1>3. IsTree(s)
  <2>1. Len(s) =< MaxTreeNodes
    BY <1>1, Bounds
  <2>2. \A i, j \in DOMAIN s : s[i].id = s[j].id => i = j
    BY <1>1, <1>2 DEF IsTree
  <2> QED
    BY <1>1, <1>2, <2>1, <2>2 DEF IsTree
<1>4. Edges(s) \subseteq Edges(t)
  <2> SUFFICES ASSUME NEW j \in 1 .. Len(s), NEW c \in ToSet(s[j].children)
               PROVE  <<s[j].id, c>> \in Edges(t)
    BY <1>1, EdgesValue
  <2> QED
    BY <1>1, <1>2, EdgesValue
<1>5. s # << >> => t # << >> /\ s[1].id = t[1].id
  BY <1>1, <1>2
<1> QED
  BY <1>3, <1>4, <1>5

\* A text that is cut off reads as the first entries of the tree, each with
\* the first of its children.
THEOREM CutTextsReadTrue == Spec => []CutTextReadsTrue
<1>1. IsTree(tree) /\ NoLeaf(tree) => CutTextReadsTrue
  <2> SUFFICES ASSUME IsTree(tree) PROVE CutTextReadsTrue
    OBVIOUS
  <2> DEFINE segments == Serialize(tree).segments
             read == Deserialize(segments)
  <2>1. tree \in Seq(Entry)
    BY DEF IsTree
  <2>2. segments \in Seq(Entry) /\ CutFrom(segments, tree)
    BY <2>1, SerializeValue DEF Text
  <2> HIDE DEF segments
  <2>3. read \in Seq(Entry) /\ CutFrom(read, segments)
    BY <2>2, DeserializeValue
  <2> HIDE DEF read
  <2>4. CutFrom(read, tree)
    BY <2>1, <2>2, <2>3, CutFromTwice
  <2>5. Len(read) =< Len(tree) /\ DOMAIN read = 1 .. Len(read)
        /\ Len(read) \in Nat /\ Len(tree) \in Nat
    BY <2>1, <2>3, <2>4 DEF CutFrom
  <2>6. ASSUME NEW i \in DOMAIN read
        PROVE  read[i].id = tree[i].id /\ IsPrefix(read[i].children, tree[i].children)
    <3>1. read[i] \in Entry /\ tree[i] \in Entry
      BY <2>1, <2>3, <2>5
    <3>2. /\ read[i].children \in Seq(Id) /\ Len(read[i].children) \in Nat
          /\ tree[i].children \in Seq(Id) /\ Len(tree[i].children) \in Nat
      BY <3>1 DEF Entry
    <3>3. read[i].id = tree[i].id /\ Begins(read[i].children, tree[i].children)
      BY <2>4, <2>5 DEF CutFrom
    <3> QED
      BY <3>2, <3>3, BeginsFacts
  <2> QED
    BY <2>5, <2>6 DEF CutTextReadsTrue, read, segments
<1> QED
  BY <1>1, GrowsToTree, PTL

-----------------------------------------------------------------------------
(***************************************************************************)
(* A text that fits.                                                       *)
(***************************************************************************)
\* The partial sums of the lengths of the identifiers of s.
LEMMA DigitSums ==
  ASSUME NEW s \in Seq(Id)
  PROVE  \E sum : /\ sum[0] = 0
                  /\ \A i \in 1 .. Len(s) : sum[i] = sum[i - 1] + Digits(s[i])
                  /\ sum[Len(s)] = FoldLeft(AddDigits, 0, s)
                  /\ \A i \in 0 .. Len(s) : sum[i] \in Nat /\ sum[i] =< sum[Len(s)]
<1>1. PICK sum : /\ sum[0] = 0
                 /\ \A i \in 1 .. Len(s) : sum[i] = AddDigits(sum[i - 1], s[i])
                 /\ DigitSum!Fold(0, s) = sum[Len(s)]
  BY DigitSum!FoldRounds
<1>2. FoldLeft(AddDigits, 0, s) = DigitSum!Fold(0, s)
  BY DEF FoldLeft, MapThenFoldSet, Max, DigitSum!Fold, DigitSum!FoldLeft,
         DigitSum!MapThenFoldSet, DigitSum!Max
<1>3. \A i \in 1 .. Len(s) : sum[i] = sum[i - 1] + Digits(s[i])
  BY <1>1 DEF AddDigits
<1>4. Len(s) \in Nat /\ \A i \in 1 .. Len(s) : s[i] \in Id
  OBVIOUS
<1>5. \A i \in 1 .. Len(s) : \E d \in Nat : sum[i] = sum[i - 1] + d
  BY <1>3, <1>4, DigitsValue
<1>6. sum[0] \in Nat
  BY <1>1
<1>7. \A i \in 0 .. Len(s) : sum[i] \in Nat /\ sum[i] =< sum[Len(s)]
  BY <1>4, <1>5, <1>6, DigitSum!SumClimbs
<1> QED
  BY <1>1, <1>2, <1>3, <1>7

\* A segment takes the room of its identifiers and of a separator after each.
LEMMA SegmentLengthValue ==
  ASSUME NEW e \in Entry, e.children # << >>
  PROVE  /\ FoldLeft(AddDigits, 0, e.children) \in Nat
         /\ SegmentLength(e) \in Nat
<1>1. /\ e.children \in Seq(Id) /\ Len(e.children) \in Nat /\ Len(e.children) > 0
      /\ e.id \in Id
  BY DEF Entry
<1>2. FoldLeft(AddDigits, 0, e.children) \in Nat
  BY <1>1, DigitSums
<1>3. Digits(e.id) \in Nat
  BY <1>1, DigitsValue
<1> QED
  BY <1>1, <1>2, <1>3 DEF SegmentLength

\* The partial sums of the lengths of the segments of t.
LEMMA SegmentSums ==
  ASSUME NEW t \in Seq(Entry), NoLeaf(t)
  PROVE  \E sum : /\ sum[0] = 0
                  /\ \A i \in 1 .. Len(t) : sum[i] = sum[i - 1] + SegmentLength(t[i])
                  /\ sum[Len(t)] = TextLength(t)
                  /\ \A i \in 0 .. Len(t) : sum[i] \in Nat /\ sum[i] =< sum[Len(t)]
<1>1. PICK sum : /\ sum[0] = 0
                 /\ \A i \in 1 .. Len(t) : sum[i] = AddSegment(sum[i - 1], t[i])
                 /\ SegmentSum!Fold(0, t) = sum[Len(t)]
  BY SegmentSum!FoldRounds
<1>2. FoldLeft(AddSegment, 0, t) = SegmentSum!Fold(0, t)
  BY DEF FoldLeft, MapThenFoldSet, Max, SegmentSum!Fold, SegmentSum!FoldLeft,
         SegmentSum!MapThenFoldSet, SegmentSum!Max
<1>3. \A i \in 1 .. Len(t) : sum[i] = sum[i - 1] + SegmentLength(t[i])
  BY <1>1 DEF AddSegment
<1>4. Len(t) \in Nat /\ \A i \in 1 .. Len(t) : t[i] \in Entry /\ t[i].children # << >>
  BY DEF NoLeaf
<1>5. \A i \in 1 .. Len(t) : \E d \in Nat : sum[i] = sum[i - 1] + d
  BY <1>3, <1>4, SegmentLengthValue
<1>6. sum[0] \in Nat
  BY <1>1
<1>7. \A i \in 0 .. Len(t) : sum[i] \in Nat /\ sum[i] =< sum[Len(t)]
  BY <1>4, <1>5, <1>6, SegmentSum!SumClimbs
<1> QED
  BY <1>1, <1>2, <1>3, <1>7 DEF TextLength

\* x characters of identifiers before the i-th child of n, y after it.
LEMMA RoomLeft ==
  ASSUME NEW pos \in Nat, NEW x \in Nat, NEW y \in Nat, NEW d \in Nat, NEW total \in Nat,
         NEW i \in Nat, NEW n \in Nat, NEW buf \in Nat,
         y = x + d, d > 0, y =< total, i > 0, i =< n, pos + total + n =< buf - 1
  PROVE  /\ pos + y + (i - 1) < buf
         /\ pos + x + (IF i - 1 = 0 THEN 0 ELSE i - 2) < buf - 1
OBVIOUS

\* The loop over the children of e that starts at pos, if the segment fits
\* with its ';': all of them are written.
LEMMA WholeBody ==
  ASSUME NEW e \in Entry, e.children # << >>, NEW pos \in Nat,
         pos + FoldLeft(AddDigits, 0, e.children) + Len(e.children) =< SerialBuf - 1
  PROVE  FoldLeft(PutChild,
                  [pos |-> pos, cut |-> FALSE, node |-> [id |-> e.id, children |-> << >>]],
                  e.children)
         = [pos |-> pos + FoldLeft(AddDigits, 0, e.children) + Len(e.children) - 1,
            cut |-> FALSE, node |-> e]
<1> DEFINE l == e.children
           n == Len(l)
           total == FoldLeft(AddDigits, 0, l)
           base == [pos |-> pos, cut |-> FALSE, node |-> [id |-> e.id, children |-> << >>]]
<1>1. l \in Seq(Id) /\ n \in Nat /\ n > 0 /\ e.id \in Id /\ \A i \in 1 .. n : l[i] \in Id
  BY DEF Entry
<1>2. PICK sum : /\ sum[0] = 0
                 /\ \A i \in 1 .. n : sum[i] = sum[i - 1] + Digits(l[i])
                 /\ sum[n] = total
                 /\ \A i \in 0 .. n : sum[i] \in Nat /\ sum[i] =< sum[n]
  BY <1>1, DigitSums
<1> DEFINE at == [i \in 0 .. n |-> pos + sum[i] + (IF i = 0 THEN 0 ELSE i - 1)]
           T == [i \in 0 .. n |->
                   { s \in [pos : {at[i]}, cut : {FALSE}, node : Entry] :
                       /\ s.node.id = e.id
                       /\ Len(s.node.children) = i
                       /\ Begins(s.node.children, l) }]
<1> HIDE DEF l, n, total
<1>3. base \in T[0]
  <2>1. /\ base.node \in Entry /\ base.node.id = e.id /\ base.node.children = << >>
    BY <1>1 DEF Entry
  <2>2. Len(base.node.children) = 0 /\ Begins(base.node.children, l)
    BY <1>1, <2>1 DEF Begins
  <2>3. at[0] = pos
    BY <1>1, <1>2
  <2> HIDE DEF at
  <2> QED
    BY <1>1, <2>1, <2>2, <2>3
<1>4. ASSUME NEW i \in 1 .. n, NEW s \in T[i - 1] PROVE PutChild(s, l[i]) \in T[i]
  <2> DEFINE kept == s.node.children
             more == Append(kept, l[i])
             start == IF kept = << >> THEN s.pos ELSE s.pos + 1
             r == [pos |-> start + Digits(l[i]), cut |-> FALSE,
                   node |-> [id |-> e.id, children |-> more]]
  <2>1. i - 1 \in 0 .. n /\ i \in 0 .. n /\ i - 1 \in Nat /\ i \in Nat /\ i =< n /\ i > 0
    BY <1>1
  <2>2. /\ s \in [pos : {at[i - 1]}, cut : {FALSE}, node : Entry]
        /\ s.pos = at[i - 1] /\ s.cut = FALSE /\ s.node \in Entry /\ s.node.id = e.id
        /\ Len(kept) = i - 1 /\ Begins(kept, l)
    BY <2>1
  <2>3. kept \in Seq(Id)
    BY <2>2 DEF Entry
  <2>4. Digits(l[i]) \in Nat /\ Digits(l[i]) > 0
    BY <1>1, DigitsValue
  <2>5. /\ sum[i] = sum[i - 1] + Digits(l[i]) /\ sum[i] \in Nat /\ sum[i - 1] \in Nat
        /\ sum[i] =< total
    BY <1>2, <2>1
  <2>6. total \in Nat /\ pos + total + n =< SerialBuf - 1
    BY <1>1, <1>2 DEF total, l, n
  <2>7. /\ at[i] = pos + sum[i] + (i - 1)
        /\ at[i - 1] = pos + sum[i - 1] + (IF i - 1 = 0 THEN 0 ELSE i - 2)
    BY <2>1
  <2>8. kept = << >> <=> i - 1 = 0
    BY <2>1, <2>2, <2>3
  <2> HIDE DEF at, kept
  <2>9. start = pos + sum[i - 1] + (i - 1)
    BY <2>1, <2>2, <2>5, <2>7, <2>8
  <2>10. start + Digits(l[i]) = at[i] /\ at[i] < SerialBuf /\ ~ (s.pos >= SerialBuf - 1)
    <3>1. start + Digits(l[i]) = at[i]
      BY <2>1, <2>4, <2>5, <2>7, <2>9
    <3>2. at[i] < SerialBuf /\ at[i - 1] < SerialBuf - 1
      <4>1. SerialBuf \in Nat /\ n \in Nat
        BY <1>1, Bounds
      <4>2. /\ pos + sum[i] + (i - 1) < SerialBuf
            /\ pos + sum[i - 1] + (IF i - 1 = 0 THEN 0 ELSE i - 2) < SerialBuf - 1
        BY <2>1, <2>4, <2>5, <2>6, <4>1, RoomLeft
      <4> QED
        BY <2>7, <4>2
    <3>3. at[i - 1] \in Nat
      BY <2>1, <2>5, <2>7
    <3> QED
      BY <2>2, <3>1, <3>2, <3>3, Bounds
  <2> HIDE DEF start
  <2>11. PutChild(s, l[i]) = [s EXCEPT !.pos = start + Digits(l[i]),
                                       !.node.children = Append(@, l[i])]
    BY <2>2, <2>10 DEF PutChild, Fits, start, kept
  <2>12. PutChild(s, l[i]) = r
    BY <2>2, <2>11 DEF Entry, kept
  <2>13. /\ more \in Seq(Id) /\ Len(more) = i
         /\ \A j \in 1 .. i : j # i => more[j] = kept[j]
         /\ more[i] = l[i]
    BY <1>1, <2>1, <2>2, <2>3
  <2>14. Begins(more, l)
    BY <1>1, <2>1, <2>2, <2>3, <2>13 DEF Begins, n
  <2> HIDE DEF more
  <2>15. r.node \in Entry /\ r.node.id = e.id /\ r.node.children = more
    BY <1>1, <2>13 DEF Entry
  <2>16. r \in [pos : {at[i]}, cut : {FALSE}, node : Entry]
    BY <2>10, <2>15
  <2> HIDE DEF r
  <2> QED
    BY <2>1, <2>12, <2>13, <2>14, <2>15, <2>16
<1>5. T[n] = { s \in [pos : {at[n]}, cut : {FALSE}, node : Entry] :
                 s.node.id = e.id /\ Len(s.node.children) = n /\ Begins(s.node.children, l) }
  BY <1>1
<1>6. at[n] = pos + total + n - 1
  BY <1>1, <1>2
<1> HIDE DEF base, T, at
<1>7. Children!Fold(base, l) \in T[n]
  BY <1>1, <1>3, <1>4, Children!FoldRule DEF n
<1>8. FoldLeft(PutChild, base, l) = Children!Fold(base, l)
  BY DEF FoldLeft, MapThenFoldSet, Max, Children!Fold, Children!FoldLeft,
         Children!MapThenFoldSet, Children!Max
<1> DEFINE body == FoldLeft(PutChild, base, l)
<1>9. /\ body \in [pos : {at[n]}, cut : {FALSE}, node : Entry]
      /\ body.node.id = e.id /\ Len(body.node.children) = n /\ Begins(body.node.children, l)
  BY <1>5, <1>7, <1>8
<1> HIDE DEF body
<1>10. body.node.children = l
  <2>1. body.node \in Entry
    BY <1>9
  <2>2. body.node.children \in Seq(Id)
    BY <2>1 DEF Entry
  <2> QED
    BY <1>1, <1>9, <2>2, BeginsFacts DEF n
<1>11. body.node = e
  BY <1>9, <1>10 DEF Entry, l
<1>12. body = [pos |-> pos + total + n - 1, cut |-> FALSE, node |-> e]
  BY <1>6, <1>9, <1>11
<1> QED
  BY <1>12 DEF body, base, total, n, l

LEMMA SegmentFits ==
  ASSUME NEW pos \in Nat, NEW d \in Nat, NEW total \in Nat, NEW n \in Nat, NEW buf \in Nat,
         NEW text \in Nat, n > 0, pos + (d + 2 + total + (n - 1)) =< text, text =< buf - 1
  PROVE  /\ ~ (pos >= buf - 1) /\ pos + (d + 1) < buf /\ pos + (d + 1) \in Nat
         /\ pos + (d + 1) + total + n =< buf - 1
         /\ pos + (d + 1) + total + n - 1 < buf - 1
         /\ pos + (d + 1) + total + n - 1 + 1 = pos + (d + 2 + total + (n - 1))
OBVIOUS

\* A text that fits is written whole.
LEMMA WholeText ==
  ASSUME NEW t \in Seq(Entry), NoLeaf(t), TextLength(t) =< SerialBuf - 1
  PROVE  Serialize(t).segments = t
<1> DEFINE n == Len(t)
           base == [pos |-> 0, cut |-> FALSE, segments |-> << >>]
<1>1. n \in Nat /\ DOMAIN t = 1 .. n
      /\ \A i \in 1 .. n : t[i] \in Entry /\ t[i].children # << >>
  BY DEF NoLeaf
<1>2. PICK sum : /\ sum[0] = 0
                 /\ \A i \in 1 .. n : sum[i] = sum[i - 1] + SegmentLength(t[i])
                 /\ sum[n] = TextLength(t)
                 /\ \A i \in 0 .. n : sum[i] \in Nat /\ sum[i] =< sum[n]
  BY SegmentSums
<1> DEFINE T == [i \in 0 .. n |->
                   { s \in [pos : {sum[i]}, cut : {FALSE}, segments : Seq(Entry)] :
                       Len(s.segments) = i /\ \A j \in 1 .. i : s.segments[j] = t[j] }]
<1> HIDE DEF n
<1>3. base \in T[0]
  <2>1. base.segments \in Seq(Entry) /\ Len(base.segments) = 0
    OBVIOUS
  <2> QED
    BY <1>1, <1>2, <2>1
<1>4. ASSUME NEW i \in 1 .. n, NEW s \in T[i - 1] PROVE PutNode(s, t[i]) \in T[i]
  <2> DEFINE e == t[i]
             total == FoldLeft(AddDigits, 0, e.children)
             head == Digits(e.id) + 1
             start == [pos |-> s.pos + head, cut |-> FALSE,
                       node |-> [id |-> e.id, children |-> << >>]]
             body == FoldLeft(PutChild, start, e.children)
             more == Append(s.segments, e)
             r == [pos |-> sum[i], cut |-> FALSE, segments |-> more]
  <2>1. /\ i - 1 \in 0 .. n /\ i \in 0 .. n /\ i - 1 \in Nat /\ i \in Nat /\ i =< n /\ i > 0
        /\ e \in Entry /\ e.children # << >>
    BY <1>1
  <2>2. /\ s \in [pos : {sum[i - 1]}, cut : {FALSE}, segments : Seq(Entry)]
        /\ s.pos = sum[i - 1] /\ s.cut = FALSE /\ s.segments \in Seq(Entry)
        /\ Len(s.segments) = i - 1 /\ \A j \in 1 .. i - 1 : s.segments[j] = t[j]
    BY <2>1
  <2> HIDE DEF e
  <2>3. /\ Len(e.children) \in Nat /\ Len(e.children) > 0
        /\ e.id \in Id /\ e.children \in Seq(Id)
    BY <2>1 DEF Entry
  <2>4. total \in Nat /\ Digits(e.id) \in Nat
    BY <2>1, <2>3, SegmentLengthValue, DigitsValue
  <2>5. /\ sum[i] = s.pos + SegmentLength(e) /\ s.pos \in Nat
        /\ sum[i] =< TextLength(t) /\ TextLength(t) \in Nat
    <3>1. n \in 0 .. n
      BY <1>1
    <3> QED
      BY <1>2, <2>1, <2>2, <3>1 DEF e
  <2>6. SegmentLength(e) = Digits(e.id) + 2 + total + (Len(e.children) - 1)
    BY DEF SegmentLength
  <2> HIDE DEF total
  <2>7. /\ ~ (s.pos >= SerialBuf - 1) /\ s.pos + head < SerialBuf /\ s.pos + head \in Nat
        /\ s.pos + head + total + Len(e.children) =< SerialBuf - 1
        /\ s.pos + head + total + Len(e.children) - 1 < SerialBuf - 1
        /\ s.pos + head + total + Len(e.children) - 1 + 1 = sum[i]
    <3>1. s.pos + (Digits(e.id) + 2 + total + (Len(e.children) - 1)) =< TextLength(t)
      BY <2>5, <2>6
    <3>2. SerialBuf \in Nat
      BY Bounds
    <3> DEFINE d == Digits(e.id)
               k == Len(e.children)
    <3>3. /\ ~ (s.pos >= SerialBuf - 1) /\ s.pos + (d + 1) < SerialBuf
          /\ s.pos + (d + 1) \in Nat
          /\ s.pos + (d + 1) + total + k =< SerialBuf - 1
          /\ s.pos + (d + 1) + total + k - 1 < SerialBuf - 1
          /\ s.pos + (d + 1) + total + k - 1 + 1 = s.pos + (d + 2 + total + (k - 1))
      <4>1. d \in Nat /\ k \in Nat /\ k > 0 /\ total \in Nat /\ s.pos \in Nat
        BY <2>3, <2>4, <2>5
      <4>2. s.pos + (d + 2 + total + (k - 1)) =< TextLength(t)
        BY <3>1
      <4> HIDE DEF d, k
      <4> QED
        BY <2>5, <3>2, <4>1, <4>2, SegmentFits
    <3>4. sum[i] = s.pos + (d + 2 + total + (k - 1))
      BY <2>5, <2>6
    <3> QED
      BY <3>3, <3>4
  <2> HIDE DEF head
  <2>8. body = [pos |-> s.pos + head + total + Len(e.children) - 1, cut |-> FALSE, node |-> e]
    BY <2>1, <2>7, WholeBody DEF total
  <2> HIDE DEF body
  <2>9. PutNode(s, t[i]) = [pos |-> IF body.pos < SerialBuf - 1 THEN body.pos + 1 ELSE body.pos,
                            cut |-> FALSE, segments |-> Append(s.segments, body.node)]
    BY <2>2, <2>7 DEF PutNode, Fits, head, body, e
  <2>10. PutNode(s, t[i]) = r
    BY <2>7, <2>8, <2>9
  <2>11. /\ more \in Seq(Entry) /\ Len(more) = i
         /\ \A j \in 1 .. i : more[j] = t[j]
    BY <2>1, <2>2 DEF e
  <2> HIDE DEF more
  <2>12. r \in [pos : {sum[i]}, cut : {FALSE}, segments : Seq(Entry)] /\ r.segments = more
    BY <2>11
  <2> HIDE DEF r
  <2> QED
    BY <2>1, <2>10, <2>11, <2>12
<1>5. T[n] = { s \in [pos : {sum[n]}, cut : {FALSE}, segments : Seq(Entry)] :
                 Len(s.segments) = n /\ \A j \in 1 .. n : s.segments[j] = t[j] }
  BY <1>1
<1> HIDE DEF base, T
<1>6. Nodes!Fold(base, t) \in T[n]
  BY <1>3, <1>4, Nodes!FoldRule DEF n
<1>7. FoldLeft(PutNode, base, t) = Nodes!Fold(base, t)
  BY DEF FoldLeft, MapThenFoldSet, Max, Nodes!Fold, Nodes!FoldLeft,
         Nodes!MapThenFoldSet, Nodes!Max
<1>8. Serialize(t) = Nodes!Fold(base, t)
  BY <1>7 DEF Serialize, base
<1>9. /\ Serialize(t).segments \in Seq(Entry) /\ Len(Serialize(t).segments) = n
      /\ \A j \in 1 .. n : Serialize(t).segments[j] = t[j]
  BY <1>5, <1>6, <1>8
<1> QED
  BY <1>9 DEF n

\* Arrays of the same sizes read a tree whole.
LEMMA WholeRead ==
  ASSUME NEW t, IsTree(t)
  PROVE  Deserialize(t) = t
<1>1. t \in Seq(Entry) /\ Len(t) =< MaxTreeNodes
  BY DEF IsTree
<1> DEFINE read == Deserialize(t)
<1>2. /\ read \in Seq(Entry) /\ Len(read) = Len(t) /\ CutFrom(read, t)
      /\ \A i \in DOMAIN read : read[i].children = FirstFew(t[i].children, MaxChildren)
  BY <1>1, DeserializeValue
<1> HIDE DEF read
<1>3. ASSUME NEW i \in 1 .. Len(t) PROVE read[i] = t[i]
  <2>1. t[i] \in Entry /\ read[i] \in Entry /\ i \in DOMAIN read
    BY <1>1, <1>2
  <2>2. read[i].id = t[i].id
    BY <1>2 DEF CutFrom
  <2>3. Len(t[i].children) =< MaxChildren
    BY <1>1 DEF IsTree
  <2>4. read[i].children = t[i].children
    BY <1>2, <2>1, <2>3 DEF FirstFew
  <2> QED
    BY <2>1, <2>2, <2>4 DEF Entry
<1> QED
  BY <1>1, <1>2, <1>3 DEF read

\* What Serialize writes without reaching the end of the buffer, Deserialize
\* reads back entry by entry.
THEOREM WholeTextsReadBack == Spec => []WholeTextReadsBack
<1>1. IsTree(tree) /\ NoLeaf(tree) => WholeTextReadsBack
  <2> SUFFICES ASSUME IsTree(tree), NoLeaf(tree), TextLength(tree) =< SerialBuf - 1
               PROVE  Deserialize(Serialize(tree).segments) = tree
    BY DEF WholeTextReadsBack
  <2>1. tree \in Seq(Entry)
    BY DEF IsTree
  <2> QED
    BY <2>1, WholeText, WholeRead
<1> QED
  BY <1>1, GrowsToTree, PTL
-----------------------------------------------------------------------------
(***************************************************************************)
(* find_in_subtree and Search_forwarder.                                   *)
(***************************************************************************)
LEMMA EdgeFacts ==
  ASSUME NEW t, IsTree(t), NEW id \in Id
  PROVE  /\ Edges(t) \subseteq Id \X Id
         /\ Index(t, id) = 0 => \A c : <<id, c>> \notin Edges(t)
         /\ Index(t, id) # 0 => /\ Index(t, id) \in 1 .. Len(t)
                                /\ t[Index(t, id)].id = id
                                /\ t[Index(t, id)].children \in Seq(Id)
                                /\ \A c : <<id, c>> \in Edges(t)
                                          <=> c \in ToSet(t[Index(t, id)].children)
<1>1. /\ t \in Seq(Entry) /\ Len(t) \in Nat /\ DOMAIN t = 1 .. Len(t)
      /\ \A i, j \in 1 .. Len(t) : t[i].id = t[j].id => i = j
      /\ \A i \in 1 .. Len(t) : t[i] \in Entry
  BY DEF IsTree
<1>2. \A i \in 1 .. Len(t) : t[i].id \in Id /\ t[i].children \in Seq(Id)
  BY <1>1 DEF Entry
<1>3. /\ Index(t, id) \in 0 .. Len(t)
      /\ Index(t, id) = 0 => \A i \in 1 .. Len(t) : t[i].id # id
      /\ Index(t, id) # 0 => t[Index(t, id)].id = id
  BY <1>1, IndexValue
<1>4. Edges(t) \subseteq Id \X Id
  <2> SUFFICES ASSUME NEW i \in 1 .. Len(t), NEW c \in ToSet(t[i].children)
               PROVE  <<t[i].id, c>> \in Id \X Id
    BY <1>1, EdgesValue
  <2>1. c \in Id
    BY <1>2 DEF ToSet
  <2> QED
    BY <1>2, <2>1
<1>5. ASSUME NEW c, <<id, c>> \in Edges(t)
      PROVE  Index(t, id) # 0 /\ c \in ToSet(t[Index(t, id)].children)
  <2>1. PICK i \in 1 .. Len(t) : id = t[i].id /\ c \in ToSet(t[i].children)
    BY <1>1, <1>5, EdgesValue
  <2> QED
    BY <1>1, <1>3, <2>1
<1>6. ASSUME Index(t, id) # 0, NEW c, c \in ToSet(t[Index(t, id)].children)
      PROVE  <<id, c>> \in Edges(t)
  BY <1>1, <1>3, <1>6, EdgesValue
<1> QED
  BY <1>1, <1>2, <1>3, <1>4, <1>5, <1>6

\* Where the edges lead.
LEMMA ReachFacts ==
  ASSUME NEW t, IsTree(t), NEW r \in Id
  PROVE  /\ Reachable(t, r, r)
         /\ \A x, y \in Id : Reachable(t, r, x) /\ <<x, y>> \in Edges(t) => Reachable(t, r, y)
         /\ \A c, d \in Id : <<r, c>> \in Edges(t) /\ Reachable(t, c, d) => Reachable(t, r, d)
         /\ \A d \in Id : Reachable(t, r, d)
              => r = d \/ \E c \in Id : <<r, c>> \in Edges(t) /\ Reachable(t, c, d)
<1>1. Reachable(t, r, r)
  BY DEF Reachable
<1>2. ASSUME NEW w \in Id, NEW x \in Id, NEW y \in Id,
             Reachable(t, w, x), <<x, y>> \in Edges(t)
      PROVE  Reachable(t, w, y)
  <2> SUFFICES ASSUME NEW S \in SUBSET Id, w \in S,
                      \A e \in Edges(t) : e[1] \in S => e[2] \in S
               PROVE  y \in S
    BY DEF Reachable
  <2>1. x \in S
    BY <1>2 DEF Reachable
  <2> QED
    BY <1>2, <2>1
<1>3. ASSUME NEW c \in Id, NEW d \in Id, <<r, c>> \in Edges(t), Reachable(t, c, d)
      PROVE  Reachable(t, r, d)
  <2> SUFFICES ASSUME NEW S \in SUBSET Id, r \in S,
                      \A e \in Edges(t) : e[1] \in S => e[2] \in S
               PROVE  d \in S
    BY DEF Reachable
  <2>1. c \in S
    BY <1>3
  <2> QED
    BY <1>3, <2>1 DEF Reachable
<1>4. ASSUME NEW d \in Id, Reachable(t, r, d), r # d
      PROVE  \E c \in Id : <<r, c>> \in Edges(t) /\ Reachable(t, c, d)
  <2> DEFINE S == {r} \cup { x \in Id : \E c \in Id : /\ <<r, c>> \in Edges(t)
                                                       /\ Reachable(t, c, x) }
  <2>1. ASSUME NEW e \in Edges(t), e[1] \in S PROVE e[2] \in S
    <3>1. e[1] \in Id /\ e[2] \in Id /\ e = <<e[1], e[2]>>
      BY EdgeFacts
    <3>2. CASE e[1] = r
      <4>1. Reachable(t, e[2], e[2])
        BY <3>1 DEF Reachable
      <4> QED
        BY <3>1, <3>2, <4>1
    <3>3. CASE e[1] # r
      <4>1. PICK c \in Id : <<r, c>> \in Edges(t) /\ Reachable(t, c, e[1])
        BY <2>1, <3>3
      <4>2. Reachable(t, c, e[2])
        BY <1>2, <3>1, <4>1
      <4> QED
        BY <3>1, <4>1, <4>2
    <3> QED
      BY <3>2, <3>3
  <2>2. S \in SUBSET Id /\ r \in S
    OBVIOUS
  <2>3. d \in S
    <3> HIDE DEF S
    <3> QED
      BY <1>4, <2>1, <2>2 DEF Reachable
  <2> QED
    BY <1>4, <2>3
<1> QED
  BY <1>1, <1>2, <1>3, <1>4

Results == {"found", "absent", "diverges"}

\* The loop over the children stops at the first answer that settles it.
LEMMA FirstDecisiveValue ==
  ASSUME NEW s \in Seq(Results)
  PROVE  /\ FirstDecisive(s) \in 0 .. Len(s)
         /\ FirstDecisive(s) = 0 => \A i \in 1 .. Len(s) : s[i] = "absent"
         /\ FirstDecisive(s) # 0 => s[FirstDecisive(s)] \in {"found", "diverges"}
<1> DEFINE I == { i \in 1 .. Len(s) : s[i] # "absent" }
<1>1. FirstDecisive(s) = IF I # {} THEN Min(I) ELSE 0
  BY DEF FirstDecisive, SelectInSeq
<1>2. ASSUME I # {} PROVE Min(I) \in I
  <2>1. I \in SUBSET Nat
    OBVIOUS
  <2>2. \E m \in I : \A y \in I : m =< y
    BY <1>2, <2>1, Nodes!LeastMember
  <2> QED
    BY <2>2 DEF Min
<1>3. CASE I # {}
  BY <1>1, <1>2, <1>3 DEF Results
<1>4. CASE I = {}
  BY <1>1, <1>4
<1> QED
  BY <1>3, <1>4

\* The nested calls for the children of id have returned, or never will.
Answered(t, id, nested) == \A c \in Id : <<id, c>> \in Edges(t) => nested[c] \in Results

\* One call, by what the nested calls for the children return.
LEMMA OutcomeValue ==
  ASSUME NEW t, IsTree(t), NEW d \in Id, NEW id \in Id, NEW nested,
         Answered(t, id, nested)
  PROVE  /\ Outcome(t, d, nested, id) \in Results
         /\ Outcome(t, d, nested, id) = "found"
              => id = d \/ \E c \in Id : <<id, c>> \in Edges(t) /\ nested[c] = "found"
         /\ Outcome(t, d, nested, id) = "absent"
              => id # d /\ \A c \in Id : <<id, c>> \in Edges(t) => nested[c] = "absent"
         /\ Outcome(t, d, nested, id) = "diverges"
              => \E c \in Id : <<id, c>> \in Edges(t) /\ nested[c] = "diverges"
<1> DEFINE k == Index(t, id)
           children == t[k].children
           outcomes == [j \in DOMAIN children |-> nested[children[j]]]
           decisive == FirstDecisive(outcomes)
<1>1. CASE id = d
  BY <1>1 DEF Outcome, Results
<1>2. CASE id # d /\ k = 0
  <2>1. Outcome(t, d, nested, id) = "absent"
    BY <1>2 DEF Outcome
  <2>2. \A c \in Id : <<id, c>> \notin Edges(t)
    BY <1>2, EdgeFacts
  <2> QED
    BY <1>2, <2>1, <2>2 DEF Results
<1>3. CASE id # d /\ k # 0
  <2>1. Outcome(t, d, nested, id) = IF decisive = 0 THEN "absent" ELSE outcomes[decisive]
    BY <1>3 DEF Outcome
  <2>2. /\ children \in Seq(Id)
        /\ \A c : <<id, c>> \in Edges(t) <=> c \in ToSet(children)
    BY <1>3, EdgeFacts
  <2> HIDE DEF k, children
  <2>3. /\ DOMAIN children = 1 .. Len(children) /\ Len(children) \in Nat
        /\ \A j \in 1 .. Len(children) : children[j] \in Id /\ <<id, children[j]>> \in Edges(t)
        /\ \A c : <<id, c>> \in Edges(t) => \E j \in 1 .. Len(children) : c = children[j]
    BY <2>2 DEF ToSet
  <2>4. \A j \in 1 .. Len(children) :
          outcomes[j] = nested[children[j]] /\ outcomes[j] \in Results
    BY <2>3 DEF Answered
  <2>5. outcomes \in Seq(Results) /\ Len(outcomes) = Len(children)
    BY <2>3, <2>4
  <2> HIDE DEF outcomes
  <2>6. /\ decisive \in 0 .. Len(children)
        /\ decisive = 0 => \A i \in 1 .. Len(children) : outcomes[i] = "absent"
        /\ decisive # 0 => outcomes[decisive] \in {"found", "diverges"}
    BY <2>5, FirstDecisiveValue
  <2> HIDE DEF decisive
  <2>7. CASE decisive = 0
    BY <1>3, <2>1, <2>3, <2>4, <2>6, <2>7 DEF Results
  <2>8. CASE decisive # 0
    <3>1. /\ decisive \in 1 .. Len(children)
          /\ Outcome(t, d, nested, id) = nested[children[decisive]]
          /\ nested[children[decisive]] \in {"found", "diverges"}
          /\ children[decisive] \in Id /\ <<id, children[decisive]>> \in Edges(t)
      BY <2>1, <2>3, <2>4, <2>6, <2>8
    <3> QED
      BY <3>1 DEF Results
  <2> QED
    BY <2>7, <2>8
<1> QED
  BY <1>1, <1>2, <1>3
\* call[k][id] is the outcome of the call for id when k calls may nest.
IsCall(call, t, d, Ids, n) ==
  call = [k \in 0 .. n |->
            [id \in Ids |-> IF k = 0 THEN "diverges" ELSE Outcome(t, d, call[k - 1], id)]]

LEMMA CallExists ==
  ASSUME NEW t, NEW d, NEW Ids, NEW n \in Nat
  PROVE  \E call : IsCall(call, t, d, Ids, n)
<1> DEFINE S == { m \in Nat : \E call : IsCall(call, t, d, Ids, m) }
<1>1. 0 \in S
  <2> DEFINE call == [k \in 0 .. 0 |-> [id \in Ids |-> "diverges"]]
  <2>1. IsCall(call, t, d, Ids, 0)
    BY DEF IsCall
  <2> HIDE DEF call
  <2> QED
    BY <2>1
<1>2. ASSUME NEW m \in Nat, m \in S PROVE m + 1 \in S
  <2>1. PICK call : IsCall(call, t, d, Ids, m)
    BY <1>2
  <2> DEFINE row(f, k) == [id \in Ids |-> IF k = 0 THEN "diverges"
                                          ELSE Outcome(t, d, f[k - 1], id)]
             g == [k \in 0 .. m + 1 |-> row(call, k)]
             h == [k \in 0 .. m + 1 |-> row(g, k)]
  <2>2. \A k \in 0 .. m : call[k] = row(call, k)
    BY <2>1 DEF IsCall
  <2>3. \A k \in 0 .. m : k \in 0 .. m + 1 /\ g[k] = call[k]
    BY <2>2
  <2>4. ASSUME NEW k \in 0 .. m + 1 PROVE g[k] = row(g, k)
    <3>1. k # 0 => k - 1 \in 0 .. m
      OBVIOUS
    <3>2. k # 0 => g[k - 1] = call[k - 1]
      BY <2>3, <3>1
    <3>3. row(g, k) = row(call, k)
      BY <3>2
    <3> QED
      BY <3>3
  <2>5. g = h
    BY <2>4
  <2>6. IsCall(g, t, d, Ids, m + 1)
    BY <2>5 DEF IsCall
  <2> HIDE DEF g
  <2> QED
    BY <2>6
<1> HIDE DEF S
<1>3. Nat \subseteq S
  BY <1>1, <1>2, Nodes!SetInduction
<1> QED
  BY <1>3 DEF S

\* The entries that can be reached from a mote.
Below(t, id) == { i \in DOMAIN t : Reachable(t, id, t[i].id) }

CycleBelow(t, id) == \E e \in Edges(t) : Reachable(t, id, e[1]) /\ Reachable(t, e[2], e[1])

LEMMA BelowFinite ==
  ASSUME NEW t, IsTree(t), NEW id \in Id
  PROVE  /\ IsFiniteSet(Below(t, id))
         /\ Cardinality(Below(t, id)) \in Nat
         /\ Cardinality(Below(t, id)) =< Len(t)
<1>1. Len(t) \in Nat /\ DOMAIN t = 1 .. Len(t)
  BY DEF IsTree
<1>2. IsFiniteSet(1 .. Len(t)) /\ Cardinality(1 .. Len(t)) = Len(t)
  <2>1. Len(t) - 1 + 1 = Len(t) /\ (1 > Len(t) => Len(t) = 0) /\ 1 \in Int /\ Len(t) \in Int
    BY <1>1
  <2> QED
    BY <2>1, FS_Interval
<1>3. Below(t, id) \subseteq 1 .. Len(t)
  BY <1>1 DEF Below
<1>4. IsFiniteSet(Below(t, id)) /\ Cardinality(Below(t, id)) =< Len(t)
  BY <1>2, <1>3, FS_Subset
<1> QED
  BY <1>4, FS_CardinalityType

\* Without a cycle fewer entries are below a child than below its parent.
LEMMA BelowShrinks ==
  ASSUME NEW t, IsTree(t), NEW id \in Id, NEW c \in Id, <<id, c>> \in Edges(t)
  PROVE  CycleBelow(t, id) \/ (/\ ~ CycleBelow(t, c)
                               /\ Cardinality(Below(t, c)) < Cardinality(Below(t, id)))
<1> SUFFICES ASSUME ~ CycleBelow(t, id)
             PROVE  ~ CycleBelow(t, c) /\ Cardinality(Below(t, c)) < Cardinality(Below(t, id))
  OBVIOUS
<1>1. /\ \A i \in DOMAIN t : t[i].id \in Id
      /\ \A e \in Edges(t) : e[1] \in Id /\ e[2] \in Id
  <2>1. \A i \in DOMAIN t : t[i] \in Entry
    BY DEF IsTree
  <2> QED
    BY <2>1, EdgeFacts DEF Entry
<1>2. ~ CycleBelow(t, c)
  BY <1>1, ReachFacts DEF CycleBelow
<1>3. PICK i \in DOMAIN t : t[i].id = id
  BY EdgesValue
<1>4. Reachable(t, id, id)
  BY ReachFacts
<1>5. ~ Reachable(t, c, id)
  BY <1>4 DEF CycleBelow
<1>6. i \in Below(t, id) /\ i \notin Below(t, c)
  BY <1>3, <1>4, <1>5 DEF Below
<1>7. Below(t, c) \subseteq Below(t, id)
  BY <1>1, ReachFacts DEF Below
<1>8. Below(t, c) # Below(t, id)
  BY <1>6
<1>9. Cardinality(Below(t, c)) < Cardinality(Below(t, id))
  BY <1>7, <1>8, BelowFinite, FS_Subset
<1> QED
  BY <1>2, <1>9

\* What k nested calls find out.
Honest(t, d, id, outcome, k) ==
  /\ outcome \in Results
  /\ outcome = "found" => Reachable(t, id, d)
  /\ outcome = "absent" => ~ Reachable(t, id, d)
  /\ outcome = "diverges" => CycleBelow(t, id) \/ k =< Cardinality(Below(t, id))

LEMMA CallValue ==
  ASSUME NEW t, IsTree(t), NEW d \in Id, NEW Ids \in SUBSET Id,
         \A e \in Edges(t) : e[2] \in Ids,
         NEW n \in Nat, NEW call, IsCall(call, t, d, Ids, n)
  PROVE  \A k \in 0 .. n : \A id \in Ids : Honest(t, d, id, call[k][id], k)
<1> DEFINE S == { k \in Nat : k =< n => \A id \in Ids : Honest(t, d, id, call[k][id], k) }
<1>1. 0 \in S
  <2> SUFFICES ASSUME NEW id \in Ids PROVE Honest(t, d, id, call[0][id], 0)
    OBVIOUS
  <2>1. call[0][id] = "diverges"
    BY DEF IsCall
  <2> QED
    BY <2>1, BelowFinite DEF Honest, Results
<1>2. ASSUME NEW k \in Nat, k \in S PROVE k + 1 \in S
  <2> SUFFICES ASSUME k + 1 =< n, NEW id \in Ids
               PROVE  Honest(t, d, id, call[k + 1][id], k + 1)
    OBVIOUS
  <2> DEFINE nested == call[k]
             outcome == call[k + 1][id]
  <2>1. k + 1 \in 0 .. n /\ k + 1 # 0 /\ (k + 1) - 1 = k /\ k =< n
    OBVIOUS
  <2>2. outcome = Outcome(t, d, nested, id)
    BY <2>1 DEF IsCall
  <2>3. \A c \in Ids : Honest(t, d, c, nested[c], k)
    BY <1>2, <2>1
  <2> HIDE DEF nested, outcome
  <2>4. \A c \in Id : <<id, c>> \in Edges(t) => c \in Ids /\ Honest(t, d, c, nested[c], k)
    BY <2>3
  <2>5. /\ outcome \in Results
        /\ outcome = "found"
             => id = d \/ \E c \in Id : <<id, c>> \in Edges(t) /\ nested[c] = "found"
        /\ outcome = "absent"
             => id # d /\ \A c \in Id : <<id, c>> \in Edges(t) => nested[c] = "absent"
        /\ outcome = "diverges"
             => \E c \in Id : <<id, c>> \in Edges(t) /\ nested[c] = "diverges"
    <3>1. Answered(t, id, nested)
      BY <2>4 DEF Honest, Answered
    <3>2. id \in Id
      OBVIOUS
    <3>3. /\ Outcome(t, d, nested, id) \in Results
          /\ Outcome(t, d, nested, id) = "found"
               => id = d \/ \E c \in Id : <<id, c>> \in Edges(t) /\ nested[c] = "found"
          /\ Outcome(t, d, nested, id) = "absent"
               => id # d /\ \A c \in Id : <<id, c>> \in Edges(t) => nested[c] = "absent"
          /\ Outcome(t, d, nested, id) = "diverges"
               => \E c \in Id : <<id, c>> \in Edges(t) /\ nested[c] = "diverges"
      BY <3>1, <3>2, OutcomeValue
    <3> QED
      BY <2>2, <3>3
  <2>r. /\ Reachable(t, id, id)
        /\ \A c \in Id : <<id, c>> \in Edges(t) /\ Reachable(t, c, d) => Reachable(t, id, d)
        /\ Reachable(t, id, d)
             => id = d \/ \E c \in Id : <<id, c>> \in Edges(t) /\ Reachable(t, c, d)
    BY ReachFacts
  <2>h. \A c \in Id : <<id, c>> \in Edges(t)
          => /\ nested[c] = "found" => Reachable(t, c, d)
             /\ nested[c] = "absent" => ~ Reachable(t, c, d)
    BY <2>4 DEF Honest
  <2>6. outcome = "found" => Reachable(t, id, d)
    BY <2>5, <2>r, <2>h
  <2>7. outcome = "absent" => ~ Reachable(t, id, d)
    BY <2>5, <2>r, <2>h
  <2>8. ASSUME outcome = "diverges", ~ CycleBelow(t, id)
        PROVE  k + 1 =< Cardinality(Below(t, id))
    <3>1. PICK c \in Id : <<id, c>> \in Edges(t) /\ nested[c] = "diverges"
      BY <2>5, <2>8
    <3>2. ~ CycleBelow(t, c) /\ Cardinality(Below(t, c)) < Cardinality(Below(t, id))
      BY <2>8, <3>1, BelowShrinks
    <3>3. k =< Cardinality(Below(t, c))
      BY <2>4, <3>1, <3>2 DEF Honest
    <3>4. Cardinality(Below(t, c)) \in Nat /\ Cardinality(Below(t, id)) \in Nat
      BY BelowFinite
    <3> QED
      BY <3>2, <3>3, <3>4
  <2> HIDE DEF S
  <2>9. Honest(t, d, id, outcome, k + 1)
    BY <2>5, <2>6, <2>7, <2>8 DEF Honest
  <2> QED
    BY <2>9 DEF outcome
<1> HIDE DEF S
<1>3. Nat \subseteq S
  BY <1>1, <1>2, Nodes!SetInduction
<1> QED
  BY <1>3 DEF S

\* find_in_subtree never lies, and it runs away only below a cycle.
LEMMA FindValue ==
  ASSUME NEW t, IsTree(t), NEW r \in Id, NEW d \in Id
  PROVE  /\ find_in_subtree(t, r, d) \in Results
         /\ find_in_subtree(t, r, d) = "found" => Reachable(t, r, d)
         /\ find_in_subtree(t, r, d) = "absent" => ~ Reachable(t, r, d)
         /\ find_in_subtree(t, r, d) = "diverges" => CycleBelow(t, r)
<1> DEFINE Ids == {r, d} \cup { t[i].id : i \in DOMAIN t }
                         \cup UNION { ToSet(t[i].children) : i \in DOMAIN t }
           n == Len(t) + 1
           call == CHOOSE call : IsCall(call, t, d, Ids, n)
<1>1. n \in Nat /\ Len(t) \in Nat
  BY DEF IsTree
<1>2. find_in_subtree(t, r, d) = call[n][r]
  BY DEF find_in_subtree, IsCall
<1>3. Ids \in SUBSET Id
  <2>1. \A i \in DOMAIN t : t[i].id \in Id /\ t[i].children \in Seq(Id)
    <3>1. \A i \in DOMAIN t : t[i] \in Entry
      BY DEF IsTree
    <3> QED
      BY <3>1 DEF Entry
  <2>2. \A i \in DOMAIN t : ToSet(t[i].children) \subseteq Id
    BY <2>1 DEF ToSet
  <2> QED
    BY <2>1, <2>2
<1>4. \A e \in Edges(t) : e[2] \in Ids
  BY EdgesValue
<1>5. r \in Ids
  OBVIOUS
<1> HIDE DEF Ids, n
<1>6. IsCall(call, t, d, Ids, n)
  BY <1>1, CallExists
<1> HIDE DEF call
<1>7. Honest(t, d, r, call[n][r], n)
  <2>1. n \in 0 .. n
    BY <1>1
  <2>2. \A k \in 0 .. n : \A id \in Ids : Honest(t, d, id, call[k][id], k)
    BY <1>1, <1>3, <1>4, <1>6, CallValue
  <2> QED
    BY <1>5, <2>1, <2>2
<1>8. Cardinality(Below(t, r)) \in Nat /\ Cardinality(Below(t, r)) < n
  BY <1>1, BelowFinite DEF n
<1> QED
  BY <1>1, <1>2, <1>7, <1>8 DEF Honest

\* Search_forwarder names a child below which the destination is, gives it up
\* only when it is below none of them, and returns unless there is a cycle.
LEMMA SearchValue ==
  ASSUME NEW t, IsTree(t), NEW r \in Id, NEW d \in Id
  PROVE  LET next == Search_forwarder(t, r, d)
         IN  /\ next \in Id \cup {Upstream, Diverges}
             /\ next \in Id => <<r, next>> \in Edges(t) /\ Reachable(t, next, d)
             /\ next = Upstream => \A c \in Id : <<r, c>> \in Edges(t) => ~ Reachable(t, c, d)
             /\ next = Diverges => CycleBelow(t, r)
<1> DEFINE k == Index(t, r)
           children == IF k = 0 THEN << >> ELSE t[k].children
           outcomes == [j \in DOMAIN children |-> find_in_subtree(t, children[j], d)]
           decisive == FirstDecisive(outcomes)
           next == Search_forwarder(t, r, d)
<1>1. next = IF decisive = 0 THEN Upstream
             ELSE IF outcomes[decisive] = "found" THEN children[decisive]
             ELSE Diverges
  BY DEF Search_forwarder
<1>2. /\ children \in Seq(Id)
      /\ \A c : <<r, c>> \in Edges(t) <=> c \in ToSet(children)
  <2>1. CASE k = 0
    <3>1. children = << >> /\ ToSet(<< >>) = {} /\ << >> \in Seq(Id)
      BY <2>1 DEF ToSet
    <3>2. \A c : <<r, c>> \notin Edges(t)
      BY <2>1, EdgeFacts
    <3> HIDE DEF children
    <3> QED
      BY <3>1, <3>2
  <2>2. CASE k # 0
    BY <2>2, EdgeFacts
  <2> QED
    BY <2>1, <2>2
<1> HIDE DEF k, children
<1>3. /\ DOMAIN children = 1 .. Len(children) /\ Len(children) \in Nat
      /\ \A j \in 1 .. Len(children) : children[j] \in Id /\ <<r, children[j]>> \in Edges(t)
      /\ \A c : <<r, c>> \in Edges(t) => \E j \in 1 .. Len(children) : c = children[j]
  BY <1>2 DEF ToSet
<1>4. \A j \in 1 .. Len(children) :
        /\ outcomes[j] \in Results
        /\ outcomes[j] = "found" => Reachable(t, children[j], d)
        /\ outcomes[j] = "absent" => ~ Reachable(t, children[j], d)
        /\ outcomes[j] = "diverges" => CycleBelow(t, children[j])
  BY <1>3, FindValue
<1>5. outcomes \in Seq(Results) /\ Len(outcomes) = Len(children)
  BY <1>3, <1>4
<1> HIDE DEF outcomes
<1>6. /\ decisive \in 0 .. Len(children)
      /\ decisive = 0 => \A i \in 1 .. Len(children) : outcomes[i] = "absent"
      /\ decisive # 0 => outcomes[decisive] \in {"found", "diverges"}
  BY <1>5, FirstDecisiveValue
<1> HIDE DEF decisive, next
<1>7. Upstream \notin Id /\ Diverges \notin Id /\ Upstream # Diverges
  BY Bounds DEF Upstream, Diverges
<1>8. CASE decisive = 0
  BY <1>1, <1>3, <1>4, <1>6, <1>7, <1>8 DEF next
<1>9. CASE decisive # 0 /\ outcomes[decisive] = "found"
  <2>1. decisive \in 1 .. Len(children)
    BY <1>6, <1>9
  <2> QED
    BY <1>1, <1>3, <1>4, <1>7, <1>9, <2>1 DEF next
<1>10. CASE decisive # 0 /\ outcomes[decisive] = "diverges"
  <2>1. decisive \in 1 .. Len(children)
    BY <1>6, <1>10
  <2>2. CycleBelow(t, children[decisive]) /\ next = Diverges
    BY <1>1, <1>4, <1>10, <2>1
  <2>3. <<r, children[decisive]>> \in Edges(t) /\ children[decisive] \in Id
    BY <1>3, <2>1
  <2>4. CycleBelow(t, r)
    BY <2>2, <2>3, BelowShrinks
  <2> QED
    BY <1>7, <2>2, <2>4 DEF next
<1> QED
  BY <1>6, <1>8, <1>9, <1>10

\* What find_in_subtree finds can be reached, what it gives up on cannot, and
\* it returns on every tree without a cycle; Search_forwarder picks a child
\* that leads to the destination.  So for arrays of any size.
THEOREM SearchesFindTheWay == Spec => []SearchIsReachability
<1>1. IsTree(tree) => SearchIsReachability
  <2> SUFFICES ASSUME IsTree(tree) PROVE SearchIsReachability
    OBVIOUS
  <2> DEFINE reach == [r \in Id |-> { d \in Id : Reachable(tree, r, d) }]
  <2>1. \A r, d \in Id : d \in reach[r] <=> Reachable(tree, r, d)
    OBVIOUS
  <2> HIDE DEF reach
  <2>2. SUFFICES
          ASSUME NEW r \in Id, NEW d \in Id
          PROVE  LET outcome == find_in_subtree(tree, r, d)
                     next == Search_forwarder(tree, r, d)
                 IN  /\ outcome = "found" => d \in reach[r]
                     /\ outcome = "absent" => d \notin reach[r]
                     /\ outcome = "diverges"
                          => \E e \in Edges(tree) : e[1] \in reach[r] /\ e[1] \in reach[e[2]]
                     /\ next \notin {Upstream, Diverges}
                          => <<r, next>> \in Edges(tree) /\ d \in reach[next]
                     /\ next = Upstream
                          => \A c \in Id : <<r, c>> \in Edges(tree) => d \notin reach[c]
    BY DEF SearchIsReachability, reach
  <2>3. \A e \in Edges(tree) : e[1] \in Id /\ e[2] \in Id
    BY EdgeFacts
  <2>4. CycleBelow(tree, r) => \E e \in Edges(tree) : e[1] \in reach[r] /\ e[1] \in reach[e[2]]
    BY <2>1, <2>3 DEF CycleBelow
  <2> QED
    BY <2>1, <2>4, FindValue, SearchValue
<1> QED
  BY <1>1, GrowsToTree, PTL
================================================================================
