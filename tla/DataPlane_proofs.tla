---------------------------- MODULE DataPlane_proofs ----------------------------
(***************************************************************************)
(* Proofs about the packets.  The bookkeeping of a mote, its blocks, its   *)
(* list and the events that drain it, and the one place of each packet do  *)
(* not depend on the routing tables: any next hop will do.  The way of a   *)
(* packet does, and rests on what RoutingTable_proofs shows of them.       *)
(***************************************************************************)
EXTENDS DataPlane, SequenceTheorems, FiniteSetTheorems, TLAPS

\* s is a sequence, whatever it holds.
IsSeq(s) == Len(s) \in Nat /\ s = [i \in 1 .. Len(s) |-> s[i]]

\* Every packet in a list has a block, and a list without an event is empty:
\* tables alone leave room in the queue for an event.
IInv ==
  /\ pkt_mem \in [Node -> Nat]
  /\ routes \in [Node -> Nat]
  /\ posted \in [Node -> 0 .. TableQuota]
  /\ DOMAIN pkt_list = Node /\ pkt_list = [n \in Node |-> pkt_list[n]]
  /\ \A n \in Node :
       /\ IsSeq(pkt_list[n])
       /\ pkt_mem[n] = Len(pkt_list[n])
       /\ TableQuota < QueueSize /\ pkt_list[n] # << >> => routes[n] > 0

\* The packet lists after a push.
LEMMA Pushed ==
  ASSUME NEW s, NEW e, IsSeq(s)
  PROVE  /\ IsSeq(Cons(e, s))
         /\ Len(Cons(e, s)) = Len(s) + 1
<1> DEFINE S == { s[i] : i \in 1 .. Len(s) } \cup {e}
<1>1. s \in Seq(S)
  BY DEF IsSeq
<1>2. <<e>> \o s \in Seq(S) /\ Len(<<e>> \o s) = Len(s) + 1
  BY <1>1
<1> HIDE DEF S
<1>3. ASSUME NEW t \in Seq(S) PROVE IsSeq(t)
  BY DEF IsSeq
<1> QED
  BY <1>2, <1>3 DEF Cons

LEMMA Empty == IsSeq(<< >>) /\ Len(<< >>) = 0
BY DEF IsSeq

LEMMA QueueConstants ==
  QueueSize \in Nat /\ TableQuota \in Nat /\ TableQuota =< QueueSize /\ PoolSize \in Nat
BY DataAssumption

\* A received or generated packet: a full queue that refuses the event holds
\* another event that drains the list, since tables do not fill it.
LEMMA EnqueueKeeps ==
  ASSUME NEW n \in Node, NEW pkt, IInv, Enqueue(n, pkt), UNCHANGED posted
  PROVE  IInv'
<1>1. CASE pkt_mem[n] < PoolSize
  <2> DEFINE list == Cons(pkt, pkt_list[n])
  <2>1. /\ pkt_mem' = [pkt_mem EXCEPT ![n] = @ + 1]
        /\ pkt_list' = [pkt_list EXCEPT ![n] = list]
        /\ routes' = [routes EXCEPT ![n] = IF QueueFull(n) THEN @ ELSE @ + 1]
    BY <1>1 DEF Enqueue
  <2>2. IsSeq(list) /\ Len(list) = Len(pkt_list[n]) + 1
    BY Pushed DEF IInv
  <2> HIDE DEF list
  <2>3. pkt_mem' \in [Node -> Nat] /\ routes' \in [Node -> Nat] /\ posted' \in [Node -> 0 .. TableQuota]
    BY <2>1 DEF IInv
  <2>4. DOMAIN pkt_list' = Node /\ pkt_list' = [m \in Node |-> pkt_list'[m]]
    BY <2>1 DEF IInv
  <2>5. ASSUME TableQuota < QueueSize PROVE routes'[n] > 0
    <3>1. CASE QueueFull(n)
      <4>1. posted[n] + routes[n] >= QueueSize /\ posted[n] \in 0 .. TableQuota /\ routes[n] \in Nat
        BY <3>1 DEF QueueFull, IInv
      <4>2. routes'[n] = routes[n]
        BY <2>1, <3>1 DEF IInv
      <4> QED
        BY <4>1, <4>2, <2>5, QueueConstants
    <3>2. CASE ~ QueueFull(n)
      BY <2>1, <3>2 DEF IInv
    <3> QED
      BY <3>1, <3>2
  <2>6. ASSUME NEW m \in Node
        PROVE  /\ IsSeq(pkt_list'[m])
               /\ pkt_mem'[m] = Len(pkt_list'[m])
               /\ TableQuota < QueueSize /\ pkt_list'[m] # << >> => routes'[m] > 0
    <3>1. CASE m = n
      <4>1. pkt_list'[n] = list /\ pkt_mem'[n] = pkt_mem[n] + 1
        BY <2>1 DEF IInv
      <4> QED
        BY <3>1, <4>1, <2>2, <2>5 DEF IInv
    <3>2. CASE m # n
      BY <2>1, <3>2 DEF IInv
    <3> QED
      BY <3>1, <3>2
  <2> QED
    BY <2>3, <2>4, <2>6 DEF IInv
<1>2. CASE ~ (pkt_mem[n] < PoolSize)
  BY <1>2 DEF Enqueue, IInv, IsSeq
<1> QED
  BY <1>1, <1>2

LEMMA InitIInv == Init => IInv
<1> SUFFICES ASSUME Init PROVE IInv
  OBVIOUS
<1>1. posted = [n \in Node |-> 0]
  BY DEF Init, Table!Init
<1> QED
  BY <1>1, Empty, QueueConstants DEF Init, IInv

\* A step of the tables leaves lists, blocks and events of the packets alone.
LEMMA TablesKeep ==
  ASSUME IInv, UNCHANGED dataVars, posted' \in [Node -> 0 .. TableQuota]
  PROVE  IInv'
BY DEF IInv, dataVars, IsSeq

LEMMA NextIInv == IInv /\ [Next]_vars => IInv'
<1> SUFFICES ASSUME IInv, [Next]_vars PROVE IInv'
  OBVIOUS
<1> USE QueueConstants
<1>1. CASE generate_pkt_dst
  <2>1. Origen \in Node /\ UNCHANGED posted
    BY <1>1, DataAssumption DEF generate_pkt_dst, tableVars
  <2> QED
    BY <1>1, <2>1, EnqueueKeeps DEF generate_pkt_dst
<1>2. ASSUME NEW n \in Node, NEW s \in Node, recv_uc_data(n, s) PROVE IInv'
  <2>1. UNCHANGED posted
    BY <1>2 DEF recv_uc_data, tableVars
  <2> QED
    BY <1>2, <2>1, EnqueueKeeps DEF recv_uc_data
<1>3. ASSUME NEW n \in Node, routing_upstream_downstream(n) PROVE IInv'
  <2>1. /\ routes[n] > 0
        /\ routes' = [routes EXCEPT ![n] = @ - 1]
        /\ pkt_list' = [pkt_list EXCEPT ![n] = << >>]
        /\ pkt_mem' = [pkt_mem EXCEPT ![n] = @ - Len(pkt_list[n])]
        /\ posted' = posted
    BY <1>3 DEF routing_upstream_downstream, Drain, tableVars
  <2>2. pkt_mem[n] - Len(pkt_list[n]) = 0
    BY DEF IInv
  <2>3. pkt_mem' = [pkt_mem EXCEPT ![n] = 0]
    BY <2>1, <2>2 DEF IInv
  <2>4. pkt_mem' \in [Node -> Nat] /\ routes' \in [Node -> Nat] /\ posted' \in [Node -> 0 .. TableQuota]
    BY <2>1, <2>3 DEF IInv
  <2>5. DOMAIN pkt_list' = Node /\ pkt_list' = [m \in Node |-> pkt_list'[m]]
    BY <2>1 DEF IInv
  <2>6. ASSUME NEW m \in Node
        PROVE  /\ IsSeq(pkt_list'[m])
               /\ pkt_mem'[m] = Len(pkt_list'[m])
               /\ TableQuota < QueueSize /\ pkt_list'[m] # << >> => routes'[m] > 0
    <3>1. CASE m = n
      <4>1. pkt_list'[n] = << >> /\ pkt_mem'[n] = 0
        BY <2>1, <2>3 DEF IInv
      <4> QED
        BY <3>1, <4>1, Empty
    <3>2. CASE m # n
      BY <2>1, <2>3, <3>2 DEF IInv
    <3> QED
      BY <3>1, <3>2
  <2> QED
    BY <2>4, <2>5, <2>6 DEF IInv
<1>4. ASSUME NEW s \in Node, NEW r \in Node, LosePacket(s, r) PROVE IInv'
  BY <1>4 DEF LosePacket, tableVars, IInv, IsSeq
<1>5. ASSUME NEW n \in Node, RebootMote(n) PROVE IInv'
  <2>1. /\ pkt_list' = [pkt_list EXCEPT ![n] = << >>]
        /\ pkt_mem' = [pkt_mem EXCEPT ![n] = 0]
        /\ routes' = [routes EXCEPT ![n] = 0]
        /\ posted' = [posted EXCEPT ![n] = 0]
    BY <1>5 DEF RebootMote, Table!Reboot
  <2>2. pkt_mem' \in [Node -> Nat] /\ routes' \in [Node -> Nat] /\ posted' \in [Node -> 0 .. TableQuota]
    BY <2>1 DEF IInv
  <2>3. DOMAIN pkt_list' = Node /\ pkt_list' = [m \in Node |-> pkt_list'[m]]
    BY <2>1 DEF IInv
  <2>4. ASSUME NEW m \in Node
        PROVE  /\ IsSeq(pkt_list'[m])
               /\ pkt_mem'[m] = Len(pkt_list'[m])
               /\ TableQuota < QueueSize /\ pkt_list'[m] # << >> => routes'[m] > 0
    <3>1. CASE m = n
      <4>1. pkt_list'[n] = << >> /\ pkt_mem'[n] = 0
        BY <2>1 DEF IInv
      <4> QED
        BY <3>1, <4>1, Empty
    <3>2. CASE m # n
      BY <2>1, <3>2 DEF IInv
    <3> QED
      BY <3>1, <3>2
  <2> QED
    BY <2>2, <2>3, <2>4 DEF IInv
<1>6. ASSUME NEW n \in Node, NEW s \in Node, recv_uc_control(n, s) PROVE IInv'
  <2>1. /\ posted[n] < TableQuota
        /\ \/ posted' = [posted EXCEPT ![n] = @ + 1]
           \/ posted' = posted
        /\ UNCHANGED dataVars
    BY <1>6 DEF recv_uc_control, Table!recv_uc, IInv
  <2>2. posted[n] + 1 \in 0 .. TableQuota
    BY <2>1 DEF IInv
  <2>3. posted' \in [Node -> 0 .. TableQuota]
    BY <2>1, <2>2 DEF IInv
  <2> QED
    BY <2>1, <2>3, TablesKeep
<1>7. ASSUME NEW n \in Node, NEW p \in Candidates[n], TakeParent(n, p) PROVE IInv'
  <2>1. UNCHANGED dataVars /\ UNCHANGED posted
    BY <1>7 DEF TakeParent, Table!ChooseParent
  <2> QED
    BY <2>1, TablesKeep DEF IInv
<1>8. ASSUME NEW n \in Node, DropParent(n) PROVE IInv'
  <2>1. UNCHANGED dataVars /\ UNCHANGED posted
    BY <1>8 DEF DropParent, Table!LoseParent
  <2> QED
    BY <2>1, TablesKeep DEF IInv
<1>9. ASSUME NEW n \in Node, send_table(n) PROVE IInv'
  <2>1. UNCHANGED dataVars /\ UNCHANGED posted
    BY <1>9 DEF send_table, Table!send_routing_table
  <2> QED
    BY <2>1, TablesKeep DEF IInv
<1>10. ASSUME NEW n \in Node, update_table(n) PROVE IInv'
  <2>1. /\ posted[n] > 0
        /\ posted' = [posted EXCEPT ![n] = @ - 1]
        /\ UNCHANGED dataVars
    BY <1>10 DEF update_table, Table!update_routing_table
  <2>2. posted' \in [Node -> 0 .. TableQuota]
    BY <2>1 DEF IInv
  <2> QED
    BY <2>1, <2>2, TablesKeep
<1>11. CASE UNCHANGED vars
  BY <1>11, TablesKeep DEF vars, tableVars, IInv
<1> QED
  BY <1>1, <1>2, <1>3, <1>4, <1>5, <1>6, <1>7, <1>8, <1>9, <1>10, <1>11 DEF Next

LEMMA Bookkeeping == Spec => []IInv
BY InitIInv, NextIInv, PTL DEF Spec

\* A block of pkt_mem is allocated exactly for the packets in the list, for any
\* size of the pool and any number of motes: routing_upstream_downstream frees
\* a block whichever way a packet leaves.
THEOREM NoBlockLeaks == Spec => []BlocksAreListed
<1>1. IInv => BlocksAreListed
  BY DEF IInv, BlocksAreListed
<1> QED
  BY <1>1, Bookkeeping, PTL

\* Where tables alone cannot fill the event queue, a packet in the list always
\* has an event under way, although process_post may have failed for it.
THEOREM PacketHasEvent == Spec => []NeverStranded
<1>1. IInv => NeverStranded
  BY DEF IInv, NeverStranded
<1> QED
  BY <1>1, Bookkeeping, PTL
-----------------------------------------------------------------------------
(***************************************************************************)
(* Sequences of packets, and the packets in them.                          *)
(***************************************************************************)
Nths(s) == { s[i].nth : i \in DOMAIN s }
Once(s) == \A i, j \in DOMAIN s : s[i].nth = s[j].nth => i = j

LEMMA EmptyFacts == << >> \in Seq(Packet) /\ Len(<< >>) = 0 /\ Nths(<< >>) = {} /\ Once(<< >>)
BY DEF Nths, Once

LEMMA ConsFacts ==
  ASSUME NEW s \in Seq(Packet), NEW e \in Packet
  PROVE  /\ Cons(e, s) \in Seq(Packet)
         /\ Len(Cons(e, s)) = Len(s) + 1
         /\ Nths(Cons(e, s)) = Nths(s) \cup {e.nth}
         /\ Once(s) /\ e.nth \notin Nths(s) => Once(Cons(e, s))
<1> DEFINE c == Cons(e, s)
<1>1. Len(s) \in Nat /\ DOMAIN s = 1 .. Len(s)
  OBVIOUS
<1>2. /\ c \in Seq(Packet) /\ Len(c) = Len(s) + 1 /\ DOMAIN c = 1 .. Len(s) + 1
      /\ c[1] = e
      /\ \A i \in 1 .. Len(s) : c[i + 1] = s[i]
  BY DEF Cons
<1> HIDE DEF c
<1>3. \A k \in 1 .. Len(s) + 1 : k = 1 \/ \E i \in 1 .. Len(s) : k = i + 1
  <2> TAKE k \in 1 .. Len(s) + 1
  <2>1. k = 1 \/ (k - 1 \in 1 .. Len(s) /\ k = (k - 1) + 1)
    BY <1>1
  <2> QED
    BY <2>1
<1>4. \A i \in 1 .. Len(s) : i + 1 \in 1 .. Len(s) + 1 /\ 1 \in 1 .. Len(s) + 1
  BY <1>1
<1>5. Nths(c) \subseteq Nths(s) \cup {e.nth}
  <2> SUFFICES ASSUME NEW k \in 1 .. Len(s) + 1 PROVE c[k].nth \in Nths(s) \cup {e.nth}
    BY <1>2 DEF Nths
  <2>1. CASE k = 1
    BY <1>2, <2>1
  <2>2. ASSUME NEW i \in 1 .. Len(s), k = i + 1 PROVE c[k].nth \in Nths(s)
    <3>1. c[k] = s[i]
      BY <1>2, <2>2
    <3> QED
      BY <1>1, <3>1 DEF Nths
  <2> QED
    BY <1>3, <2>1, <2>2
<1>6. Nths(s) \cup {e.nth} \subseteq Nths(c)
  <2>1. 1 \in 1 .. Len(s) + 1
    BY <1>1
  <2> QED
    BY <1>1, <1>2, <1>4, <2>1 DEF Nths
<1>7. ASSUME Once(s), e.nth \notin Nths(s) PROVE Once(c)
  <2>1. \A i \in 1 .. Len(s) : s[i].nth # e.nth
    BY <1>1, <1>7 DEF Nths
  <2> SUFFICES ASSUME NEW k \in 1 .. Len(s) + 1, NEW l \in 1 .. Len(s) + 1, c[k].nth = c[l].nth
               PROVE  k = l
    BY <1>2 DEF Once
  <2>2. \A i \in 1 .. Len(s) : c[i + 1].nth = s[i].nth /\ c[i + 1].nth # c[1].nth
    BY <1>2, <2>1
  <2>3. CASE k = 1 \/ l = 1
    BY <1>3, <2>2, <2>3
  <2>4. CASE k # 1 /\ l # 1
    <3>1. PICK i \in 1 .. Len(s), j \in 1 .. Len(s) : k = i + 1 /\ l = j + 1
      BY <1>3, <2>4
    <3>2. s[i].nth = s[j].nth
      BY <2>2, <3>1
    <3> QED
      BY <1>1, <1>7, <3>1, <3>2 DEF Once
  <2> QED
    BY <2>3, <2>4
<1> QED
  BY <1>2, <1>5, <1>6, <1>7 DEF c

LEMMA TailFacts ==
  ASSUME NEW s \in Seq(Packet), s # << >>
  PROVE  /\ Head(s) \in Packet /\ Head(s).nth \in Nths(s)
         /\ Tail(s) \in Seq(Packet)
         /\ Len(Tail(s)) =< Len(s)
         /\ Nths(Tail(s)) \subseteq Nths(s)
         /\ Once(s) => Once(Tail(s)) /\ Head(s).nth \notin Nths(Tail(s))
<1> DEFINE t == Tail(s)
<1>1. Len(s) \in Nat /\ DOMAIN s = 1 .. Len(s) /\ 1 \in 1 .. Len(s)
  OBVIOUS
<1>2. /\ Head(s) = s[1] /\ s[1] \in Packet
      /\ t \in Seq(Packet) /\ Len(t) = Len(s) - 1 /\ DOMAIN t = 1 .. Len(s) - 1
      /\ \A i \in 1 .. Len(s) - 1 : t[i] = s[i + 1]
  OBVIOUS
<1> HIDE DEF t
<1>3. \A i \in 1 .. Len(s) - 1 : i + 1 \in 1 .. Len(s) /\ i + 1 # 1 /\ i \in Nat
  BY <1>1
<1>4. Head(s).nth \in Nths(s) /\ Nths(t) \subseteq Nths(s)
  <2>1. Head(s).nth \in Nths(s)
    BY <1>1, <1>2 DEF Nths
  <2>2. ASSUME NEW i \in 1 .. Len(s) - 1 PROVE t[i].nth \in Nths(s)
    <3>1. t[i] = s[i + 1] /\ i + 1 \in DOMAIN s
      BY <1>1, <1>2, <1>3
    <3> QED
      BY <3>1 DEF Nths
  <2> QED
    BY <1>2, <2>1, <2>2 DEF Nths
<1>5. ASSUME Once(s) PROVE Once(t) /\ Head(s).nth \notin Nths(t)
  <2>1. \A i \in 1 .. Len(s) - 1 : s[i + 1].nth # s[1].nth
    BY <1>1, <1>3, <1>5 DEF Once
  <2>2. \A i, j \in 1 .. Len(s) - 1 : s[i + 1].nth = s[j + 1].nth => i + 1 = j + 1
    BY <1>1, <1>3, <1>5 DEF Once
  <2>3. Head(s).nth \notin Nths(t)
    BY <1>2, <2>1 DEF Nths
  <2>4. Once(t)
    BY <1>2, <1>3, <2>2 DEF Once
  <2> QED
    BY <2>3, <2>4
<1> QED
  BY <1>1, <1>2, <1>4, <1>5 DEF t

LEMMA ConcatFacts ==
  ASSUME NEW s \in Seq(Packet), NEW t \in Seq(Packet)
  PROVE  /\ s \o t \in Seq(Packet)
         /\ Nths(s \o t) = Nths(s) \cup Nths(t)
         /\ Once(s) /\ Once(t) /\ Nths(s) \cap Nths(t) = {} => Once(s \o t)
<1> DEFINE c == s \o t
<1>1. /\ Len(s) \in Nat /\ DOMAIN s = 1 .. Len(s)
      /\ Len(t) \in Nat /\ DOMAIN t = 1 .. Len(t)
  OBVIOUS
<1>2. /\ c \in Seq(Packet) /\ Len(c) = Len(s) + Len(t) /\ DOMAIN c = 1 .. Len(s) + Len(t)
      /\ \A i \in 1 .. Len(s) : c[i] = s[i]
      /\ \A i \in 1 .. Len(t) : c[Len(s) + i] = t[i]
  OBVIOUS
<1> HIDE DEF c
<1>3. \A k \in 1 .. Len(s) + Len(t) :
        k \in 1 .. Len(s) \/ \E i \in 1 .. Len(t) : k = Len(s) + i
  <2> TAKE k \in 1 .. Len(s) + Len(t)
  <2>1. k \in 1 .. Len(s) \/ (k - Len(s) \in 1 .. Len(t) /\ k = Len(s) + (k - Len(s)))
    BY <1>1
  <2> QED
    BY <2>1
<1>4. /\ \A i \in 1 .. Len(s) : i \in 1 .. Len(s) + Len(t)
      /\ \A i \in 1 .. Len(t) : Len(s) + i \in 1 .. Len(s) + Len(t)
  BY <1>1
<1>5. Nths(c) \subseteq Nths(s) \cup Nths(t)
  <2> SUFFICES ASSUME NEW k \in 1 .. Len(s) + Len(t)
               PROVE  c[k].nth \in Nths(s) \cup Nths(t)
    BY <1>2 DEF Nths
  <2>1. CASE k \in 1 .. Len(s)
    BY <1>1, <1>2, <2>1 DEF Nths
  <2>2. ASSUME NEW i \in 1 .. Len(t), k = Len(s) + i PROVE c[k].nth \in Nths(t)
    <3>1. c[k] = t[i]
      BY <1>2, <2>2
    <3> QED
      BY <1>1, <3>1 DEF Nths
  <2> QED
    BY <1>3, <2>1, <2>2
<1>6. Nths(s) \cup Nths(t) \subseteq Nths(c)
  <2>1. ASSUME NEW i \in 1 .. Len(s) PROVE s[i].nth \in Nths(c)
    <3>1. s[i] = c[i] /\ i \in DOMAIN c
      BY <1>2, <1>4
    <3> QED
      BY <3>1 DEF Nths
  <2>2. ASSUME NEW i \in 1 .. Len(t) PROVE t[i].nth \in Nths(c)
    <3>1. t[i] = c[Len(s) + i] /\ Len(s) + i \in DOMAIN c
      BY <1>2, <1>4
    <3> QED
      BY <3>1 DEF Nths
  <2> QED
    BY <1>1, <2>1, <2>2 DEF Nths
<1>7. ASSUME Once(s), Once(t), Nths(s) \cap Nths(t) = {} PROVE Once(c)
  <2>1. \A i \in 1 .. Len(s) : \A j \in 1 .. Len(t) : s[i].nth # t[j].nth
    BY <1>1, <1>7 DEF Nths
  <2> SUFFICES ASSUME NEW k \in 1 .. Len(s) + Len(t), NEW l \in 1 .. Len(s) + Len(t),
                      c[k].nth = c[l].nth
               PROVE  k = l
    BY <1>2 DEF Once
  <2>2. /\ \A i \in 1 .. Len(s) : c[i].nth = s[i].nth
        /\ \A i \in 1 .. Len(t) : c[Len(s) + i].nth = t[i].nth
    BY <1>2
  <2>3. ASSUME NEW i \in 1 .. Len(s), NEW j \in 1 .. Len(t)
        PROVE  c[i].nth # c[Len(s) + j].nth
    BY <2>1, <2>2
  <2>4. CASE k \in 1 .. Len(s) /\ l \in 1 .. Len(s)
    <3>1. s[k].nth = s[l].nth
      BY <2>2, <2>4
    <3> QED
      BY <1>1, <1>7, <2>4, <3>1 DEF Once
  <2>5. CASE k \notin 1 .. Len(s) /\ l \notin 1 .. Len(s)
    <3>1. PICK i \in 1 .. Len(t), j \in 1 .. Len(t) : k = Len(s) + i /\ l = Len(s) + j
      BY <1>3, <2>5
    <3>2. t[i].nth = t[j].nth
      BY <2>2, <3>1
    <3> QED
      BY <1>1, <1>7, <3>1, <3>2 DEF Once
  <2> QED
    BY <1>3, <2>3, <2>4, <2>5
<1> QED
  BY <1>2, <1>5, <1>6, <1>7 DEF c

LEMMA FirstFewFacts ==
  ASSUME NEW s \in Seq(Packet), NEW n \in Nat
  PROVE  /\ Table!FirstFew(s, n) \in Seq(Packet)
         /\ Len(Table!FirstFew(s, n)) =< n
         /\ Nths(Table!FirstFew(s, n)) \subseteq Nths(s)
         /\ Once(s) => Once(Table!FirstFew(s, n))
<1>1. Len(s) \in Nat /\ DOMAIN s = 1 .. Len(s)
  OBVIOUS
<1>2. CASE Len(s) =< n
  BY <1>1, <1>2 DEF Table!FirstFew
<1>3. CASE ~ (Len(s) =< n)
  <2> DEFINE f == [j \in 1 .. n |-> s[j]]
  <2>1. Table!FirstFew(s, n) = f
    BY <1>1, <1>3 DEF Table!FirstFew
  <2>2. \A j \in 1 .. n : s[j] \in Packet /\ j \in 1 .. Len(s)
    BY <1>1, <1>3
  <2>3. f \in Seq(Packet) /\ Len(f) = n /\ DOMAIN f = 1 .. n /\ \A j \in 1 .. n : f[j] = s[j]
    BY <2>2
  <2> HIDE DEF f
  <2>4. Nths(f) \subseteq Nths(s) /\ (Once(s) => Once(f))
    BY <1>1, <2>2, <2>3 DEF Nths, Once
  <2> QED
    BY <2>1, <2>3, <2>4
<1> QED
  BY <1>2, <1>3
-----------------------------------------------------------------------------
(***************************************************************************)
(* The loop of routing_upstream_downstream.                                *)
(***************************************************************************)
\* The loop of routing_upstream_downstream.
Loop == INSTANCE FoldFacts WITH op <- Route

Target == Node \cup {NoNode}

\* A next hop is a mote or none: proved below, of the tables.
HopsAreMotes == \A n, d \in Node : NextHop(n, d) # Table!Diverges => NextHop(n, d) \in Target

\* Each packet that is taken to r was in the list, with r for its next hop, and
\* none is taken twice.
Sorted(list, n, i) ==
  { to \in [Target -> Seq(Packet)] :
      \A r \in Target :
        /\ Once(to[r])
        /\ \A m \in DOMAIN to[r] :
             \E j \in 1 .. i : to[r][m] = list[j] /\ NextHop(n, list[j].dst) = r }

LEMMA RoutedValue ==
  ASSUME HopsAreMotes, NEW n \in Node, pkt_list[n] \in Seq(Packet), Once(pkt_list[n]),
         \A i \in DOMAIN pkt_list[n] : NextHop(n, pkt_list[n][i].dst) # Table!Diverges
  PROVE  Routed(n) \in Sorted(pkt_list[n], n, Len(pkt_list[n]))
<1> DEFINE list == pkt_list[n]
           hops == Hops(n)
           base == [r \in Target |-> << >>]
           T == [i \in 0 .. Len(list) |-> Sorted(list, n, i)]
<1>1. Len(list) \in Nat /\ DOMAIN list = 1 .. Len(list) /\ \A i \in 1 .. Len(list) : list[i] \in Packet
  OBVIOUS
<1>2. \A i \in 1 .. Len(list) : list[i].dst \in Node
  BY <1>1 DEF Packet
<1>3. \A i \in 1 .. Len(list) : NextHop(n, list[i].dst) \in Target
  BY <1>1, <1>2 DEF HopsAreMotes
<1>4. /\ hops \in Seq(Target \X Packet) /\ Len(hops) = Len(list)
      /\ \A i \in 1 .. Len(list) : hops[i] = <<NextHop(n, list[i].dst), list[i]>>
  BY <1>1, <1>3 DEF Hops
<1>5. Routed(n) = Loop!Fold(base, hops)
  BY DEF Routed, Target, FoldLeft, MapThenFoldSet, Max,
         Loop!Fold, Loop!FoldLeft, Loop!MapThenFoldSet, Loop!Max
<1>6. base \in T[0]
  <2>1. \A r \in Target : base[r] = << >>
    OBVIOUS
  <2>2. base \in [Target -> Seq(Packet)]
    BY EmptyFacts
  <2> HIDE DEF base
  <2>3. 0 \in 0 .. Len(list)
    BY <1>1
  <2>4. base \in Sorted(list, n, 0)
    BY <2>1, <2>2, EmptyFacts DEF Sorted
  <2> QED
    BY <2>3, <2>4
<1>7. ASSUME NEW i \in 1 .. Len(list), NEW to \in T[i - 1] PROVE Route(to, hops[i]) \in T[i]
  <2> DEFINE e == list[i]
             h == NextHop(n, e.dst)
             new == Route(to, hops[i])
  <2>1. /\ i - 1 \in 0 .. Len(list) /\ i \in 0 .. Len(list) /\ i \in 1 .. i
        /\ \A j \in 1 .. i - 1 : j \in 1 .. i /\ j # i /\ j \in 1 .. Len(list)
    BY <1>1
  <2>2. to \in Sorted(list, n, i - 1)
    BY <2>1
  <2>3. new = [to EXCEPT ![h] = Append(@, e)]
    <3>1. hops[i] = <<h, e>>
      BY <1>4
    <3> HIDE DEF hops, h, e
    <3>2. hops[i][1] = h /\ hops[i][2] = e
      BY <3>1
    <3> QED
      BY <3>2 DEF Route
  <2>4. h \in Target /\ e \in Packet
    BY <1>1, <1>3
  <2>5. to \in [Target -> Seq(Packet)]
    BY <2>2 DEF Sorted
  <2>6. /\ Append(to[h], e) \in Seq(Packet)
        /\ Len(Append(to[h], e)) = Len(to[h]) + 1 /\ Len(to[h]) \in Nat
        /\ DOMAIN to[h] = 1 .. Len(to[h])
        /\ DOMAIN Append(to[h], e) = 1 .. Len(to[h]) + 1
        /\ \A m \in 1 .. Len(to[h]) : Append(to[h], e)[m] = to[h][m]
        /\ Append(to[h], e)[Len(to[h]) + 1] = e
    BY <2>4, <2>5
  <2> HIDE DEF new, h
  <2>7. /\ new \in [Target -> Seq(Packet)]
        /\ new[h] = Append(to[h], e)
        /\ \A r \in Target : r # h => new[r] = to[r]
    BY <2>3, <2>4, <2>5, <2>6
  <2>8. ASSUME NEW r \in Target
        PROVE  /\ Once(new[r])
               /\ \A m \in DOMAIN new[r] :
                    \E j \in 1 .. i : new[r][m] = list[j] /\ NextHop(n, list[j].dst) = r
    <3>1. /\ Once(to[r])
          /\ \A m \in DOMAIN to[r] :
               \E j \in 1 .. i - 1 : to[r][m] = list[j] /\ NextHop(n, list[j].dst) = r
      BY <2>2 DEF Sorted
    <3>2. CASE r # h
      <4>1. new[r] = to[r]
        BY <2>7, <3>2
      <4> QED
        BY <2>1, <3>1, <4>1
    <3>3. CASE r = h
      <4>1. ASSUME NEW m \in 1 .. Len(to[h]) PROVE to[h][m].nth # e.nth
        <5>1. PICK j \in 1 .. i - 1 : to[h][m] = list[j]
          BY <2>6, <3>1, <3>3
        <5> QED
          BY <1>1, <2>1, <5>1 DEF Once
      <4>2. \A m \in 1 .. Len(to[h]) + 1 : m \in 1 .. Len(to[h]) \/ m = Len(to[h]) + 1
        BY <2>6
      <4>3. Once(new[h])
        <5>1. \A m, l \in 1 .. Len(to[h]) : to[h][m].nth = to[h][l].nth => m = l
          BY <2>6, <3>1, <3>3 DEF Once
        <5> QED
          BY <2>6, <2>7, <4>1, <4>2, <5>1 DEF Once
      <4>4. ASSUME NEW m \in DOMAIN new[h]
            PROVE  \E j \in 1 .. i : new[h][m] = list[j] /\ NextHop(n, list[j].dst) = h
        <5>1. CASE m = Len(to[h]) + 1
          <6>1. new[h][m] = e /\ NextHop(n, e.dst) = h
            BY <2>6, <2>7, <5>1 DEF h
          <6> QED
            BY <2>1, <6>1
        <5>2. CASE m \in 1 .. Len(to[h])
          <6>1. m \in DOMAIN to[r] /\ new[h][m] = to[r][m]
            BY <2>6, <2>7, <3>3, <5>2
          <6>2. PICK j \in 1 .. i - 1 : to[r][m] = list[j] /\ NextHop(n, list[j].dst) = r
            BY <3>1, <6>1
          <6>3. j \in 1 .. i
            BY <2>1
          <6> QED
            BY <3>3, <6>1, <6>2, <6>3
        <5> QED
          BY <2>6, <2>7, <4>2, <5>1, <5>2
      <4> QED
        BY <3>3, <4>3, <4>4
    <3> QED
      BY <3>2, <3>3
  <2>9. new \in Sorted(list, n, i)
    BY <2>7, <2>8 DEF Sorted
  <2> QED
    BY <2>1, <2>9 DEF new
<1> HIDE DEF base, hops
<1>8. Loop!Fold(base, hops) \in T[Len(hops)]
  <2> HIDE DEF T
  <2> QED
    BY <1>4, <1>6, <1>7, Loop!FoldRule
<1> QED
  BY <1>1, <1>4, <1>5, <1>8

\* The packets taken to different neighbours are different packets.
LEMMA SortedFacts ==
  ASSUME NEW list \in Seq(Packet), Once(list), NEW n, NEW to \in Sorted(list, n, Len(list))
  PROVE  /\ \A r \in Target : /\ to[r] \in Seq(Packet) /\ Once(to[r])
                              /\ Nths(to[r]) \subseteq Nths(list)
         /\ \A r, q \in Target : r # q => Nths(to[r]) \cap Nths(to[q]) = {}
<1>1. /\ to \in [Target -> Seq(Packet)]
      /\ \A r \in Target :
           /\ Once(to[r])
           /\ \A m \in DOMAIN to[r] :
                \E j \in DOMAIN list : to[r][m] = list[j] /\ NextHop(n, list[j].dst) = r
  BY DEF Sorted
<1>2. ASSUME NEW r \in Target, NEW k \in Nths(to[r])
      PROVE  \E j \in DOMAIN list : k = list[j].nth /\ NextHop(n, list[j].dst) = r
  <2>1. PICK m \in DOMAIN to[r] : k = to[r][m].nth
    BY DEF Nths
  <2> QED
    BY <1>1, <2>1
<1>3. \A r \in Target : Nths(to[r]) \subseteq Nths(list)
  BY <1>2 DEF Nths
<1>4. ASSUME NEW r \in Target, NEW q \in Target, NEW k \in Nths(to[r]), k \in Nths(to[q])
      PROVE  r = q
  <2>1. PICK j \in DOMAIN list : k = list[j].nth /\ NextHop(n, list[j].dst) = r
    BY <1>2
  <2>2. PICK i \in DOMAIN list : k = list[i].nth /\ NextHop(n, list[i].dst) = q
    BY <1>2, <1>4
  <2>3. i = j
    BY <2>1, <2>2 DEF Once
  <2> QED
    BY <2>1, <2>2, <2>3
<1> QED
  BY <1>1, <1>3, <1>4
-----------------------------------------------------------------------------
(***************************************************************************)
(* Lists, links and counters stay within their bounds.                     *)
(***************************************************************************)
Lists == pkt_list \in [Node -> Seq(Packet)] /\ \A n \in Node : Len(pkt_list[n]) =< PoolSize

Queues == \A n \in Node : posted[n] + routes[n] =< QueueSize

Links ==
  /\ data \in [Node -> [Node -> Seq(Packet)]]
  /\ \A s, r \in Node : Len(data[s][r]) =< MaxInFlight

Counters ==
  /\ seq_num \in Nat /\ generated \in 0 .. MaxPackets /\ seq_num =< generated
  /\ pkt_stats \in [seq_max : 0 .. MaxPackets, received : 0 .. CounterSize - 1]

Shapes == Lists /\ Queues /\ Links /\ Counters /\ delivered \in Seq(Packet)

LEMMA DataConstants ==
  /\ CounterSize \in Nat /\ CounterSize > 0 /\ PoolSize \in Nat /\ QueueSize \in Nat
  /\ MaxInFlight \in Nat /\ TableQuota \in Nat /\ MaxPackets \in Nat
  /\ Origen \in Node /\ Destino \in Node /\ Origen # Root
BY DataAssumption

LEMMA InitShapes == Init => Shapes
<1> SUFFICES ASSUME Init PROVE Shapes
  OBVIOUS
<1> USE DataConstants
<1>1. posted = [n \in Node |-> 0]
  BY DEF Init, Table!Init
<1>2. Lists
  BY EmptyFacts DEF Init, Lists
<1>3. Queues
  BY <1>1 DEF Init, Queues
<1>4. Links
  <2>1. \A s, r \in Node : data[s][r] = << >>
    BY DEF Init
  <2>2. data \in [Node -> [Node -> Seq(Packet)]]
    BY EmptyFacts DEF Init
  <2> QED
    BY <2>1, <2>2, EmptyFacts DEF Links
<1>5. Counters
  BY DEF Init, Counters, NoStats
<1> QED
  BY <1>2, <1>3, <1>4, <1>5, EmptyFacts DEF Init, Shapes

\* A list is emptied.
LEMMA EmptiedList ==
  ASSUME Lists, NEW n \in Node, pkt_list' = [pkt_list EXCEPT ![n] = << >>]
  PROVE  Lists'
<1>1. pkt_list' \in [Node -> Seq(Packet)]
  BY EmptyFacts DEF Lists
<1>2. ASSUME NEW m \in Node PROVE Len(pkt_list'[m]) =< PoolSize
  <2>1. CASE m = n
    <3>1. pkt_list'[m] = << >>
      BY <2>1 DEF Lists
    <3>2. Len(pkt_list'[m]) = 0
      BY <3>1, EmptyFacts
    <3> QED
      BY <3>2, DataConstants
  <2>2. CASE m # n
    BY <2>2 DEF Lists
  <2> QED
    BY <2>1, <2>2
<1> QED
  BY <1>1, <1>2 DEF Lists

\* A packet that is filed: the pool bounds the list, the queue its events.
LEMMA EnqueueShapes ==
  ASSUME IInv, Lists, Queues, NEW n \in Node, NEW pkt \in Packet,
         Enqueue(n, pkt), posted' = posted
  PROVE  /\ Lists' /\ Queues'
         /\ \A m \in Node : m # n => pkt_list'[m] = pkt_list[m]
         /\ pkt_list'[n] = pkt_list[n] \/ pkt_list'[n] = Cons(pkt, pkt_list[n])
<1>1. CASE pkt_mem[n] < PoolSize
  <2> DEFINE list == Cons(pkt, pkt_list[n])
  <2>1. /\ pkt_list' = [pkt_list EXCEPT ![n] = list]
        /\ routes' = [routes EXCEPT ![n] = IF QueueFull(n) THEN @ ELSE @ + 1]
    BY <1>1 DEF Enqueue
  <2>2. pkt_list[n] \in Seq(Packet) /\ Len(pkt_list[n]) < PoolSize /\ Len(pkt_list[n]) \in Nat
    BY <1>1 DEF Lists, IInv
  <2>3. list \in Seq(Packet) /\ Len(list) =< PoolSize
    <3>1. list \in Seq(Packet) /\ Len(list) = Len(pkt_list[n]) + 1
      BY <2>2, ConsFacts
    <3> QED
      BY <2>2, <3>1, DataConstants
  <2> HIDE DEF list
  <2>4. /\ pkt_list'[n] = list
        /\ \A m \in Node : m # n => pkt_list'[m] = pkt_list[m]
    BY <2>1 DEF Lists
  <2>5. Lists'
    BY <2>1, <2>3, <2>4 DEF Lists
  <2>6. Queues'
    <3> SUFFICES ASSUME NEW m \in Node PROVE posted[m] + routes'[m] =< QueueSize
      BY DEF Queues
    <3>1. /\ routes \in [Node -> Nat] /\ posted[m] \in Nat /\ routes[m] \in Nat
          /\ posted[m] + routes[m] =< QueueSize
      <4>1. posted \in [Node -> 0 .. TableQuota]
        BY DEF IInv
      <4> QED
        BY <4>1, DataConstants DEF IInv, Queues
    <3>2. CASE m = n /\ ~ QueueFull(n)
      <4>1. ~ (posted[m] + routes[m] >= QueueSize) /\ routes'[m] = routes[m] + 1
        BY <2>1, <3>1, <3>2 DEF QueueFull
      <4> QED
        BY <3>1, <4>1, DataConstants
    <3>3. CASE ~ (m = n /\ ~ QueueFull(n))
      BY <2>1, <3>1, <3>3
    <3> QED
      BY <3>2, <3>3
  <2> QED
    BY <2>4, <2>5, <2>6 DEF list
<1>2. CASE ~ (pkt_mem[n] < PoolSize)
  <2>1. pkt_list' = pkt_list /\ routes' = routes
    BY <1>2 DEF Enqueue
  <2> QED
    BY <2>1 DEF Lists, Queues
<1> QED
  BY <1>1, <1>2

\* The first packet of a link leaves it.
LEMMA TakenOff ==
  ASSUME Links, NEW s \in Node, NEW r \in Node, data[s][r] # << >>,
         data' = [data EXCEPT ![s][r] = Tail(@)]
  PROVE  /\ Links'
         /\ data'[s][r] = Tail(data[s][r])
         /\ \A t, q \in Node : ~ (t = s /\ q = r) => data'[t][q] = data[t][q]
         /\ Head(data[s][r]) \in Packet
<1>1. data[s][r] \in Seq(Packet) /\ Len(data[s][r]) =< MaxInFlight
  BY DEF Links
<1>2. /\ Tail(data[s][r]) \in Seq(Packet) /\ Len(Tail(data[s][r])) =< Len(data[s][r])
      /\ Head(data[s][r]) \in Packet /\ Len(Tail(data[s][r])) \in Nat /\ Len(data[s][r]) \in Nat
  BY <1>1, TailFacts
<1>3. /\ data'[s][r] = Tail(data[s][r])
      /\ \A t, q \in Node : ~ (t = s /\ q = r) => data'[t][q] = data[t][q]
      /\ data' \in [Node -> [Node -> Seq(Packet)]]
  BY <1>2 DEF Links
<1>4. Links'
  <2>1. Len(Tail(data[s][r])) =< MaxInFlight
    BY <1>1, <1>2, DataConstants
  <2> SUFFICES ASSUME NEW t \in Node, NEW q \in Node PROVE Len(data'[t][q]) =< MaxInFlight
    BY <1>3 DEF Links
  <2> QED
    BY <1>3, <2>1 DEF Links
<1> QED
  BY <1>2, <1>3, <1>4
-----------------------------------------------------------------------------
(***************************************************************************)
(* A packet is in one place.  The places of packets are queues with two    *)
(* names: a link has the names of its ends, the list of a mote lacks the   *)
(* second name, and the delivered packets have neither.                    *)
(***************************************************************************)
Queue == Target \X Target

Holds(q) ==
  IF q[1] # NoNode
  THEN IF q[2] # NoNode THEN data[q[1]][q[2]] ELSE pkt_list[q[1]]
  ELSE IF q[2] # NoNode THEN << >> ELSE delivered

Unique ==
  /\ \A q \in Queue : Once(Holds(q)) /\ Nths(Holds(q)) \subseteq 1 .. generated
  /\ \A p, q \in Queue : p # q => Nths(Holds(p)) \cap Nths(Holds(q)) = {}

LEMMA HoldsValue ==
  /\ NoNode \notin Node
  /\ \A q \in Queue : \/ q = <<NoNode, NoNode>>
                      \/ \E n \in Node : q = <<n, NoNode>> \/ q = <<NoNode, n>>
                      \/ \E s, r \in Node : q = <<s, r>>
  /\ Holds(<<NoNode, NoNode>>) = delivered
  /\ \A n \in Node : Holds(<<n, NoNode>>) = pkt_list[n] /\ Holds(<<NoNode, n>>) = << >>
  /\ \A s, r \in Node : Holds(<<s, r>>) = data[s][r]
<1>1. NoNode \notin Node
  BY TableAssumption DEF Table!RoutingAssumption
<1>2. ASSUME NEW q \in Queue
      PROVE  \/ q = <<NoNode, NoNode>>
             \/ \E n \in Node : q = <<n, NoNode>> \/ q = <<NoNode, n>>
             \/ \E s, r \in Node : q = <<s, r>>
  BY DEF Queue, Target
<1>3. Holds(<<NoNode, NoNode>>) = delivered
  BY DEF Holds
<1>4. ASSUME NEW n \in Node
      PROVE  Holds(<<n, NoNode>>) = pkt_list[n] /\ Holds(<<NoNode, n>>) = << >>
  BY <1>1 DEF Holds
<1>5. ASSUME NEW s \in Node, NEW r \in Node PROVE Holds(<<s, r>>) = data[s][r]
  BY <1>1 DEF Holds
<1> QED
  BY <1>1, <1>2, <1>3, <1>4, <1>5

LEMMA HoldsNext ==
  /\ Holds(<<NoNode, NoNode>>)' = delivered'
  /\ \A n \in Node : Holds(<<n, NoNode>>)' = pkt_list'[n] /\ Holds(<<NoNode, n>>)' = << >>
  /\ \A s, r \in Node : Holds(<<s, r>>)' = data'[s][r]
<1>1. NoNode \notin Node
  BY HoldsValue
<1>2. Holds(<<NoNode, NoNode>>)' = delivered'
  BY DEF Holds
<1>3. ASSUME NEW n \in Node
      PROVE  Holds(<<n, NoNode>>)' = pkt_list'[n] /\ Holds(<<NoNode, n>>)' = << >>
  BY <1>1 DEF Holds
<1>4. ASSUME NEW s \in Node, NEW r \in Node PROVE Holds(<<s, r>>)' = data'[s][r]
  BY <1>1 DEF Holds
<1> QED
  BY <1>2, <1>3, <1>4

LEMMA Names ==
  /\ <<NoNode, NoNode>> \in Queue
  /\ \A n \in Node : <<n, NoNode>> \in Queue /\ <<NoNode, n>> \in Queue
  /\ \A s, r \in Node : <<s, r>> \in Queue
BY DEF Queue, Target

LEMMA SameHolds ==
  ASSUME NEW q \in Queue,
         q = <<NoNode, NoNode>> => delivered' = delivered,
         \A n \in Node : q = <<n, NoNode>> => pkt_list'[n] = pkt_list[n],
         \A s, r \in Node : q = <<s, r>> => data'[s][r] = data[s][r]
  PROVE  Holds(q)' = Holds(q)
<1>1. CASE q = <<NoNode, NoNode>>
  BY <1>1, HoldsValue, HoldsNext
<1>2. ASSUME NEW n \in Node, q = <<n, NoNode>> \/ q = <<NoNode, n>> PROVE Holds(q)' = Holds(q)
  <2>1. CASE q = <<n, NoNode>>
    <3>1. Holds(q) = pkt_list[n] /\ Holds(q)' = pkt_list'[n]
      BY <2>1, HoldsValue, HoldsNext
    <3> QED
      BY <2>1, <3>1
  <2>2. CASE q = <<NoNode, n>>
    <3>1. Holds(q) = << >> /\ Holds(q)' = << >>
      BY <2>2, HoldsValue, HoldsNext
    <3> QED
      BY <3>1
  <2> QED
    BY <1>2, <2>1, <2>2
<1>3. ASSUME NEW s \in Node, NEW r \in Node, q = <<s, r>> PROVE Holds(q)' = Holds(q)
  BY <1>3, HoldsValue, HoldsNext
<1> QED
  BY <1>1, <1>2, <1>3, HoldsValue

\* Packets stay where they are, are lost, or move from A: D[p] moves to p.
Move(A, D) ==
  /\ \A p \in Queue :
       /\ Once(Holds(p)')
       /\ Nths(Holds(p)') \subseteq Nths(Holds(p)) \cup D[p]
       /\ D[p] \subseteq Nths(Holds(A))
       /\ Nths(Holds(A)') \cap D[p] = {}
  /\ \A p, q \in Queue : p # q => D[p] \cap D[q] = {}
  /\ Nths(Holds(A)') \subseteq Nths(Holds(A))

LEMMA MoveKeeps ==
  ASSUME Unique, generated' = generated, NEW A \in Queue, NEW D, Move(A, D)
  PROVE  Unique'
<1> USE DEF Move
<1>1. ASSUME NEW q \in Queue PROVE Once(Holds(q)') /\ Nths(Holds(q)') \subseteq 1 .. generated'
  BY DEF Unique
<1>2. ASSUME NEW p \in Queue, NEW q \in Queue, p # q
      PROVE  Nths(Holds(p)') \cap Nths(Holds(q)') = {}
  <2>1. ASSUME NEW r \in Queue, r # A PROVE Nths(Holds(r)) \cap Nths(Holds(A)) = {}
    BY <2>1 DEF Unique
  <2>2. Nths(Holds(p)) \cap Nths(Holds(q)) = {} /\ D[p] \cap D[q] = {}
    BY <1>2 DEF Unique
  <2>3. CASE p = A
    BY <1>2, <2>1, <2>3
  <2>4. CASE q = A
    BY <1>2, <2>1, <2>4
  <2>5. CASE p # A /\ q # A
    BY <1>2, <2>1, <2>2, <2>5
  <2> QED
    BY <2>3, <2>4, <2>5
<1> QED
  BY <1>1, <1>2 DEF Unique, Once, Nths

\* Packets stay where they are or are lost.
LEMMA LossKeeps ==
  ASSUME Unique, generated' = generated,
         \A p \in Queue : Once(Holds(p)') /\ Nths(Holds(p)') \subseteq Nths(Holds(p))
  PROVE  Unique'
<1>1. ASSUME NEW q \in Queue PROVE Once(Holds(q)') /\ Nths(Holds(q)') \subseteq 1 .. generated'
  BY DEF Unique
<1>2. ASSUME NEW p \in Queue, NEW q \in Queue, p # q
      PROVE  Nths(Holds(p)') \cap Nths(Holds(q)') = {}
  BY <1>2 DEF Unique
<1> QED
  BY <1>1, <1>2 DEF Unique, Once, Nths
-----------------------------------------------------------------------------
(***************************************************************************)
(* The actions keep the bounds, and one place for each packet.             *)
(***************************************************************************)
Whole == Shapes /\ Unique

LEMMA InitWhole == Init => Whole
<1> SUFFICES ASSUME Init PROVE Whole
  OBVIOUS
<1>1. \A q \in Queue : Holds(q) = << >>
  <2>1. /\ delivered = << >> /\ \A n \in Node : pkt_list[n] = << >>
        /\ \A s, r \in Node : data[s][r] = << >>
    BY DEF Init
  <2> QED
    <3> TAKE q \in Queue
    <3>1. CASE q = <<NoNode, NoNode>>
      BY <2>1, <3>1, HoldsValue
    <3>2. ASSUME NEW n \in Node, q = <<n, NoNode>> \/ q = <<NoNode, n>> PROVE Holds(q) = << >>
      BY <2>1, <3>2, HoldsValue
    <3>3. ASSUME NEW s \in Node, NEW r \in Node, q = <<s, r>> PROVE Holds(q) = << >>
      BY <2>1, <3>3, HoldsValue
    <3> QED
      BY <3>1, <3>2, <3>3, HoldsValue
<1>2. Unique
  BY <1>1, EmptyFacts DEF Unique
<1> QED
  BY <1>2, InitShapes DEF Whole

\* A new packet has a number that no other has.
LEMMA GenerateKeeps ==
  ASSUME IInv, Whole, generate_pkt_dst
  PROVE  Whole'
<1> DEFINE k == generated + 1
           pkt == [dst |-> Destino, seq |-> seq_num + 1, nth |-> k]
           B == <<Origen, NoNode>>
<1>1. /\ generated < MaxPackets /\ generated' = k /\ seq_num' = seq_num + 1
      /\ Enqueue(Origen, pkt) /\ posted' = posted
      /\ data' = data /\ pkt_stats' = pkt_stats /\ delivered' = delivered
  BY DEF generate_pkt_dst, tableVars
<1>2. generated \in 0 .. MaxPackets /\ seq_num \in Nat /\ seq_num =< generated /\ MaxPackets \in Nat
  BY DataConstants DEF Whole, Shapes, Counters
<1>3. k \in 1 .. MaxPackets /\ seq_num + 1 \in 1 .. MaxPackets /\ seq_num + 1 =< k
      /\ k \notin 1 .. generated /\ (1 .. generated) \cup {k} \subseteq 1 .. k
  BY <1>1, <1>2
<1>4. pkt \in Packet /\ pkt.nth = k
  BY <1>3, DataConstants DEF Packet
<1> HIDE DEF pkt
<1>5. /\ Lists' /\ Queues'
      /\ \A m \in Node : m # Origen => pkt_list'[m] = pkt_list[m]
      /\ pkt_list'[Origen] = pkt_list[Origen] \/ pkt_list'[Origen] = Cons(pkt, pkt_list[Origen])
  BY <1>1, <1>4, DataConstants, EnqueueShapes DEF Whole, Shapes
<1>6. Counters'
  <2>1. seq_num' \in Nat /\ seq_num' =< generated' /\ generated' \in 0 .. MaxPackets
    BY <1>1, <1>2, <1>3
  <2> QED
    BY <1>1, <2>1 DEF Whole, Shapes, Counters
<1>7. Shapes'
  BY <1>1, <1>5, <1>6 DEF Whole, Shapes, Links
<1>8. B \in Queue
  BY Names, DataConstants
<1>9. ASSUME NEW q \in Queue, q # B PROVE Holds(q)' = Holds(q)
  BY <1>1, <1>5, <1>9, SameHolds
<1>10. ASSUME NEW q \in Queue PROVE Once(Holds(q)) /\ Nths(Holds(q)) \subseteq 1 .. generated
  BY DEF Whole, Unique
<1>11. Once(Holds(B)') /\ Nths(Holds(B)') \subseteq Nths(Holds(B)) \cup {k}
  <2>1. Holds(B) = pkt_list[Origen] /\ Holds(B)' = pkt_list'[Origen]
    BY DataConstants, HoldsValue, HoldsNext
  <2>2. Once(pkt_list[Origen]) /\ k \notin Nths(pkt_list[Origen])
    BY <1>3, <1>8, <1>10, <2>1
  <2>3. pkt_list[Origen] \in Seq(Packet)
    BY DataConstants DEF Whole, Shapes, Lists
  <2> HIDE DEF k, B
  <2>4. /\ Nths(Cons(pkt, pkt_list[Origen])) = Nths(pkt_list[Origen]) \cup {k}
        /\ Once(Cons(pkt, pkt_list[Origen]))
    BY <1>4, <2>2, <2>3, ConsFacts
  <2> QED
    BY <1>5, <2>1, <2>2, <2>4
<1> HIDE DEF B, k
<1>12. ASSUME NEW q \in Queue PROVE Once(Holds(q)') /\ Nths(Holds(q)') \subseteq 1 .. generated'
  <2>1. CASE q = B
    BY <1>1, <1>3, <1>10, <1>11, <2>1
  <2>2. CASE q # B
    <3>1. Holds(q)' = Holds(q) /\ Nths(Holds(q)) \subseteq 1 .. k
      BY <1>3, <1>9, <1>10, <2>2
    <3> QED
      BY <1>1, <1>10, <3>1
  <2> QED
    BY <2>1, <2>2
<1>13. ASSUME NEW p \in Queue, NEW q \in Queue, p # q
       PROVE  Nths(Holds(p)') \cap Nths(Holds(q)') = {}
  <2>1. Nths(Holds(p)) \cap Nths(Holds(q)) = {}
    BY <1>13 DEF Whole, Unique
  <2>2. k \notin Nths(Holds(p)) /\ k \notin Nths(Holds(q))
    BY <1>3, <1>10
  <2>3. CASE p = B
    <3>1. Holds(q)' = Holds(q)
      BY <1>9, <1>13, <2>3
    <3> QED
      BY <1>11, <2>1, <2>2, <2>3, <3>1
  <2>4. CASE q = B
    <3>1. Holds(p)' = Holds(p)
      BY <1>9, <1>13, <2>4
    <3> QED
      BY <1>11, <2>1, <2>2, <2>4, <3>1
  <2>5. CASE p # B /\ q # B
    BY <1>9, <2>1, <2>5
  <2> QED
    BY <2>3, <2>4, <2>5
<1>14. Unique'
  BY <1>12, <1>13 DEF Unique, Once, Nths
<1> QED
  BY <1>7, <1>14 DEF Whole

\* A packet is taken off a link and filed, or found no block.
LEMMA ReceiveKeeps ==
  ASSUME IInv, Whole, NEW n \in Node, NEW s \in Node, recv_uc_data(n, s)
  PROVE  Whole'
<1> DEFINE pkt == Head(data[s][n])
           A == <<s, n>>
           B == <<n, NoNode>>
           D == [q \in Queue |-> IF q = B THEN {pkt.nth} ELSE {}]
<1>1. /\ data[s][n] # << >>
      /\ data' = [data EXCEPT ![s][n] = Tail(@)]
      /\ pkt_stats' = IF n = Root THEN Counted(pkt.seq) ELSE pkt_stats
      /\ Enqueue(n, pkt) /\ posted' = posted
      /\ seq_num' = seq_num /\ generated' = generated /\ delivered' = delivered
  BY DEF recv_uc_data, tableVars
<1>2. /\ Links'
      /\ data'[s][n] = Tail(data[s][n])
      /\ \A t, q \in Node : ~ (t = s /\ q = n) => data'[t][q] = data[t][q]
      /\ pkt \in Packet
  BY <1>1, TakenOff DEF Whole, Shapes
<1>3. /\ Lists' /\ Queues'
      /\ \A m \in Node : m # n => pkt_list'[m] = pkt_list[m]
      /\ pkt_list'[n] = pkt_list[n] \/ pkt_list'[n] = Cons(pkt, pkt_list[n])
  BY <1>1, <1>2, EnqueueShapes DEF Whole, Shapes
<1>4. Counters'
  <2>1. pkt.seq \in 1 .. MaxPackets
    BY <1>2 DEF Packet
  <2>2. pkt_stats.seq_max \in 0 .. MaxPackets /\ pkt_stats.received \in 0 .. CounterSize - 1
    BY DEF Whole, Shapes, Counters
  <2>3. (pkt_stats.received + 1) % CounterSize \in 0 .. CounterSize - 1
    BY <2>2, DataConstants
  <2>4. Counted(pkt.seq) \in [seq_max : 0 .. MaxPackets, received : 0 .. CounterSize - 1]
    <3>1. (IF pkt.seq > pkt_stats.seq_max THEN pkt.seq ELSE pkt_stats.seq_max) \in 0 .. MaxPackets
      BY <2>1, <2>2, DataConstants
    <3> QED
      BY <2>3, <3>1 DEF Counted
  <2> QED
    BY <1>1, <2>4 DEF Whole, Shapes, Counters
<1>5. Shapes'
  BY <1>1, <1>2, <1>3, <1>4 DEF Whole, Shapes
<1>6. /\ A \in Queue /\ B \in Queue /\ A # B
      /\ Holds(A) = data[s][n] /\ Holds(A)' = Tail(data[s][n])
      /\ Holds(B) = pkt_list[n] /\ Holds(B)' = pkt_list'[n]
  BY <1>2, Names, HoldsValue, HoldsNext
<1>7. ASSUME NEW q \in Queue, q # A, q # B PROVE Holds(q)' = Holds(q)
  BY <1>1, <1>2, <1>3, <1>7, SameHolds
<1>8. /\ \A q \in Queue : Once(Holds(q))
      /\ Nths(Holds(A)) \cap Nths(Holds(B)) = {}
  BY <1>6 DEF Whole, Unique
<1>9. data[s][n] \in Seq(Packet) /\ pkt_list[n] \in Seq(Packet)
  BY DEF Whole, Shapes, Links, Lists
<1> HIDE DEF A, B
<1>10. /\ pkt.nth \in Nths(Holds(A))
       /\ Nths(Holds(A)') \subseteq Nths(Holds(A))
       /\ pkt.nth \notin Nths(Holds(A)')
       /\ Once(Holds(A)')
  BY <1>1, <1>6, <1>8, <1>9, TailFacts
<1> HIDE DEF pkt
<1>11. Once(Holds(B)') /\ Nths(Holds(B)') \subseteq Nths(Holds(B)) \cup {pkt.nth}
  <2>1. Once(pkt_list[n]) /\ pkt.nth \notin Nths(pkt_list[n])
    BY <1>6, <1>8, <1>10
  <2>2. /\ Nths(Cons(pkt, pkt_list[n])) = Nths(pkt_list[n]) \cup {pkt.nth}
        /\ Once(Cons(pkt, pkt_list[n]))
    BY <1>2, <1>9, <2>1, ConsFacts
  <2> QED
    BY <1>3, <1>6, <2>1, <2>2
<1>12. ASSUME NEW q \in Queue
       PROVE  /\ Once(Holds(q)')
              /\ Nths(Holds(q)') \subseteq Nths(Holds(q)) \cup D[q]
              /\ D[q] \subseteq Nths(Holds(A))
              /\ Nths(Holds(A)') \cap D[q] = {}
  <2>1. CASE q = B
    BY <1>10, <1>11, <2>1
  <2>2. CASE q = A
    BY <1>6, <1>10, <2>2
  <2>3. CASE q # A /\ q # B
    <3>1. Holds(q)' = Holds(q) /\ D[q] = {}
      BY <1>7, <2>3
    <3> QED
      BY <1>8, <3>1
  <2> QED
    BY <2>1, <2>2, <2>3
<1>13. \A p, q \in Queue : p # q => D[p] \cap D[q] = {}
  OBVIOUS
<1> HIDE DEF D
<1>14. Unique'
  <2>1. Move(A, D)
    BY <1>10, <1>12, <1>13 DEF Move
  <2> QED
    BY <1>1, <1>6, <2>1, MoveKeeps DEF Whole
<1> QED
  BY <1>5, <1>14 DEF Whole

LEMMA LoseKeeps ==
  ASSUME Whole, NEW s \in Node, NEW r \in Node, LosePacket(s, r)
  PROVE  Whole'
<1>1. /\ data[s][r] # << >>
      /\ data' = [data EXCEPT ![s][r] = Tail(@)]
      /\ UNCHANGED <<posted, routes, pkt_list, pkt_stats, seq_num, generated, delivered>>
  BY DEF LosePacket, tableVars
<1>2. /\ Links'
      /\ data'[s][r] = Tail(data[s][r])
      /\ \A t, q \in Node : ~ (t = s /\ q = r) => data'[t][q] = data[t][q]
  BY <1>1, TakenOff DEF Whole, Shapes
<1>3. Shapes'
  BY <1>1, <1>2 DEF Whole, Shapes, Lists, Queues, Counters
<1>4. ASSUME NEW q \in Queue PROVE Once(Holds(q)') /\ Nths(Holds(q)') \subseteq Nths(Holds(q))
  <2>1. Once(Holds(q))
    BY DEF Whole, Unique
  <2>2. CASE q = <<s, r>>
    <3>1. Holds(q) = data[s][r] /\ Holds(q)' = Tail(data[s][r])
      BY <1>2, <2>2, HoldsValue, HoldsNext
    <3>2. data[s][r] \in Seq(Packet)
      BY DEF Whole, Shapes, Links
    <3> QED
      BY <1>1, <2>1, <3>1, <3>2, TailFacts
  <2>3. CASE q # <<s, r>>
    <3>1. Holds(q)' = Holds(q)
      BY <1>1, <1>2, <2>3, SameHolds
    <3> QED
      BY <2>1, <3>1
  <2> QED
    BY <2>2, <2>3
<1>5. Unique'
  BY <1>1, <1>4, LossKeeps DEF Whole
<1> QED
  BY <1>3, <1>5 DEF Whole

\* The loop takes each packet of the list to one place.
LEMMA DrainKeeps ==
  ASSUME IInv, HopsAreMotes, Whole, NEW n \in Node, routing_upstream_downstream(n)
  PROVE  Whole'
<1> DEFINE list == pkt_list[n]
           to == Routed(n)
           A == <<n, NoNode>>
           Z == <<NoNode, NoNode>>
           D == [q \in Queue |-> IF q = Z THEN Nths(to[n])
                                 ELSE IF q[1] = n /\ q[2] \in Node \ {n} THEN Nths(to[q[2]])
                                 ELSE {}]
           queue(r) == data[n][r] \o to[r]
           link(r) == IF r = n THEN << >> ELSE Table!FirstFew(queue(r), MaxInFlight)
<1>1. /\ \A i \in DOMAIN list : NextHop(n, list[i].dst) # Table!Diverges
      /\ routes' = [routes EXCEPT ![n] = @ - 1]
      /\ pkt_list' = [pkt_list EXCEPT ![n] = << >>]
      /\ delivered' = delivered \o to[n]
      /\ data' = [data EXCEPT ![n] = [r \in Node |-> link(r)]]
      /\ posted' = posted /\ seq_num' = seq_num /\ pkt_stats' = pkt_stats
      /\ generated' = generated /\ routes[n] > 0
  BY DEF routing_upstream_downstream, Drain, tableVars
<1>2. /\ list \in Seq(Packet) /\ delivered \in Seq(Packet)
      /\ \A r \in Node : data[n][r] \in Seq(Packet)
      /\ pkt_list \in [Node -> Seq(Packet)] /\ data \in [Node -> [Node -> Seq(Packet)]]
  BY DEF Whole, Shapes, Links, Lists
<1>3. /\ A \in Queue /\ Z \in Queue /\ \A r \in Node : <<n, r>> \in Queue
      /\ Holds(A) = list /\ Holds(Z) = delivered /\ \A r \in Node : Holds(<<n, r>>) = data[n][r]
  BY Names, HoldsValue
<1>4. A # Z /\ \A r \in Node : A # <<n, r>>
  BY HoldsValue
<1>5. /\ \A q \in Queue : Once(Holds(q))
      /\ \A q \in Queue : q # A => Nths(Holds(q)) \cap Nths(list) = {}
  BY <1>3 DEF Whole, Unique
<1>6. to \in Sorted(list, n, Len(list))
  <2>1. Once(list)
    BY <1>3, <1>5
  <2> QED
    BY <1>1, <1>2, <2>1, RoutedValue
<1> HIDE DEF list, to, A, Z
<1>7. /\ \A r \in Target : to[r] \in Seq(Packet) /\ Once(to[r]) /\ Nths(to[r]) \subseteq Nths(list)
      /\ \A r, q \in Target : r # q => Nths(to[r]) \cap Nths(to[q]) = {}
  BY <1>2, <1>3, <1>5, <1>6, SortedFacts
<1>8. n \in Target /\ \A r \in Node : r \in Target
  BY DEF Target
<1>9. /\ delivered \o to[n] \in Seq(Packet)
      /\ Nths(delivered \o to[n]) = Nths(delivered) \cup Nths(to[n])
      /\ Once(delivered \o to[n])
  <2>1. Once(delivered) /\ Nths(delivered) \cap Nths(to[n]) = {}
    BY <1>3, <1>4, <1>5, <1>7, <1>8
  <2> QED
    BY <1>2, <1>7, <1>8, <2>1, ConcatFacts
<1>10. ASSUME NEW r \in Node
       PROVE  /\ queue(r) \in Seq(Packet)
              /\ Nths(queue(r)) = Nths(data[n][r]) \cup Nths(to[r])
              /\ Once(queue(r))
  <2>1. Once(data[n][r]) /\ Nths(data[n][r]) \cap Nths(to[r]) = {}
    BY <1>3, <1>4, <1>5, <1>7, <1>8
  <2> QED
    BY <1>2, <1>7, <1>8, <2>1, ConcatFacts
<1> HIDE DEF queue
<1>11. ASSUME NEW r \in Node
       PROVE  /\ link(r) \in Seq(Packet) /\ Len(link(r)) =< MaxInFlight
              /\ Once(link(r)) /\ Nths(link(r)) \subseteq Nths(data[n][r]) \cup Nths(to[r])
              /\ r = n => link(r) = << >>
  <2>1. CASE r = n
    BY <2>1, EmptyFacts, DataConstants
  <2>2. CASE r # n
    <3>1. link(r) = Table!FirstFew(queue(r), MaxInFlight)
      BY <2>2
    <3> HIDE DEF link
    <3> QED
      BY <1>10, <2>2, <3>1, FirstFewFacts, DataConstants
  <2> QED
    BY <2>1, <2>2
<1> HIDE DEF link
<1>12. /\ \A r \in Node : data'[n][r] = link(r)
       /\ \A s \in Node : s # n => data'[s] = data[s]
       /\ pkt_list'[n] = << >> /\ \A m \in Node : m # n => pkt_list'[m] = pkt_list[m]
  BY <1>1, <1>2
<1>13. Lists' /\ Links'
  <2>1. data' \in [Node -> [Node -> Seq(Packet)]]
    BY <1>1, <1>2, <1>11
  <2>2. ASSUME NEW s \in Node, NEW r \in Node PROVE Len(data'[s][r]) =< MaxInFlight
    <3>1. CASE s = n
      BY <1>11, <1>12, <3>1
    <3>2. CASE s # n
      BY <1>12, <3>2 DEF Whole, Shapes, Links
    <3> QED
      BY <3>1, <3>2
  <2>3. Lists'
    BY <1>1, EmptiedList DEF Whole, Shapes
  <2> QED
    BY <2>1, <2>2, <2>3 DEF Links
<1>14. Queues'
  <2> SUFFICES ASSUME NEW m \in Node PROVE posted'[m] + routes'[m] =< QueueSize
    BY DEF Queues
  <2>1. posted[m] \in Nat /\ routes[m] \in Nat /\ posted[m] + routes[m] =< QueueSize
    <3>1. posted \in [Node -> 0 .. TableQuota] /\ routes \in [Node -> Nat]
      BY DEF IInv
    <3> QED
      BY <3>1, DataConstants DEF Whole, Shapes, Queues
  <2>2. routes'[m] = routes[m] \/ routes'[m] = routes[m] - 1
    BY <1>1 DEF IInv
  <2> QED
    BY <1>1, <2>1, <2>2, DataConstants
<1>15. Shapes'
  BY <1>1, <1>9, <1>13, <1>14 DEF Whole, Shapes, Counters
<1>16. Move(A, D)
  <2>1. Holds(A)' = << >> /\ Holds(Z)' = delivered \o to[n]
        /\ \A r \in Node : Holds(<<n, r>>)' = link(r)
    BY <1>1, <1>12, HoldsNext DEF A, Z
  <2>2. ASSUME NEW q \in Queue
        PROVE  \/ q = Z /\ D[q] = Nths(to[n])
               \/ \E r \in Node \ {n} : q = <<n, r>> /\ D[q] = Nths(to[r])
               \/ q = <<n, n>> /\ D[q] = {}
               \/ q = A /\ D[q] = {}
               \/ Holds(q)' = Holds(q) /\ D[q] = {}
    <3>1. CASE q = Z
      BY <3>1
    <3>2. ASSUME NEW m \in Node, q = <<m, NoNode>>
          PROVE  D[q] = {} /\ (q = A \/ Holds(q)' = Holds(q))
      <4>1. q # Z /\ q[2] \notin Node
        BY <3>2, HoldsValue DEF Z
      <4>2. D[q] = {}
        BY <4>1
      <4>3. CASE m = n
        BY <3>2, <4>2, <4>3 DEF A
      <4>4. CASE m # n
        <5>1. Holds(q)' = pkt_list'[m] /\ Holds(q) = pkt_list[m]
          BY <3>2, HoldsValue, HoldsNext
        <5> QED
          BY <1>12, <4>2, <4>4, <5>1
      <4> QED
        BY <4>3, <4>4
    <3>3. ASSUME NEW m \in Node, q = <<NoNode, m>> PROVE D[q] = {} /\ Holds(q)' = Holds(q)
      <4>1. q # Z /\ q[1] # n
        BY <3>3, HoldsValue DEF Z
      <4>2. Holds(q)' = << >> /\ Holds(q) = << >>
        BY <3>3, HoldsValue, HoldsNext
      <4> QED
        BY <4>1, <4>2
    <3>4. ASSUME NEW s \in Node, NEW r \in Node, q = <<s, r>>, s # n
          PROVE  D[q] = {} /\ Holds(q)' = Holds(q)
      <4>1. q # Z /\ q[1] # n
        BY <3>4, HoldsValue DEF Z
      <4>2. Holds(q)' = data'[s][r] /\ Holds(q) = data[s][r]
        BY <3>4, HoldsValue, HoldsNext
      <4> QED
        BY <1>12, <3>4, <4>1, <4>2
    <3>5. ASSUME NEW r \in Node, q = <<n, r>>
          PROVE  IF r = n THEN D[q] = {} ELSE D[q] = Nths(to[r])
      <4>1. q # Z /\ q[1] = n /\ q[2] = r
        BY <3>5, HoldsValue DEF Z
      <4> QED
        BY <4>1
    <3>6. \/ q = Z
          \/ \E m \in Node : q = <<m, NoNode>> \/ q = <<NoNode, m>>
          \/ \E s, r \in Node : q = <<s, r>>
      BY HoldsValue DEF Z
    <3> HIDE DEF D
    <3> QED
      BY <3>1, <3>2, <3>3, <3>4, <3>5, <3>6
  <2> HIDE DEF D
  <2>3. ASSUME NEW q \in Queue
        PROVE  /\ Once(Holds(q)')
               /\ Nths(Holds(q)') \subseteq Nths(Holds(q)) \cup D[q]
               /\ D[q] \subseteq Nths(list)
    <3>1. CASE q = Z /\ D[q] = Nths(to[n])
      BY <1>3, <1>7, <1>8, <1>9, <2>1, <3>1
    <3>2. ASSUME NEW r \in Node, q = <<n, r>>, D[q] = Nths(to[r]) \/ (r = n /\ D[q] = {})
          PROVE  /\ Once(Holds(q)')
                 /\ Nths(Holds(q)') \subseteq Nths(Holds(q)) \cup D[q]
                 /\ D[q] \subseteq Nths(list)
      <4>1. Holds(q)' = link(r) /\ Holds(q) = data[n][r]
        BY <1>3, <2>1, <3>2
      <4>2. Nths(to[r]) \subseteq Nths(list)
        BY <1>7, <1>8
      <4>3. Once(link(r)) /\ Nths(link(r)) \subseteq Nths(data[n][r]) \cup Nths(to[r])
        BY <1>11
      <4>4. r = n => Nths(link(r)) = {}
        BY <1>11, EmptyFacts
      <4> QED
        BY <3>2, <4>1, <4>2, <4>3, <4>4
    <3>3. CASE q = A /\ D[q] = {}
      BY <2>1, <3>3, EmptyFacts
    <3>4. CASE Holds(q)' = Holds(q) /\ D[q] = {}
      <4>1. Once(Holds(q))
        BY <1>5
      <4> QED
        BY <3>4, <4>1
    <3> QED
      BY <2>2, <3>1, <3>2, <3>3, <3>4
  <2>4. ASSUME NEW p \in Queue, NEW q \in Queue, p # q PROVE D[p] \cap D[q] = {}
    <3>1. \/ D[p] = {}
          \/ p = Z /\ D[p] = Nths(to[n])
          \/ \E r \in Node \ {n} : p = <<n, r>> /\ D[p] = Nths(to[r])
      BY <2>2
    <3>2. \/ D[q] = {}
          \/ q = Z /\ D[q] = Nths(to[n])
          \/ \E r \in Node \ {n} : q = <<n, r>> /\ D[q] = Nths(to[r])
      BY <2>2
    <3> QED
      BY <1>7, <1>8, <2>4, <3>1, <3>2
  <2>5. Nths(Holds(A)') = {}
    BY <2>1, EmptyFacts
  <2>6. Nths(Holds(A)) = Nths(list)
    BY <1>3
  <2> QED
    BY <2>3, <2>4, <2>5, <2>6 DEF Move
<1> HIDE DEF D
<1>17. Unique'
  BY <1>1, <1>3, <1>16, MoveKeeps DEF Whole
<1> QED
  BY <1>15, <1>17 DEF Whole

\* A reboot loses the list of the mote and the packets on their way to it.
LEMMA RebootKeeps ==
  ASSUME IInv, Whole, NEW n \in Node, RebootMote(n)
  PROVE  Whole'
<1>1. /\ posted' = [posted EXCEPT ![n] = 0]
      /\ routes' = [routes EXCEPT ![n] = 0]
      /\ pkt_list' = [pkt_list EXCEPT ![n] = << >>]
      /\ data' = [s \in Node |-> [data[s] EXCEPT ![n] = << >>]]
      /\ seq_num' = (IF n = Origen THEN 0 ELSE seq_num)
      /\ pkt_stats' = (IF n = Root THEN NoStats ELSE pkt_stats)
      /\ generated' = generated /\ delivered' = delivered
  BY DEF RebootMote, Table!Reboot
<1>2. /\ pkt_list \in [Node -> Seq(Packet)] /\ data \in [Node -> [Node -> Seq(Packet)]]
      /\ posted \in [Node -> 0 .. TableQuota] /\ routes \in [Node -> Nat]
  BY DEF Whole, Shapes, Links, Lists, IInv
<1>3. /\ pkt_list'[n] = << >> /\ \A m \in Node : m # n => pkt_list'[m] = pkt_list[m]
      /\ \A s \in Node : data'[s][n] = << >>
      /\ \A s, r \in Node : r # n => data'[s][r] = data[s][r]
  BY <1>1, <1>2
<1>4. Lists'
  BY <1>1, EmptiedList DEF Whole, Shapes
<1>5. Links'
  <2>1. data' \in [Node -> [Node -> Seq(Packet)]]
    BY <1>1, <1>2, EmptyFacts
  <2>2. ASSUME NEW s \in Node, NEW r \in Node PROVE Len(data'[s][r]) =< MaxInFlight
    <3>1. CASE r = n
      <4>1. Len(data'[s][r]) = 0
        BY <1>3, <3>1, EmptyFacts
      <4> QED
        BY <4>1, DataConstants
    <3>2. CASE r # n
      BY <1>3, <3>2 DEF Whole, Shapes, Links
    <3> QED
      BY <3>1, <3>2
  <2> QED
    BY <2>1, <2>2 DEF Links
<1>6. Queues'
  <2> SUFFICES ASSUME NEW m \in Node PROVE posted'[m] + routes'[m] =< QueueSize
    BY DEF Queues
  <2>1. CASE m = n
    <3>1. posted'[m] = 0 /\ routes'[m] = 0
      BY <1>1, <1>2, <2>1
    <3> QED
      BY <3>1, DataConstants
  <2>2. CASE m # n
    <3>1. posted'[m] = posted[m] /\ routes'[m] = routes[m]
      BY <1>1, <1>2, <2>2
    <3> QED
      BY <3>1 DEF Whole, Shapes, Queues
  <2> QED
    BY <2>1, <2>2
<1>7. Counters'
  BY <1>1, DataConstants DEF Whole, Shapes, Counters, NoStats
<1>8. Shapes'
  BY <1>1, <1>4, <1>5, <1>6, <1>7 DEF Whole, Shapes
<1>9. ASSUME NEW q \in Queue PROVE Once(Holds(q)') /\ Nths(Holds(q)') \subseteq Nths(Holds(q))
  <2>1. Once(Holds(q))
    BY DEF Whole, Unique
  <2>2. CASE q = <<n, NoNode>>
    BY <1>3, <2>2, HoldsNext, EmptyFacts
  <2>3. ASSUME NEW s \in Node, q = <<s, n>> PROVE Holds(q)' = << >>
    BY <1>3, <2>3, HoldsNext
  <2>4. CASE q # <<n, NoNode>> /\ \A s \in Node : q # <<s, n>>
    <3>1. Holds(q)' = Holds(q)
      BY <1>1, <1>3, <2>4, SameHolds
    <3> QED
      BY <2>1, <3>1
  <2> QED
    BY <2>2, <2>3, <2>4, EmptyFacts
<1>10. Unique'
  BY <1>1, <1>9, LossKeeps DEF Whole
<1> QED
  BY <1>8, <1>10 DEF Whole

\* Tables move no packet.
LEMMA StayPut ==
  ASSUME Whole, UNCHANGED dataVars, Queues'
  PROVE  Whole'
<1>1. Shapes'
  BY DEF Whole, Shapes, Lists, Links, Counters, dataVars
<1>2. ASSUME NEW q \in Queue PROVE Holds(q)' = Holds(q)
  BY SameHolds DEF dataVars
<1>3. ASSUME NEW q \in Queue PROVE Once(Holds(q)') /\ Nths(Holds(q)') \subseteq Nths(Holds(q))
  <2>1. Once(Holds(q))
    BY DEF Whole, Unique
  <2> QED
    BY <1>2, <2>1
<1>4. Unique'
  BY <1>3, LossKeeps DEF Whole, dataVars
<1> QED
  BY <1>1, <1>4 DEF Whole

LEMMA WholeNext == IInv /\ HopsAreMotes /\ Whole /\ [Next]_vars => Whole'
<1> SUFFICES ASSUME IInv, HopsAreMotes, Whole, [Next]_vars PROVE Whole'
  OBVIOUS
<1>0. /\ Queues /\ QueueSize \in Nat
      /\ \A n \in Node : posted[n] \in Nat /\ routes[n] \in Nat
      /\ DOMAIN posted = Node
  <2>1. posted \in [Node -> 0 .. TableQuota] /\ routes \in [Node -> Nat]
    BY DEF IInv
  <2> QED
    BY <2>1, DataConstants DEF Whole, Shapes
<1>1. CASE generate_pkt_dst
  BY <1>1, GenerateKeeps
<1>2. ASSUME NEW n \in Node, NEW s \in Node, recv_uc_data(n, s) PROVE Whole'
  BY <1>2, ReceiveKeeps
<1>3. ASSUME NEW n \in Node, routing_upstream_downstream(n) PROVE Whole'
  BY <1>3, DrainKeeps
<1>4. ASSUME NEW s \in Node, NEW r \in Node, LosePacket(s, r) PROVE Whole'
  BY <1>4, LoseKeeps
<1>5. ASSUME NEW n \in Node, RebootMote(n) PROVE Whole'
  BY <1>5, RebootKeeps
<1>6. ASSUME NEW n \in Node, NEW s \in Node, recv_uc_control(n, s) PROVE Whole'
  <2>1. UNCHANGED dataVars /\ posted' = [posted EXCEPT ![n] = IF QueueFull(n) THEN @ ELSE @ + 1]
    BY <1>6 DEF recv_uc_control, Table!recv_uc
  <2>2. ASSUME NEW m \in Node PROVE posted'[m] + routes'[m] =< QueueSize
    <3>1. posted[m] + routes[m] =< QueueSize /\ routes' = routes
      BY <1>0, <2>1 DEF Queues, dataVars
    <3>2. CASE m = n /\ ~ QueueFull(n)
      <4>1. posted'[m] = posted[m] + 1 /\ ~ (posted[m] + routes[m] >= QueueSize)
        BY <1>0, <2>1, <3>2 DEF QueueFull
      <4> QED
        BY <1>0, <3>1, <4>1
    <3>3. CASE ~ (m = n /\ ~ QueueFull(n))
      <4>1. posted'[m] = posted[m]
        BY <1>0, <2>1, <3>3
      <4> QED
        BY <3>1, <4>1
    <3> QED
      BY <3>2, <3>3
  <2> QED
    BY <2>1, <2>2, StayPut DEF Queues
<1>7. ASSUME NEW n \in Node, NEW p \in Candidates[n], TakeParent(n, p) PROVE Whole'
  <2>1. UNCHANGED dataVars /\ UNCHANGED posted
    BY <1>7 DEF TakeParent, Table!ChooseParent
  <2> QED
    BY <1>0, <2>1, StayPut DEF Queues, dataVars
<1>8. ASSUME NEW n \in Node, DropParent(n) PROVE Whole'
  <2>1. UNCHANGED dataVars /\ UNCHANGED posted
    BY <1>8 DEF DropParent, Table!LoseParent
  <2> QED
    BY <1>0, <2>1, StayPut DEF Queues, dataVars
<1>9. ASSUME NEW n \in Node, send_table(n) PROVE Whole'
  <2>1. UNCHANGED dataVars /\ UNCHANGED posted
    BY <1>9 DEF send_table, Table!send_routing_table
  <2> QED
    BY <1>0, <2>1, StayPut DEF Queues, dataVars
<1>10. ASSUME NEW n \in Node, update_table(n) PROVE Whole'
  <2>1. UNCHANGED dataVars /\ posted' = [posted EXCEPT ![n] = @ - 1]
    BY <1>10 DEF update_table, Table!update_routing_table
  <2>2. ASSUME NEW m \in Node PROVE posted'[m] + routes'[m] =< QueueSize
    <3>1. posted[m] + routes[m] =< QueueSize /\ routes' = routes
      BY <1>0, <2>1 DEF Queues, dataVars
    <3>2. posted'[m] = posted[m] \/ posted'[m] = posted[m] - 1
      BY <1>0, <2>1
    <3> QED
      BY <1>0, <3>1, <3>2
  <2> QED
    BY <2>1, <2>2, StayPut DEF Queues
<1>11. CASE UNCHANGED vars
  BY <1>0, <1>11, StayPut DEF vars, tableVars, Queues, dataVars
<1> QED
  BY <1>1, <1>2, <1>3, <1>4, <1>5, <1>6, <1>7, <1>8, <1>9, <1>10, <1>11 DEF Next

-----------------------------------------------------------------------------
(***************************************************************************)
(* Whole is what OnePlace says.                                            *)
(***************************************************************************)
LEMMA AtMostOne ==
  ASSUME NEW S, \A x, y \in S : x = y
  PROVE  Cardinality(S) = IF S = {} THEN 0 ELSE 1
<1>1. CASE S = {}
  BY <1>1, FS_EmptySet
<1>2. CASE S # {}
  <2>1. PICK x \in S : TRUE
    BY <1>2
  <2>2. S = {x}
    BY <2>1
  <2> QED
    BY <2>2, FS_Singleton
<1> QED
  BY <1>1, <1>2

LEMMA InLists ==
  ASSUME NEW k, NEW x \in Listed(k)
  PROVE  \E n \in Node : \E j \in DOMAIN pkt_list[n] :
           x = <<n, j>> /\ pkt_list[n][j].nth = k /\ k \in Nths(Holds(<<n, NoNode>>))
<1>1. PICK n \in Node : \E j \in DOMAIN pkt_list[n] : x = <<n, j>> /\ pkt_list[n][j].nth = k
  BY DEF Listed
<1>2. k \in Nths(pkt_list[n])
  BY <1>1 DEF Nths
<1> QED
  BY <1>1, <1>2, HoldsValue

LEMMA InLinks ==
  ASSUME NEW k, NEW x \in OnLinks(k)
  PROVE  \E s, r \in Node : \E j \in DOMAIN data[s][r] :
           x = <<<<s, r>>, j>> /\ data[s][r][j].nth = k /\ k \in Nths(Holds(<<s, r>>))
<1>1. PICK l \in Node \X Node : \E j \in DOMAIN data[l[1]][l[2]] :
        x = <<l, j>> /\ data[l[1]][l[2]][j].nth = k
  BY DEF OnLinks
<1>2. PICK s \in Node, r \in Node : l = <<s, r>>
  OBVIOUS
<1>3. \E j \in DOMAIN data[s][r] : x = <<<<s, r>>, j>> /\ data[s][r][j].nth = k
  BY <1>1, <1>2
<1>4. k \in Nths(data[s][r])
  BY <1>3 DEF Nths
<1> QED
  BY <1>3, <1>4, HoldsValue

LEMMA InDelivered ==
  ASSUME NEW k, NEW j \in Delivered(k)
  PROVE  /\ j \in DOMAIN delivered /\ delivered[j].nth = k
         /\ k \in Nths(Holds(<<NoNode, NoNode>>))
<1>1. j \in DOMAIN delivered /\ delivered[j].nth = k
  BY DEF Delivered
<1>2. k \in Nths(delivered)
  BY <1>1 DEF Nths
<1> QED
  BY <1>1, <1>2, HoldsValue

LEMMA WholeIsOnePlace == Whole => OnePlace
<1>1. ASSUME Whole, NEW k \in 1 .. generated
      PROVE  Cardinality(Listed(k)) + Cardinality(OnLinks(k)) + Cardinality(Delivered(k)) =< 1
  <2>1. Whole /\ Unique
    BY <1>1 DEF Whole
  <2>2. ASSUME NEW p \in Queue, NEW q \in Queue, k \in Nths(Holds(p)), k \in Nths(Holds(q))
        PROVE  p = q
    BY <2>1, <2>2 DEF Unique
  <2>3. /\ \A n \in Node : Once(pkt_list[n])
        /\ \A s, r \in Node : Once(data[s][r])
        /\ Once(delivered)
    BY <2>1, Names, HoldsValue DEF Unique
  <2>4. ASSUME NEW x \in Listed(k), NEW y \in Listed(k) PROVE x = y
    <3>1. PICK n \in Node : \E j \in DOMAIN pkt_list[n] :
            x = <<n, j>> /\ pkt_list[n][j].nth = k /\ k \in Nths(Holds(<<n, NoNode>>))
      BY InLists
    <3>2. PICK m \in Node : \E j \in DOMAIN pkt_list[m] :
            y = <<m, j>> /\ pkt_list[m][j].nth = k /\ k \in Nths(Holds(<<m, NoNode>>))
      BY InLists
    <3>3. m = n
      BY <2>2, <3>1, <3>2, Names
    <3> QED
      BY <2>3, <3>1, <3>2, <3>3 DEF Once
  <2>5. ASSUME NEW x \in OnLinks(k), NEW y \in OnLinks(k) PROVE x = y
    <3>1. PICK s \in Node, r \in Node : \E j \in DOMAIN data[s][r] :
            x = <<<<s, r>>, j>> /\ data[s][r][j].nth = k /\ k \in Nths(Holds(<<s, r>>))
      BY InLinks
    <3>2. PICK t \in Node, q \in Node : \E j \in DOMAIN data[t][q] :
            y = <<<<t, q>>, j>> /\ data[t][q][j].nth = k /\ k \in Nths(Holds(<<t, q>>))
      BY InLinks
    <3>3. t = s /\ q = r
      <4>1. <<t, q>> = <<s, r>>
        BY <2>2, <3>1, <3>2, Names
      <4> QED
        BY <4>1
    <3> QED
      BY <2>3, <3>1, <3>2, <3>3 DEF Once
  <2>6. ASSUME NEW x \in Delivered(k), NEW y \in Delivered(k) PROVE x = y
    BY <2>3, InDelivered DEF Once
  <2>7. \/ Listed(k) = {} /\ OnLinks(k) = {}
        \/ Listed(k) = {} /\ Delivered(k) = {}
        \/ OnLinks(k) = {} /\ Delivered(k) = {}
    <3>1. Listed(k) # {} => \E n \in Node : k \in Nths(Holds(<<n, NoNode>>))
      BY InLists
    <3>2. OnLinks(k) # {} => \E s, r \in Node : k \in Nths(Holds(<<s, r>>))
      BY InLinks
    <3>3. Delivered(k) # {} => k \in Nths(Holds(<<NoNode, NoNode>>))
      <4>1. ASSUME NEW j \in Delivered(k) PROVE k \in Nths(Holds(<<NoNode, NoNode>>))
        BY InDelivered
      <4> QED
        BY <4>1
    <3>4. /\ \A n, s, r \in Node : <<n, NoNode>> # <<s, r>>
          /\ \A n \in Node : <<n, NoNode>> # <<NoNode, NoNode>>
          /\ \A s, r \in Node : <<s, r>> # <<NoNode, NoNode>>
      BY HoldsValue
    <3> QED
      BY <2>2, <3>1, <3>2, <3>3, <3>4, Names
  <2>8. /\ Cardinality(Listed(k)) = (IF Listed(k) = {} THEN 0 ELSE 1)
        /\ Cardinality(OnLinks(k)) = (IF OnLinks(k) = {} THEN 0 ELSE 1)
        /\ Cardinality(Delivered(k)) = (IF Delivered(k) = {} THEN 0 ELSE 1)
    BY <2>4, <2>5, <2>6, AtMostOne
  <2> QED
    BY <2>7, <2>8
<1> QED
  BY <1>1 DEF OnePlace
-----------------------------------------------------------------------------
(***************************************************************************)
(* The tree of parents, and the hops on it.                                *)
(***************************************************************************)
Parents ==
  /\ best_parent_id \in [Node -> Target] /\ best_parent_id[Root] = NoNode
  /\ Table!IsTree(best_parent_id)

Closed(S) == \A m \in S : best_parent_id[m] \in S \cup {NoNode}

LEMMA Roots ==
  /\ NoNode \notin Node /\ Root \in Node /\ 0 \notin Node /\ 256 \notin Node
  /\ IsFiniteSet(Node)
<1>1. Node \subseteq 1 .. 255 /\ Root \in Node /\ NoNode \notin Node
  BY TableAssumption DEF Table!RoutingAssumption
<1>2. IsFiniteSet(1 .. 255)
  <2>1. 1 \in Int /\ 255 \in Int
    OBVIOUS
  <2> QED
    BY <2>1, FS_Interval
<1>3. IsFiniteSet(Node)
  BY <1>1, <1>2, FS_Subset
<1> QED
  BY <1>1, <1>3

\* The ancestors of n are the smallest closed set that n is in.
LEMMA AncestorsAreLeast ==
  ASSUME Parents, NEW n \in Node
  PROVE  /\ Ancestors(n) \subseteq Node /\ n \in Ancestors(n) /\ Closed(Ancestors(n))
         /\ \A S \in SUBSET Node : n \in S /\ Closed(S) => Ancestors(n) \subseteq S
         /\ IsFiniteSet(Ancestors(n))
<1>1. \A c \in Node : c \in Ancestors(n) <=> \A S \in SUBSET Node : n \in S /\ Closed(S) => c \in S
  BY DEF Ancestors, Table!Below, Closed
<1>2. Ancestors(n) \subseteq Node
  BY DEF Ancestors
<1>3. Closed(Ancestors(n))
  <2> SUFFICES ASSUME NEW m \in Ancestors(n), best_parent_id[m] # NoNode
               PROVE  best_parent_id[m] \in Ancestors(n)
    BY DEF Closed
  <2>1. m \in Node /\ best_parent_id[m] \in Node
    BY <1>2 DEF Parents, Target
  <2>2. ASSUME NEW S \in SUBSET Node, n \in S, Closed(S) PROVE best_parent_id[m] \in S
    <3>1. m \in S
      BY <1>1, <2>1, <2>2
    <3> QED
      BY <2>2, <3>1 DEF Closed
  <2> QED
    BY <1>1, <2>1, <2>2
<1> QED
  BY <1>1, <1>2, <1>3, Roots, FS_Subset

LEMMA AncestorsOfAncestors ==
  ASSUME Parents, NEW n \in Node, NEW m \in Ancestors(n)
  PROVE  m \in Node /\ Ancestors(m) \subseteq Ancestors(n)
<1>1. m \in Node /\ Ancestors(n) \subseteq Node /\ Closed(Ancestors(n))
  BY AncestorsAreLeast
<1> QED
  BY <1>1, AncestorsAreLeast

\* Those of a child are its own and its parent's, and a mote is not above its
\* parent.
LEMMA AncestorsOfChild ==
  ASSUME Parents, NEW n \in Node, best_parent_id[n] # NoNode
  PROVE  /\ best_parent_id[n] \in Node
         /\ Ancestors(n) = {n} \cup Ancestors(best_parent_id[n])
         /\ n \notin Ancestors(best_parent_id[n])
<1> DEFINE p == best_parent_id[n]
           C == { c \in Ancestors(p) : n \in Ancestors(c) }
<1>1. p \in Node
  BY DEF Parents, Target
<1>2. p \in Ancestors(n)
  BY AncestorsAreLeast DEF Closed
<1>3. Ancestors(n) = {n} \cup Ancestors(p)
  <2>1. /\ Ancestors(p) \subseteq Node /\ p \in Ancestors(p) /\ Closed(Ancestors(p))
        /\ Ancestors(p) \subseteq Ancestors(n) /\ n \in Ancestors(n)
    BY <1>1, <1>2, AncestorsAreLeast, AncestorsOfAncestors
  <2>2. Closed({n} \cup Ancestors(p))
    BY <2>1 DEF Closed
  <2>3. Ancestors(n) \subseteq {n} \cup Ancestors(p)
    BY <2>1, <2>2, AncestorsAreLeast
  <2> QED
    BY <2>1, <2>3
<1>4. ASSUME n \in Ancestors(p) PROVE FALSE
  <2>1. C \subseteq Node /\ p \in C
    BY <1>1, <1>3, <1>4, AncestorsAreLeast
  <2>2. ASSUME NEW c \in C PROVE best_parent_id[c] \in C
    <3>1. /\ c \in Node /\ c \in Ancestors(p) /\ n \in Ancestors(c)
          /\ Closed(Ancestors(p)) /\ Closed(Ancestors(c))
      BY <1>1, <2>1, AncestorsAreLeast
    <3>2. CASE best_parent_id[c] = NoNode
      <4>1. c # n /\ Closed({c})
        BY <3>2 DEF Closed
      <4>2. Ancestors(c) \subseteq {c}
        BY <3>1, <4>1, AncestorsAreLeast
      <4> QED
        BY <3>1, <4>1, <4>2
    <3>3. CASE best_parent_id[c] # NoNode
      <4>1. best_parent_id[c] \in Node /\ best_parent_id[c] \in Ancestors(p)
        BY <3>1, <3>3 DEF Parents, Target, Closed
      <4>2. CASE c = n
        BY <2>1, <4>2
      <4>3. CASE c # n
        <5> DEFINE q == best_parent_id[c]
        <5>1. q \in Ancestors(q) /\ Closed(Ancestors(q)) /\ Ancestors(q) \subseteq Node
          BY <4>1, AncestorsAreLeast
        <5>2. Closed({c} \cup Ancestors(q))
          BY <5>1 DEF Closed
        <5>3. Ancestors(c) \subseteq {c} \cup Ancestors(q)
          BY <3>1, <5>1, <5>2, AncestorsAreLeast
        <5> QED
          BY <3>1, <4>1, <4>3, <5>3
      <4> QED
        BY <4>2, <4>3
    <3> QED
      BY <3>2, <3>3
  <2> HIDE DEF C
  <2>3. C \in (SUBSET Node) \ {{}}
    BY <2>1
  <2> QED
    BY <2>2, <2>3 DEF Parents, Table!IsTree
<1> QED
  BY <1>1, <1>3, <1>4

\* If all motes but the root have a parent, the root is above them all.
LEMMA RootIsAbove ==
  ASSUME Parents, \A n \in Node \ {Root} : best_parent_id[n] # NoNode, NEW n \in Node
  PROVE  Root \in Ancestors(n) /\ best_parent_id[Root] = NoNode
<1>1. ASSUME Root \notin Ancestors(n) PROVE FALSE
  <2>1. Ancestors(n) \in (SUBSET Node) \ {{}} /\ Closed(Ancestors(n))
    BY AncestorsAreLeast
  <2>2. PICK m \in Ancestors(n) : best_parent_id[m] \notin Ancestors(n)
    BY <2>1 DEF Parents, Table!IsTree
  <2>3. m \in Node \ {Root}
    BY <1>1, <2>1
  <2> QED
    BY <2>1, <2>2, <2>3 DEF Closed
<1>2. best_parent_id[Root] = NoNode
  BY DEF Parents
<1> QED
  BY <1>1, <1>2

\* Parents form a tree, whoever loses a parent.
LEMMA InitParents == Init => Parents
<1> SUFFICES ASSUME Init PROVE Parents
  OBVIOUS
<1>1. best_parent_id = [n \in Node |-> NoNode]
  BY DEF Init, Table!Init
<1>2. ASSUME NEW S \in (SUBSET Node) \ {{}} PROVE \E n \in S : best_parent_id[n] \notin S
  <2>1. PICK n \in S : TRUE
    OBVIOUS
  <2> QED
    BY <1>1, <2>1, Roots
<1> QED
  BY <1>1, <1>2, Roots DEF Parents, Target, Table!IsTree

LEMMA TreeLosesParent ==
  ASSUME Parents, NEW n \in Node, best_parent_id' = [best_parent_id EXCEPT ![n] = NoNode]
  PROVE  Parents'
<1>1. ASSUME NEW S \in (SUBSET Node) \ {{}} PROVE \E m \in S : best_parent_id'[m] \notin S
  <2>1. PICK m \in S : best_parent_id[m] \notin S
    BY DEF Parents, Table!IsTree
  <2> QED
    BY <2>1, Roots DEF Parents
<1>2. best_parent_id' \in [Node -> Target] /\ best_parent_id'[Root] = NoNode
  BY Roots DEF Parents, Target
<1> QED
  BY <1>1, <1>2 DEF Parents, Target, Table!IsTree

LEMMA ParentsNext == Parents /\ [Next]_vars => Parents'
<1> SUFFICES ASSUME Parents, [Next]_vars PROVE Parents'
  OBVIOUS
<1>1. ASSUME UNCHANGED best_parent_id PROVE Parents'
  BY <1>1 DEF Parents, Target, Table!IsTree
<1>2. CASE generate_pkt_dst
  BY <1>1, <1>2 DEF generate_pkt_dst, tableVars
<1>3. ASSUME NEW n \in Node, NEW s \in Node, recv_uc_data(n, s) PROVE Parents'
  BY <1>1, <1>3 DEF recv_uc_data, tableVars
<1>4. ASSUME NEW n \in Node, routing_upstream_downstream(n) PROVE Parents'
  BY <1>1, <1>4 DEF routing_upstream_downstream, tableVars
<1>5. ASSUME NEW s \in Node, NEW r \in Node, LosePacket(s, r) PROVE Parents'
  BY <1>1, <1>5 DEF LosePacket, tableVars
<1>6. ASSUME NEW n \in Node, RebootMote(n) PROVE Parents'
  BY <1>6, TreeLosesParent DEF RebootMote, Table!Reboot
<1>7. ASSUME NEW n \in Node, NEW s \in Node, recv_uc_control(n, s) PROVE Parents'
  BY <1>1, <1>7 DEF recv_uc_control, Table!recv_uc
<1>8. ASSUME NEW n \in Node, NEW p \in Candidates[n], TakeParent(n, p) PROVE Parents'
  <2>1. p \in Node /\ n # Root
    BY TableAssumption DEF Table!RoutingAssumption
  <2>2. /\ best_parent_id' = [best_parent_id EXCEPT ![n] = p]
        /\ Table!IsTree(best_parent_id')
    BY <1>8 DEF TakeParent, Table!ChooseParent
  <2>3. best_parent_id' \in [Node -> Target] /\ best_parent_id'[Root] = NoNode
    BY <2>1, <2>2, Roots DEF Parents, Target
  <2> QED
    BY <2>2, <2>3 DEF Parents, Target, Table!IsTree
<1>9. ASSUME NEW n \in Node, DropParent(n) PROVE Parents'
  BY <1>9, TreeLosesParent DEF DropParent, Table!LoseParent
<1>10. ASSUME NEW n \in Node, send_table(n) PROVE Parents'
  BY <1>1, <1>10 DEF send_table, Table!send_routing_table
<1>11. ASSUME NEW n \in Node, update_table(n) PROVE Parents'
  BY <1>1, <1>11 DEF update_table, Table!update_routing_table
<1>12. CASE UNCHANGED vars
  BY <1>1, <1>12 DEF vars, tableVars
<1> QED
  BY <1>2, <1>3, <1>4, <1>5, <1>6, <1>7, <1>8, <1>9, <1>10, <1>11, <1>12 DEF Next

\* d can be reached from r along the edges of t.
Leads(t, r, d) ==
  \A S \in SUBSET Node : (r \in S /\ \A e \in Table!Edges(t) : e[1] \in S => e[2] \in S) => d \in S

\* What a search returns: proved below, of the tables.
Searched ==
  \A n, d \in Node :
    LET t == routing_tree[n]
        next == Table!Search_forwarder(t, n, d)
    IN  /\ next \in Node \cup {Table!Upstream, Table!Diverges}
        /\ next \in Node => <<n, next>> \in Table!Edges(t) /\ Leads(t, next, d)
        /\ next = Table!Upstream =>
             \A c \in Node : <<n, c>> \in Table!Edges(t) => ~ Leads(t, c, d)
        /\ next = Table!Diverges => \E e \in Table!Edges(t) : Leads(t, e[2], e[1])
        /\ Table!Edges(t) \subseteq Node \X Node

\* Along edges that are parents today, one goes down.
LEMMA LeadsDown ==
  ASSUME Parents, NEW t, Table!Edges(t) \subseteq Node \X Node,
         \A e \in Table!Edges(t) : best_parent_id[e[2]] = e[1],
         NEW r \in Node, NEW d \in Node, Leads(t, r, d)
  PROVE  r \in Ancestors(d)
<1> DEFINE S == { x \in Node : r \in Ancestors(x) }
<1>1. r \in S
  BY AncestorsAreLeast
<1>2. ASSUME NEW e \in Table!Edges(t), e[1] \in S PROVE e[2] \in S
  <2>1. e[1] \in Node /\ e[2] \in Node /\ best_parent_id[e[2]] = e[1] /\ e[1] # NoNode
    BY Roots
  <2>2. Ancestors(e[2]) = {e[2]} \cup Ancestors(e[1])
    BY <2>1, AncestorsOfChild
  <2> QED
    BY <1>2, <2>1, <2>2
<1> HIDE DEF S
<1>3. d \in S
  <2>1. S \in SUBSET Node
    BY DEF S
  <2> QED
    BY <1>1, <1>2, <2>1 DEF Leads
<1> QED
  BY <1>3 DEF S

\* One less in one of two sets, and no more in the other.
LEMMA Fewer ==
  ASSUME NEW A, NEW B, NEW C, NEW x, IsFiniteSet(A), B = A \ {x}, x \in A,
         NEW D, IsFiniteSet(D), C = D
  PROVE  /\ Cardinality(B) + Cardinality(C) < Cardinality(A) + Cardinality(D)
         /\ Cardinality(C) + Cardinality(B) < Cardinality(D) + Cardinality(A)
<1>1. Cardinality(B) = Cardinality(A) - 1
  BY FS_RemoveElement
<1>2. Cardinality(A) \in Nat /\ Cardinality(D) \in Nat
  BY FS_CardinalityType
<1> QED
  BY <1>1, <1>2

LEMMA HopsAreCloser == Parents /\ Searched => EveryHopCloser
<1> SUFFICES ASSUME Parents, Searched, Connected, NEW n \in Node, n # Destino
             PROVE  /\ NextHop(n, Destino) # NoNode
                    /\ Distance(NextHop(n, Destino), Destino) < Distance(n, Destino)
  BY DEF EveryHopCloser
<1> DEFINE t == routing_tree[n]
           next == Table!Search_forwarder(t, n, Destino)
           up == best_parent_id[n]
           path == Ancestors(Destino)
<1>1. /\ Destino \in Node /\ NoNode \notin Node
      /\ Table!Upstream \notin Node /\ Table!Diverges \notin Node
      /\ Table!Upstream # Table!Diverges
  BY Roots, DataConstants DEF Table!Upstream, Table!Diverges
<1>2. /\ \A m \in Node \ {Root} : best_parent_id[m] # NoNode
      /\ \A e \in Table!Edges(t) : best_parent_id[e[2]] = e[1]
      /\ \A c \in path \ {Root} :
           Table!Search_forwarder(routing_tree[best_parent_id[c]], best_parent_id[c], Destino) = c
  BY DEF Connected
<1>3. /\ next \in Node \cup {Table!Upstream, Table!Diverges}
      /\ next \in Node => <<n, next>> \in Table!Edges(t) /\ Leads(t, next, Destino)
      /\ next = Table!Diverges => \E e \in Table!Edges(t) : Leads(t, e[2], e[1])
      /\ Table!Edges(t) \subseteq Node \X Node
  BY <1>1 DEF Searched
<1>4. NextHop(n, Destino) = IF next # Table!Upstream THEN next ELSE up
  BY DEF NextHop
<1>5. /\ path \subseteq Node /\ Destino \in path /\ Closed(path) /\ IsFiniteSet(path)
      /\ \A S \in SUBSET Node : Destino \in S /\ Closed(S) => path \subseteq S
      /\ Root \in path /\ best_parent_id[Root] = NoNode
  BY <1>1, <1>2, AncestorsAreLeast, RootIsAbove
<1> HIDE DEF next, t, path
<1>6. CASE n \in path
  <2>1. PICK c \in path \ {Root} : best_parent_id[c] = n
    <3>1. ASSUME \A c \in path \ {Root} : best_parent_id[c] # n PROVE FALSE
      <4>1. \A c \in path : best_parent_id[c] # n
        BY <1>1, <1>5, <3>1
      <4>2. Closed(path \ {n})
        BY <1>5, <4>1 DEF Closed
      <4>3. path \ {n} \in SUBSET Node /\ Destino \in path \ {n}
        BY <1>5
      <4> QED
        BY <1>5, <1>6, <4>2, <4>3
    <3> QED
      BY <3>1
  <2>2. next = c /\ c \in Node
    BY <1>2, <1>5, <2>1 DEF next, t
  <2>3. NextHop(n, Destino) = c
    BY <1>1, <1>4, <2>2
  <2>4. Ancestors(c) = {c} \cup Ancestors(n) /\ c \notin Ancestors(n)
    BY <1>1, <2>1, <2>2, AncestorsOfChild
  <2>5. Ancestors(n) \subseteq path
    BY <1>1, <1>6, AncestorsOfAncestors DEF path
  <2>6. /\ path \ Ancestors(c) = (path \ Ancestors(n)) \ {c}
        /\ c \in path \ Ancestors(n)
        /\ Ancestors(c) \ path = {} /\ Ancestors(n) \ path = {}
    BY <2>1, <2>4, <2>5
  <2>7. IsFiniteSet(path \ Ancestors(n))
    BY <1>5, FS_Subset
  <2>8. Cardinality(Ancestors(c) \ path) + Cardinality(path \ Ancestors(c))
          < Cardinality(Ancestors(n) \ path) + Cardinality(path \ Ancestors(n))
    BY <2>6, <2>7, FS_EmptySet, Fewer
  <2> QED
    BY <1>1, <2>2, <2>3, <2>8 DEF Distance, path
<1>7. CASE n \notin path
  <2>1. n # Root /\ up # NoNode
    BY <1>2, <1>5, <1>7
  <2>2. up \in Node /\ Ancestors(n) = {n} \cup Ancestors(up) /\ n \notin Ancestors(up)
    BY <2>1, AncestorsOfChild
  <2>3. next \notin Node
    <3> SUFFICES ASSUME next \in Node PROVE FALSE
      OBVIOUS
    <3>1. next \in path
      BY <1>1, <1>2, <1>3, LeadsDown DEF path
    <3>2. best_parent_id[next] = n
      <4>1. <<n, next>>[1] = n /\ <<n, next>>[2] = next
        OBVIOUS
      <4> QED
        BY <1>2, <1>3, <4>1
    <3> QED
      BY <1>1, <1>5, <1>7, <3>1, <3>2 DEF Closed
  <2>4. next # Table!Diverges
    <3> SUFFICES ASSUME NEW e \in Table!Edges(t), Leads(t, e[2], e[1]) PROVE FALSE
      BY <1>3
    <3>1. e[1] \in Node /\ e[2] \in Node /\ best_parent_id[e[2]] = e[1]
      BY <1>2, <1>3
    <3>2. e[2] \in Ancestors(e[1])
      BY <1>2, <1>3, <3>1, LeadsDown
    <3> QED
      BY <1>1, <3>1, <3>2, AncestorsOfChild
  <2>5. NextHop(n, Destino) = up
    BY <1>3, <1>4, <2>3, <2>4
  <2>6. /\ Ancestors(up) \ path = (Ancestors(n) \ path) \ {n}
        /\ n \in Ancestors(n) \ path
        /\ path \ Ancestors(up) = path \ Ancestors(n)
    BY <1>7, <2>2
  <2>7. IsFiniteSet(Ancestors(n) \ path) /\ IsFiniteSet(path \ Ancestors(n))
    BY <1>5, AncestorsAreLeast, FS_Subset
  <2>8. Cardinality(Ancestors(up) \ path) + Cardinality(path \ Ancestors(up))
          < Cardinality(Ancestors(n) \ path) + Cardinality(path \ Ancestors(n))
    BY <2>6, <2>7, Fewer
  <2> QED
    BY <2>1, <2>5, <2>8 DEF Distance, path
<1> QED
  BY <1>6, <1>7
-----------------------------------------------------------------------------
(***************************************************************************)
(* The way down.  As long as nothing reboots and parents stay, what a mote *)
(* knows beyond its own children one of its children knows too, and a      *)
(* child that leads to a mote knows how to go on.                          *)
(***************************************************************************)
Backed ==
  \A n \in Node : \A e \in Table!Edges(routing_tree[n]) :
    /\ n \in Ancestors(e[1]) /\ best_parent_id[e[2]] = e[1]
    /\ \/ e[1] = n
       \/ \E c \in Node : best_parent_id[c] = n /\ e \in Table!Edges(routing_tree[c])

\* Parents stay and tables grow.
Grows ==
  \A n \in Node :
    /\ best_parent_id[n] # NoNode => best_parent_id'[n] = best_parent_id[n]
    /\ Table!Edges(routing_tree[n]) \subseteq Table!Edges(routing_tree'[n])

\* Two children of one mote have no mote below both.
LEMMA BranchesMeetAtNoChild ==
  ASSUME Parents, NEW x \in Node, NEW a \in Ancestors(x), NEW b \in Ancestors(x),
         best_parent_id[a] = best_parent_id[b], best_parent_id[a] # NoNode
  PROVE  a = b
<1> DEFINE line == { y \in Ancestors(x) : a \in Ancestors(y) \/ y \in Ancestors(a) }
<1>1. /\ Ancestors(x) \subseteq Node /\ x \in Ancestors(x) /\ Closed(Ancestors(x))
      /\ \A S \in SUBSET Node : x \in S /\ Closed(S) => Ancestors(x) \subseteq S
      /\ a \in Node /\ b \in Node
  BY AncestorsAreLeast
<1>2. Closed(Ancestors(a)) /\ a \in Ancestors(a)
  BY <1>1, AncestorsAreLeast
<1>3. Closed(line)
  <2> SUFFICES ASSUME NEW y \in line, best_parent_id[y] # NoNode PROVE best_parent_id[y] \in line
    BY DEF Closed
  <2> DEFINE up == best_parent_id[y]
  <2>1. y \in Node /\ y \in Ancestors(x) /\ (a \in Ancestors(y) \/ y \in Ancestors(a))
    BY <1>1
  <2>2. up \in Ancestors(x) /\ Ancestors(y) = {y} \cup Ancestors(up)
    BY <1>1, <2>1, AncestorsOfChild DEF Closed
  <2> HIDE DEF line
  <2>3. a \in Ancestors(up) \/ up \in Ancestors(a)
    BY <1>2, <2>1, <2>2 DEF Closed
  <2> QED
    BY <2>2, <2>3 DEF line
<1>4. line \in SUBSET Node /\ x \in line
  BY <1>1
<1>5. b \in line
  BY <1>1, <1>3, <1>4
<1>6. a \in Ancestors(b) \/ b \in Ancestors(a)
  BY <1>5
<1> HIDE DEF line
<1>7. /\ Ancestors(a) = {a} \cup Ancestors(best_parent_id[a]) /\ a \notin Ancestors(best_parent_id[a])
      /\ Ancestors(b) = {b} \cup Ancestors(best_parent_id[a]) /\ b \notin Ancestors(best_parent_id[a])
  BY <1>1, AncestorsOfChild
<1> QED
  BY <1>6, <1>7

LEMMA LeadsItself ==
  ASSUME NEW t, NEW r \in Node
  PROVE  Leads(t, r, r)
BY DEF Leads

LEMMA LeadsMore ==
  ASSUME NEW t, NEW u, Table!Edges(t) \subseteq Table!Edges(u), NEW r, NEW d, Leads(t, r, d)
  PROVE  Leads(u, r, d)
BY DEF Leads

\* The first edge of the way.
LEMMA LeadsOn ==
  ASSUME NEW t, Table!Edges(t) \subseteq Node \X Node,
         NEW r \in Node, NEW d \in Node, r # d, Leads(t, r, d)
  PROVE  \E c \in Node : <<r, c>> \in Table!Edges(t) /\ Leads(t, c, d)
<1> DEFINE S == {r} \cup { x \in Node : \E c \in Node : <<r, c>> \in Table!Edges(t) /\ Leads(t, c, x) }
<1>1. ASSUME NEW e \in Table!Edges(t), e[1] \in S PROVE e[2] \in S
  <2>1. e[1] \in Node /\ e[2] \in Node /\ e = <<e[1], e[2]>>
    OBVIOUS
  <2>2. CASE e[1] = r
    <3>1. <<r, e[2]>> \in Table!Edges(t) /\ Leads(t, e[2], e[2])
      BY <2>1, <2>2, LeadsItself
    <3> QED
      BY <2>1, <3>1
  <2>3. ASSUME NEW c \in Node, <<r, c>> \in Table!Edges(t), Leads(t, c, e[1]) PROVE e[2] \in S
    <3>1. Leads(t, c, e[2])
      BY <2>3 DEF Leads
    <3> QED
      BY <2>1, <2>3, <3>1
  <2> QED
    BY <1>1, <2>2, <2>3
<1>2. S \in SUBSET Node /\ r \in S
  OBVIOUS
<1> HIDE DEF S
<1>3. d \in S
  BY <1>1, <1>2 DEF Leads
<1> QED
  BY <1>3 DEF S

LEMMA ChildKnowsWay ==
  ASSUME Parents, Searched, Backed, NEW n \in Node, NEW c \in Node, NEW d \in Node,
         <<n, c>> \in Table!Edges(routing_tree[n]), Leads(routing_tree[n], c, d)
  PROVE  best_parent_id[c] = n /\ Leads(routing_tree[c], c, d)
<1>1. \A m \in Node : Table!Edges(routing_tree[m]) \subseteq Node \X Node
  BY DEF Searched
<1>2. \A m \in Node : \A e \in Table!Edges(routing_tree[m]) :
        /\ m \in Ancestors(e[1]) /\ best_parent_id[e[2]] = e[1]
        /\ \/ e[1] = m
           \/ \E b \in Node : best_parent_id[b] = m /\ e \in Table!Edges(routing_tree[b])
  BY DEF Backed
<1>3. best_parent_id[c] = n
  <2>1. <<n, c>>[1] = n /\ <<n, c>>[2] = c
    OBVIOUS
  <2> QED
    BY <1>2, <2>1
<1>4. c \in Ancestors(d)
  BY <1>1, <1>2, LeadsDown
<1> SUFFICES ASSUME NEW S \in SUBSET Node, c \in S,
                    \A e \in Table!Edges(routing_tree[c]) : e[1] \in S => e[2] \in S
             PROVE  d \in S
  BY <1>3 DEF Leads
<1> DEFINE T == { x \in Node : c \in Ancestors(x) => x \in S }
<1>5. ASSUME NEW e \in Table!Edges(routing_tree[n]), e[1] \in T PROVE e[2] \in T
  <2>1. /\ e[1] \in Node /\ e[2] \in Node /\ best_parent_id[e[2]] = e[1] /\ e[1] # NoNode
    BY <1>1, <1>2, Roots
  <2> SUFFICES ASSUME c \in Ancestors(e[2]) PROVE e[2] \in S
    BY <2>1
  <2>2. Ancestors(e[2]) = {e[2]} \cup Ancestors(e[1])
    BY <2>1, AncestorsOfChild
  <2>3. CASE c # e[2]
    <3>1. c \in Ancestors(e[1]) /\ e[1] \in S
      BY <1>5, <2>2, <2>3
    <3>2. e[1] # n
      BY <1>3, <3>1, Roots, AncestorsOfChild
    <3>3. PICK b \in Node : best_parent_id[b] = n /\ e \in Table!Edges(routing_tree[b])
      BY <1>2, <3>2
    <3>4. b \in Ancestors(e[1])
      BY <1>2, <3>3
    <3>5. b = c
      BY <1>3, <2>1, <3>1, <3>3, <3>4, Roots, BranchesMeetAtNoChild
    <3> QED
      BY <3>1, <3>3, <3>5
  <2> QED
    BY <2>3
<1>6. T \in SUBSET Node /\ c \in T
  OBVIOUS
<1> HIDE DEF T
<1>7. d \in T
  BY <1>5, <1>6 DEF Leads
<1> QED
  BY <1>4, <1>7 DEF T

\* A cycle would lead up the tree of parents.
LEMMA NoSearchDiverges ==
  ASSUME Parents, Searched, Backed
  PROVE  Table!SearchReturns
<1> SUFFICES ASSUME NEW n \in Node, NEW d \in Node,
                    Table!Search_forwarder(routing_tree[n], n, d) = Table!Diverges
             PROVE  FALSE
  BY DEF Table!SearchReturns
<1> DEFINE t == routing_tree[n]
<1>1. Table!Edges(t) \subseteq Node \X Node /\ \E e \in Table!Edges(t) : Leads(t, e[2], e[1])
  BY DEF Searched
<1>2. \A e \in Table!Edges(t) : best_parent_id[e[2]] = e[1]
  BY DEF Backed
<1>3. PICK e \in Table!Edges(t) : Leads(t, e[2], e[1])
  BY <1>1
<1>4. e[1] \in Node /\ e[2] \in Node /\ best_parent_id[e[2]] = e[1]
  BY <1>1, <1>2
<1>5. e[2] \in Ancestors(e[1])
  BY <1>1, <1>2, <1>3, <1>4, LeadsDown
<1> QED
  BY <1>4, <1>5, Roots, AncestorsOfChild

-----------------------------------------------------------------------------
(***************************************************************************)
(* The way of a packet.  As long as nothing reboots and parents stay, it   *)
(* goes up, and then down: the sink receives it at most once, so that no   *)
(* more packets are received than numbers up to seq_max were used.         *)
(***************************************************************************)
\* Packets are for the Destino, and no number is used twice.
Plain(s) == \A i \in DOMAIN s : s[i].dst = Destino /\ s[i].seq = s[i].nth

AllPlain == (\A n \in Node : Plain(pkt_list[n])) /\ \A s, r \in Node : Plain(data[s][r])

\* The table of n leads to the Destino.
Downward(n) ==
  \E c \in Node : <<n, c>> \in Table!Edges(routing_tree[n]) /\ Leads(routing_tree[n], c, Destino)

\* Packets are sent to the parent, or to a child that is the Destino or leads there.
Directed ==
  \A s, r \in Node : data[s][r] # << >> =>
    \/ best_parent_id[s] = r
    \/ best_parent_id[r] = s /\ Leads(routing_tree[r], r, Destino)

\* The k-th packet is on its way up, and the sink has not counted it.
Rising(k) ==
  \/ \E s, r \in Node : best_parent_id[s] = r /\ k \in Nths(data[s][r])
  \/ \E n \in Node \ {Root, Destino} : ~ Downward(n) /\ k \in Nths(pkt_list[n])

Passed == { k \in 1 .. pkt_stats.seq_max : ~ Rising(k) }

Flow ==
  /\ AllPlain /\ Directed
  /\ seq_num = generated /\ pkt_stats.seq_max =< seq_num
  /\ pkt_stats.received =< Cardinality(Passed)

LEMMA PlainFacts ==
  ASSUME NEW s \in Seq(Packet), Plain(s)
  PROVE  /\ s # << >> => /\ Head(s).dst = Destino /\ Head(s).seq = Head(s).nth
                         /\ Plain(Tail(s))
         /\ \A e \in Packet : e.dst = Destino /\ e.seq = e.nth => Plain(Cons(e, s))
         /\ \A t \in Seq(Packet) : Plain(t) => Plain(s \o t)
         /\ \A n \in Nat : Plain(Table!FirstFew(s, n))
<1>1. Len(s) \in Nat /\ DOMAIN s = 1 .. Len(s)
  OBVIOUS
<1>2. ASSUME s # << >>
      PROVE  Head(s).dst = Destino /\ Head(s).seq = Head(s).nth /\ Plain(Tail(s))
  <2>1. Head(s) = s[1] /\ 1 \in DOMAIN s
    BY <1>1, <1>2
  <2>2. /\ DOMAIN Tail(s) = 1 .. Len(s) - 1
        /\ \A i \in 1 .. Len(s) - 1 : Tail(s)[i] = s[i + 1] /\ i + 1 \in DOMAIN s
    BY <1>1, <1>2
  <2> QED
    BY <2>1, <2>2 DEF Plain
<1>3. ASSUME NEW e \in Packet, e.dst = Destino, e.seq = e.nth PROVE Plain(Cons(e, s))
  <2>1. /\ DOMAIN Cons(e, s) = 1 .. Len(s) + 1 /\ Cons(e, s)[1] = e
        /\ \A i \in 2 .. Len(s) + 1 : Cons(e, s)[i] = s[i - 1] /\ i - 1 \in DOMAIN s
    BY <1>1 DEF Cons
  <2>2. \A i \in 1 .. Len(s) + 1 : i = 1 \/ i \in 2 .. Len(s) + 1
    BY <1>1
  <2> QED
    BY <1>3, <2>1, <2>2 DEF Plain
<1>4. ASSUME NEW t \in Seq(Packet), Plain(t) PROVE Plain(s \o t)
  <2>1. Len(t) \in Nat /\ DOMAIN t = 1 .. Len(t)
    OBVIOUS
  <2>2. /\ DOMAIN (s \o t) = 1 .. Len(s) + Len(t)
        /\ \A i \in 1 .. Len(s) : (s \o t)[i] = s[i]
        /\ \A i \in Len(s) + 1 .. Len(s) + Len(t) :
             (s \o t)[i] = t[i - Len(s)] /\ i - Len(s) \in DOMAIN t
    BY <1>1, <2>1
  <2>3. \A i \in 1 .. Len(s) + Len(t) :
          i \in 1 .. Len(s) \/ i \in Len(s) + 1 .. Len(s) + Len(t)
    BY <1>1, <2>1
  <2> QED
    BY <1>1, <1>4, <2>2, <2>3 DEF Plain
<1>5. ASSUME NEW n \in Nat PROVE Plain(Table!FirstFew(s, n))
  <2>1. CASE Len(s) =< n
    BY <2>1 DEF Table!FirstFew
  <2>2. CASE ~ (Len(s) =< n)
    <3>1. Table!FirstFew(s, n) = [j \in 1 .. n |-> s[j]]
      BY <1>1, <2>2 DEF Table!FirstFew
    <3>2. \A j \in 1 .. n : j \in DOMAIN s
      BY <1>1, <2>2
    <3> QED
      BY <3>1, <3>2 DEF Plain
  <2> QED
    BY <2>1, <2>2
<1> QED
  BY <1>2, <1>3, <1>4, <1>5

LEMMA NthsOfNone == \A s : (Nths(s) # {} => s # << >>)
BY DEF Nths

\* A packet on a link is on no other, and in no list.
LEMMA Apart ==
  ASSUME Whole, NEW s \in Node, NEW r \in Node, NEW k \in Nths(data[s][r])
  PROVE  /\ \A t, q \in Node : k \in Nths(data[t][q]) => t = s /\ q = r
         /\ \A n \in Node : k \notin Nths(pkt_list[n])
<1>1. <<s, r>> \in Queue /\ k \in Nths(Holds(<<s, r>>))
  BY Names, HoldsValue
<1>2. ASSUME NEW p \in Queue, k \in Nths(Holds(p)) PROVE p = <<s, r>>
  BY <1>1, <1>2 DEF Whole, Unique
<1>3. ASSUME NEW t \in Node, NEW q \in Node, k \in Nths(data[t][q]) PROVE t = s /\ q = r
  <2>1. <<t, q>> \in Queue /\ k \in Nths(Holds(<<t, q>>))
    BY <1>3, Names, HoldsValue
  <2>2. <<t, q>> = <<s, r>>
    BY <1>2, <2>1
  <2> QED
    BY <2>2
<1>4. ASSUME NEW n \in Node, k \in Nths(pkt_list[n]) PROVE FALSE
  <2>1. <<n, NoNode>> \in Queue /\ k \in Nths(Holds(<<n, NoNode>>))
    BY <1>4, Names, HoldsValue
  <2>2. <<n, NoNode>> = <<s, r>>
    BY <1>2, <2>1
  <2> QED
    BY <2>2, HoldsValue
<1> QED
  BY <1>3, <1>4

\* The packet numbers in use.
LEMMA InUse ==
  ASSUME Whole, NEW k, Rising(k)
  PROVE  k \in 1 .. generated
<1>1. CASE \E s, r \in Node : best_parent_id[s] = r /\ k \in Nths(data[s][r])
  BY <1>1, Names, HoldsValue DEF Whole, Unique
<1>2. CASE \E n \in Node \ {Root, Destino} : ~ Downward(n) /\ k \in Nths(pkt_list[n])
  BY <1>2, Names, HoldsValue DEF Whole, Unique
<1> QED
  BY <1>1, <1>2 DEF Rising

\* Where the sink counts nothing, it is enough that no packet begins to rise
\* but a new one.
LEMMA CountStays ==
  ASSUME Whole, Flow, pkt_stats' = pkt_stats,
         \A k \in 1 .. generated : Rising(k)' => Rising(k)
  PROVE  pkt_stats'.received =< Cardinality(Passed')
<1>1. /\ pkt_stats.seq_max \in Nat /\ pkt_stats.received \in Nat
      /\ generated \in Nat /\ pkt_stats.seq_max =< generated
  BY DataConstants DEF Whole, Shapes, Counters, Flow
<1>2. Passed \subseteq Passed'
  BY <1>1 DEF Passed
<1>3. Passed' \subseteq 1 .. pkt_stats.seq_max
  BY DEF Passed
<1>4. IsFiniteSet(1 .. pkt_stats.seq_max)
  <2>1. 1 \in Int /\ pkt_stats.seq_max \in Int
    BY <1>1
  <2> QED
    BY <2>1, FS_Interval
<1>5. IsFiniteSet(Passed') /\ IsFiniteSet(Passed)
  BY <1>2, <1>3, <1>4, FS_Subset
<1>6. Cardinality(Passed) =< Cardinality(Passed')
  BY <1>2, <1>5, FS_Subset
<1>7. Cardinality(Passed) \in Nat /\ Cardinality(Passed') \in Nat
  BY <1>5, FS_CardinalityType
<1>8. pkt_stats.received =< Cardinality(Passed)
  BY DEF Flow
<1> QED
  BY <1>1, <1>6, <1>7, <1>8
\* The tables learn and a parent is found, the packets stay.
LEMMA TablesKeepFlow ==
  ASSUME Whole, Parents, Parents', Grows, Flow, UNCHANGED dataVars
  PROVE  Flow'
<1>1. /\ data' = data /\ pkt_list' = pkt_list /\ pkt_stats' = pkt_stats
      /\ seq_num' = seq_num /\ generated' = generated
  BY DEF dataVars
<1>2. ASSUME NEW s \in Node, NEW r \in Node, best_parent_id[r] = s PROVE best_parent_id'[r] = s
  BY <1>2, Roots DEF Grows
<1>3. ASSUME NEW n \in Node, NEW c, NEW d, Leads(routing_tree[n], c, d)
      PROVE  Leads(routing_tree'[n], c, d)
  BY <1>3, LeadsMore DEF Grows
<1>4. ASSUME NEW n \in Node, Downward(n) PROVE Downward(n)'
  BY <1>3, <1>4 DEF Downward, Grows
<1>5. Directed'
  BY <1>1, <1>2, <1>3 DEF Flow, Directed
<1>6. ASSUME NEW k, Rising(k)' PROVE Rising(k)
  <2>1. ASSUME NEW s \in Node, NEW r \in Node, best_parent_id'[s] = r, k \in Nths(data[s][r])
        PROVE  Rising(k)
    <3>1. best_parent_id[s] = r \/ best_parent_id[r] = s
      BY <2>1, NthsOfNone DEF Flow, Directed
    <3>2. best_parent_id[r] # s
      <4> SUFFICES ASSUME best_parent_id[r] = s PROVE FALSE
        OBVIOUS
      <4>1. best_parent_id'[r] = s /\ s # NoNode
        BY <1>2, Roots
      <4>2. PICK m \in {s, r} : best_parent_id'[m] \notin {s, r}
        <5>1. {s, r} \in (SUBSET Node) \ {{}}
          OBVIOUS
        <5> QED
          BY <5>1 DEF Parents, Table!IsTree
      <4> QED
        BY <2>1, <4>1, <4>2
    <3> QED
      BY <2>1, <3>1, <3>2 DEF Rising
  <2>2. ASSUME NEW n \in Node \ {Root, Destino}, ~ Downward(n)', k \in Nths(pkt_list[n])
        PROVE  Rising(k)
    BY <1>4, <2>2 DEF Rising
  <2> QED
    BY <1>1, <1>6, <2>1, <2>2 DEF Rising
<1>7. pkt_stats'.received =< Cardinality(Passed')
  BY <1>1, <1>6, CountStays
<1> QED
  BY <1>1, <1>5, <1>7 DEF Flow, AllPlain

\* The packets move, the tables stay.
LEMMA SameWays ==
  ASSUME UNCHANGED tableVars
  PROVE  /\ \A n : Downward(n)' <=> Downward(n)
         /\ best_parent_id' = best_parent_id /\ routing_tree' = routing_tree
BY DEF tableVars, Downward

LEMMA LoseKeepsFlow ==
  ASSUME Whole, Flow, NEW s \in Node, NEW r \in Node, LosePacket(s, r)
  PROVE  Flow'
<1>1. /\ data[s][r] # << >>
      /\ data' = [data EXCEPT ![s][r] = Tail(@)]
      /\ UNCHANGED <<tableVars, pkt_list, pkt_stats, seq_num, generated>>
  BY DEF LosePacket
<1>2. /\ data'[s][r] = Tail(data[s][r])
      /\ \A t, q \in Node : ~ (t = s /\ q = r) => data'[t][q] = data[t][q]
  BY <1>1, TakenOff DEF Whole, Shapes
<1>3. data[s][r] \in Seq(Packet) /\ Plain(data[s][r])
  BY DEF Whole, Shapes, Links, Flow, AllPlain
<1>4. Plain(Tail(data[s][r])) /\ Nths(Tail(data[s][r])) \subseteq Nths(data[s][r])
  BY <1>1, <1>3, PlainFacts, TailFacts
<1>5. ASSUME NEW t \in Node, NEW q \in Node
      PROVE  /\ Plain(data'[t][q]) /\ Nths(data'[t][q]) \subseteq Nths(data[t][q])
             /\ data'[t][q] # << >> => data[t][q] # << >>
  <2>1. CASE t = s /\ q = r
    BY <1>1, <1>2, <1>4, <2>1
  <2>2. CASE ~ (t = s /\ q = r)
    <3>1. data'[t][q] = data[t][q] /\ Plain(data[t][q])
      BY <1>2, <2>2 DEF Flow, AllPlain
    <3> QED
      BY <3>1
  <2> QED
    BY <2>1, <2>2
<1>6. AllPlain' /\ Directed'
  BY <1>1, <1>5, SameWays DEF Flow, AllPlain, Directed
<1>7. ASSUME NEW k, Rising(k)' PROVE Rising(k)
  BY <1>1, <1>5, <1>7, SameWays DEF Rising
<1>8. pkt_stats'.received =< Cardinality(Passed')
  BY <1>1, <1>7, CountStays
<1> QED
  BY <1>1, <1>6, <1>8 DEF Flow

LEMMA GenerateKeepsFlow ==
  ASSUME IInv, Whole, Flow, generate_pkt_dst
  PROVE  Flow'
<1> DEFINE k == generated + 1
           pkt == [dst |-> Destino, seq |-> seq_num + 1, nth |-> k]
<1>1. /\ generated < MaxPackets /\ generated' = k /\ seq_num' = seq_num + 1
      /\ Enqueue(Origen, pkt) /\ UNCHANGED <<tableVars, data, pkt_stats>>
  BY DEF generate_pkt_dst
<1>2. /\ generated \in 0 .. MaxPackets /\ seq_num = generated /\ MaxPackets \in Nat
      /\ pkt_stats.seq_max \in Nat
  BY DataConstants DEF Whole, Shapes, Counters, Flow
<1>3. k \in 1 .. MaxPackets /\ k \notin 1 .. generated /\ pkt_stats.seq_max =< seq_num'
  BY <1>1, <1>2 DEF Flow
<1>4. pkt \in Packet /\ pkt.nth = k /\ pkt.seq = k /\ pkt.dst = Destino
  BY <1>2, <1>3, DataConstants DEF Packet
<1> HIDE DEF pkt
<1>5. /\ \A m \in Node : m # Origen => pkt_list'[m] = pkt_list[m]
      /\ pkt_list'[Origen] = pkt_list[Origen] \/ pkt_list'[Origen] = Cons(pkt, pkt_list[Origen])
  BY <1>1, <1>4, DataConstants, EnqueueShapes DEF Whole, Shapes, tableVars
<1>6. pkt_list[Origen] \in Seq(Packet) /\ Plain(pkt_list[Origen])
  BY DataConstants DEF Whole, Shapes, Lists, Flow, AllPlain
<1>7. /\ Nths(Cons(pkt, pkt_list[Origen])) = Nths(pkt_list[Origen]) \cup {k}
      /\ Plain(Cons(pkt, pkt_list[Origen]))
  BY <1>4, <1>6, ConsFacts, PlainFacts
<1>8. ASSUME NEW m \in Node
      PROVE  Plain(pkt_list'[m]) /\ Nths(pkt_list'[m]) \subseteq Nths(pkt_list[m]) \cup {k}
  <2>1. CASE m = Origen
    BY <1>5, <1>6, <1>7, <2>1
  <2>2. CASE m # Origen
    BY <1>5, <2>2 DEF Flow, AllPlain
  <2> QED
    BY <2>1, <2>2
<1> HIDE DEF k
<1>9. AllPlain' /\ Directed'
  BY <1>1, <1>8, SameWays DEF Flow, AllPlain, Directed
<1>10. ASSUME NEW j \in 1 .. generated, Rising(j)' PROVE Rising(j)
  <2>1. j # k
    BY <1>3
  <2> QED
    BY <1>1, <1>8, <1>10, <2>1, SameWays DEF Rising
<1>11. pkt_stats'.received =< Cardinality(Passed')
  BY <1>1, <1>10, CountStays
<1>12. seq_num' = generated' /\ pkt_stats'.seq_max =< seq_num'
  BY <1>1, <1>2, <1>3 DEF k
<1> QED
  BY <1>9, <1>11, <1>12 DEF Flow
\* Only the sink counts, and what it receives was rising.
LEMMA ReceiveKeepsFlow ==
  ASSUME IInv, Whole, Parents, Searched, Flow, NEW n \in Node, NEW s \in Node, recv_uc_data(n, s)
  PROVE  Flow'
<1> DEFINE pkt == Head(data[s][n])
<1>0. PICK k : k = pkt.nth
  OBVIOUS
<1>1. /\ data[s][n] # << >>
      /\ data' = [data EXCEPT ![s][n] = Tail(@)]
      /\ pkt_stats' = IF n = Root THEN Counted(pkt.seq) ELSE pkt_stats
      /\ Enqueue(n, pkt) /\ posted' = posted
      /\ UNCHANGED <<tableVars, seq_num, generated>>
  BY DEF recv_uc_data, tableVars
<1>2. /\ data'[s][n] = Tail(data[s][n])
      /\ \A t, q \in Node : ~ (t = s /\ q = n) => data'[t][q] = data[t][q]
      /\ pkt \in Packet
  BY <1>1, TakenOff DEF Whole, Shapes
<1>3. /\ \A m \in Node : m # n => pkt_list'[m] = pkt_list[m]
      /\ pkt_list'[n] = pkt_list[n] \/ pkt_list'[n] = Cons(pkt, pkt_list[n])
  BY <1>1, <1>2, EnqueueShapes DEF Whole, Shapes
<1>4. /\ data[s][n] \in Seq(Packet) /\ Plain(data[s][n])
      /\ pkt_list[n] \in Seq(Packet) /\ Plain(pkt_list[n])
      /\ Once(data[s][n])
  BY Names, HoldsValue DEF Whole, Shapes, Links, Lists, Flow, AllPlain, Unique
<1>5. /\ pkt.dst = Destino /\ pkt.seq = k /\ k \in Nths(data[s][n])
      /\ Plain(Tail(data[s][n]))
      /\ Nths(Tail(data[s][n])) \subseteq Nths(data[s][n]) /\ k \notin Nths(Tail(data[s][n]))
  BY <1>0, <1>1, <1>4, PlainFacts, TailFacts
<1> HIDE DEF pkt
<1>6. Plain(Cons(pkt, pkt_list[n])) /\ Nths(Cons(pkt, pkt_list[n])) = Nths(pkt_list[n]) \cup {k}
  BY <1>0, <1>2, <1>4, <1>5, PlainFacts, ConsFacts
<1>7. ASSUME NEW t \in Node, NEW q \in Node
      PROVE  /\ Plain(data'[t][q]) /\ Nths(data'[t][q]) \subseteq Nths(data[t][q])
             /\ data'[t][q] # << >> => data[t][q] # << >>
  <2>1. CASE t = s /\ q = n
    BY <1>1, <1>2, <1>5, <2>1
  <2>2. CASE ~ (t = s /\ q = n)
    <3>1. data'[t][q] = data[t][q] /\ Plain(data[t][q])
      BY <1>2, <2>2 DEF Flow, AllPlain
    <3> QED
      BY <3>1
  <2> QED
    BY <2>1, <2>2
<1>8. ASSUME NEW m \in Node
      PROVE  /\ Plain(pkt_list'[m])
             /\ m # n => Nths(pkt_list'[m]) = Nths(pkt_list[m])
             /\ Nths(pkt_list'[m]) \subseteq Nths(pkt_list[m]) \cup {k}
  <2>1. CASE m = n
    BY <1>3, <1>4, <1>6, <2>1
  <2>2. CASE m # n
    BY <1>3, <2>2 DEF Flow, AllPlain
  <2> QED
    BY <2>1, <2>2
<1>9. AllPlain' /\ Directed'
  BY <1>1, <1>7, <1>8, SameWays DEF Flow, AllPlain, Directed
<1>10. ASSUME n # Destino, ~ Downward(n) PROVE Rising(k)
  <2>1. ~ Leads(routing_tree[n], n, Destino)
    <3>1. Table!Edges(routing_tree[n]) \subseteq Node \X Node
      BY DataConstants DEF Searched
    <3> QED
      BY <1>10, <3>1, LeadsOn, DataConstants DEF Downward
  <2>2. best_parent_id[s] = n
    BY <1>1, <2>1 DEF Flow, Directed
  <2> QED
    BY <1>5, <2>2 DEF Rising
<1>11. ASSUME NEW j, Rising(j)' PROVE Rising(j)
  <2>1. CASE \E t, q \in Node : best_parent_id[t] = q /\ j \in Nths(data'[t][q])
    BY <1>7, <2>1 DEF Rising
  <2>2. ASSUME NEW m \in Node \ {Root, Destino}, ~ Downward(m), j \in Nths(pkt_list'[m])
        PROVE  Rising(j)
    <3>1. CASE j \in Nths(pkt_list[m])
      BY <2>2, <3>1 DEF Rising
    <3>2. CASE j \notin Nths(pkt_list[m])
      <4>1. m = n /\ j = k
        BY <1>8, <2>2, <3>2
      <4> QED
        BY <1>10, <2>2, <4>1
    <3> QED
      BY <3>1, <3>2
  <2> QED
    BY <1>1, <1>11, <2>1, <2>2, SameWays DEF Rising
<1>12. CASE n # Root
  <2>1. pkt_stats' = pkt_stats
    BY <1>1, <1>12
  <2>2. pkt_stats'.received =< Cardinality(Passed')
    BY <1>11, <2>1, CountStays
  <2> QED
    BY <1>1, <1>9, <2>1, <2>2 DEF Flow
<1>13. CASE n = Root
  <2> DEFINE max == pkt_stats.seq_max
             max1 == pkt_stats'.seq_max
  <2>1. /\ max \in Nat /\ pkt_stats.received \in Nat /\ CounterSize \in Nat /\ CounterSize > 0
        /\ generated \in Nat /\ seq_num = generated /\ max =< seq_num
        /\ pkt_stats.received =< Cardinality(Passed)
    BY DataConstants DEF Whole, Shapes, Counters, Flow
  <2>2. k \in 1 .. generated
    BY <1>5, Names, HoldsValue DEF Whole, Unique
  <2>3. /\ pkt_stats' = Counted(k)
        /\ max1 = (IF k > max THEN k ELSE max)
        /\ pkt_stats'.received = (pkt_stats.received + 1) % CounterSize
    BY <1>1, <1>5, <1>13 DEF Counted
  <2>4. /\ max1 \in Nat /\ max =< max1 /\ k =< max1 /\ max1 =< generated
        /\ pkt_stats'.received =< pkt_stats.received + 1 /\ pkt_stats'.received \in Nat
    BY <2>1, <2>2, <2>3
  <2>5. Rising(k)
    <3>1. best_parent_id[n] # s
      BY <1>13, Roots DEF Parents
    <3>2. best_parent_id[s] = n
      BY <1>1, <3>1 DEF Flow, Directed
    <3> QED
      BY <1>5, <3>2 DEF Rising
  <2>6. ~ Rising(k)'
    <3> SUFFICES ASSUME Rising(k)' PROVE FALSE
      OBVIOUS
    <3>1. /\ \A t, q \in Node : k \in Nths(data[t][q]) => t = s /\ q = n
          /\ \A m \in Node : k \notin Nths(pkt_list[m])
      BY <1>5, Apart
    <3>2. ASSUME NEW t \in Node, NEW q \in Node, k \in Nths(data'[t][q]) PROVE FALSE
      <4>1. t = s /\ q = n
        BY <1>7, <3>1, <3>2
      <4> QED
        BY <1>2, <1>5, <3>2, <4>1
    <3>3. ASSUME NEW m \in Node \ {Root, Destino}, k \in Nths(pkt_list'[m]) PROVE FALSE
      <4>1. Nths(pkt_list'[m]) = Nths(pkt_list[m])
        BY <1>8, <1>13, <3>3
      <4> QED
        BY <3>1, <3>3, <4>1
    <3> QED
      BY <3>2, <3>3 DEF Rising
  <2>7. Passed' \subseteq 1 .. max1 /\ Passed \subseteq Passed' \ {k} /\ k \in Passed'
    <3>1. \A j \in 1 .. max : j \in 1 .. max1
      BY <2>1, <2>4
    <3>2. k \in 1 .. max1
      BY <2>2, <2>4
    <3> QED
      BY <1>11, <2>5, <2>6, <3>1, <3>2 DEF Passed
  <2>8. IsFiniteSet(1 .. max1)
    <3>1. 1 \in Int /\ max1 \in Int
      BY <2>4
    <3> HIDE DEF max1
    <3> QED
      BY <3>1, FS_Interval
  <2>9. IsFiniteSet(Passed') /\ IsFiniteSet(Passed' \ {k}) /\ IsFiniteSet(Passed)
    BY <2>7, <2>8, FS_Subset
  <2>10. /\ Cardinality(Passed) =< Cardinality(Passed' \ {k})
         /\ Cardinality(Passed' \ {k}) = Cardinality(Passed') - 1
    BY <2>7, <2>9, FS_Subset, FS_RemoveElement
  <2>11. /\ Cardinality(Passed) \in Nat /\ Cardinality(Passed') \in Nat
         /\ Cardinality(Passed' \ {k}) \in Nat
    BY <2>9, FS_CardinalityType
  <2>12. pkt_stats'.received =< Cardinality(Passed')
    BY <2>1, <2>4, <2>10, <2>11
  <2>13. seq_num' = generated' /\ pkt_stats'.seq_max =< seq_num'
    BY <1>1, <2>1, <2>4
  <2> QED
    BY <1>9, <2>12, <2>13 DEF Flow
<1> QED
  BY <1>12, <1>13
\* What a mote takes up it cannot take down, and what it takes down will not
\* come up again.
LEMMA HopsAreDirected ==
  ASSUME Parents, Searched, Backed, NEW n \in Node, NEW r \in Node, r # n, NextHop(n, Destino) = r
  PROVE  /\ n # Destino
         /\ \/ best_parent_id[n] = r /\ ~ Downward(n)
            \/ best_parent_id[r] = n /\ Leads(routing_tree[r], r, Destino)
<1> DEFINE t == routing_tree[n]
           next == Table!Search_forwarder(t, n, Destino)
<1>1. /\ next \in Node \cup {Table!Upstream, Table!Diverges}
      /\ next \in Node => <<n, next>> \in Table!Edges(t) /\ Leads(t, next, Destino)
      /\ next = Table!Upstream =>
           \A c \in Node : <<n, c>> \in Table!Edges(t) => ~ Leads(t, c, Destino)
  BY DataConstants DEF Searched
<1>2. n # Destino /\ r = IF next # Table!Upstream THEN next ELSE best_parent_id[n]
  BY DEF NextHop
<1>3. CASE next = Table!Upstream
  BY <1>1, <1>2, <1>3 DEF Downward
<1>4. CASE next # Table!Upstream
  <2>1. next = r
    BY <1>2, <1>4
  <2>2. <<n, r>> \in Table!Edges(t) /\ Leads(t, r, Destino)
    BY <1>1, <2>1
  <2> QED
    BY <1>2, <2>2, ChildKnowsWay, DataConstants
<1> QED
  BY <1>3, <1>4

LEMMA SearchedHops == Parents /\ Searched => HopsAreMotes
<1> SUFFICES ASSUME Parents, Searched, NEW n \in Node, NEW d \in Node,
                    NextHop(n, d) # Table!Diverges
             PROVE  NextHop(n, d) \in Target
  BY DEF HopsAreMotes
<1> DEFINE next == Table!Search_forwarder(routing_tree[n], n, d)
<1>1. next \in Node \cup {Table!Upstream, Table!Diverges} /\ best_parent_id[n] \in Target
  BY DEF Searched, Parents
<1> HIDE DEF next
<1>2. NextHop(n, d) = IF n = d THEN n ELSE IF next # Table!Upstream THEN next ELSE best_parent_id[n]
  BY DEF NextHop, next
<1> QED
  BY <1>1, <1>2 DEF Target

\* The loop takes every packet up or down.
LEMMA DrainKeepsFlow ==
  ASSUME IInv, Whole, Parents, Searched, Backed, Flow,
         NEW n \in Node, routing_upstream_downstream(n)
  PROVE  Flow'
<1> DEFINE list == pkt_list[n]
           to == Routed(n)
           link(r) == IF r = n THEN << >> ELSE Table!FirstFew(data[n][r] \o to[r], MaxInFlight)
<1>1. /\ \A i \in DOMAIN list : NextHop(n, list[i].dst) # Table!Diverges
      /\ pkt_list' = [pkt_list EXCEPT ![n] = << >>]
      /\ data' = [data EXCEPT ![n] = [r \in Node |-> link(r)]]
      /\ UNCHANGED <<tableVars, seq_num, pkt_stats, generated>>
  BY DEF routing_upstream_downstream, Drain
<1>2. /\ list \in Seq(Packet) /\ Plain(list) /\ Once(list)
      /\ \A r \in Node : data[n][r] \in Seq(Packet) /\ Plain(data[n][r])
      /\ pkt_list \in [Node -> Seq(Packet)] /\ data \in [Node -> [Node -> Seq(Packet)]]
  BY Names, HoldsValue DEF Whole, Shapes, Links, Lists, Unique, Flow, AllPlain
<1>3. to \in Sorted(list, n, Len(list))
  BY <1>1, <1>2, SearchedHops, RoutedValue
<1> HIDE DEF list, to
<1>4. ASSUME NEW r \in Node
      PROVE  /\ to[r] \in Seq(Packet) /\ Plain(to[r]) /\ Nths(to[r]) \subseteq Nths(list)
             /\ to[r] # << >> => NextHop(n, Destino) = r
  <2>1. r \in Target
    BY DEF Target
  <2>2. to[r] \in Seq(Packet) /\ Nths(to[r]) \subseteq Nths(list)
    BY <1>2, <1>3, <2>1, SortedFacts
  <2>3. \A m \in DOMAIN to[r] : \E j \in DOMAIN list :
          to[r][m] = list[j] /\ NextHop(n, list[j].dst) = r
    <3>1. DOMAIN list = 1 .. Len(list)
      BY <1>2
    <3> QED
      BY <1>3, <2>1, <3>1 DEF Sorted
  <2>4. ASSUME NEW m \in DOMAIN to[r]
        PROVE  /\ to[r][m].dst = Destino /\ to[r][m].seq = to[r][m].nth
               /\ NextHop(n, Destino) = r
    <3>1. PICK j \in DOMAIN list : to[r][m] = list[j] /\ NextHop(n, list[j].dst) = r
      BY <2>3
    <3>2. list[j].dst = Destino /\ list[j].seq = list[j].nth
      BY <1>2 DEF Plain
    <3> QED
      BY <3>1, <3>2
  <2>5. Plain(to[r])
    BY <2>4 DEF Plain
  <2>6. to[r] # << >> => 1 \in DOMAIN to[r]
    BY <2>2
  <2> QED
    BY <2>2, <2>4, <2>5, <2>6
<1>5. ASSUME NEW r \in Node
      PROVE  /\ Plain(link(r)) /\ Nths(link(r)) \subseteq Nths(data[n][r]) \cup Nths(to[r])
             /\ link(r) # << >> => r # n /\ (data[n][r] # << >> \/ to[r] # << >>)
  <2>1. CASE r = n
    BY <2>1, EmptyFacts DEF Plain
  <2>2. CASE r # n
    <3> DEFINE queue == data[n][r] \o to[r]
    <3>1. /\ queue \in Seq(Packet) /\ Plain(queue)
          /\ Nths(queue) = Nths(data[n][r]) \cup Nths(to[r])
      BY <1>2, <1>4, ConcatFacts, PlainFacts
    <3>2. data[n][r] = << >> /\ to[r] = << >> => queue = << >>
      OBVIOUS
    <3>3. link(r) = Table!FirstFew(queue, MaxInFlight)
      BY <2>2
    <3> HIDE DEF queue, link
    <3>4. /\ Plain(link(r)) /\ Nths(link(r)) \subseteq Nths(queue)
      BY <3>1, <3>3, FirstFewFacts, PlainFacts, DataConstants
    <3>5. queue = << >> => link(r) = << >>
      <4> SUFFICES ASSUME queue = << >> PROVE Table!FirstFew(queue, MaxInFlight) = << >>
        BY <3>3
      <4>1. Len(queue) =< MaxInFlight
        BY DataConstants, EmptyFacts
      <4> QED
        BY <4>1 DEF Table!FirstFew
    <3> QED
      BY <2>2, <3>1, <3>2, <3>4, <3>5
  <2> QED
    BY <2>1, <2>2
<1> HIDE DEF link
<1>6. /\ \A r \in Node : data'[n][r] = link(r)
      /\ \A s \in Node : s # n => data'[s] = data[s]
      /\ pkt_list'[n] = << >> /\ \A m \in Node : m # n => pkt_list'[m] = pkt_list[m]
  BY <1>1, <1>2
<1>7. AllPlain'
  <2>1. ASSUME NEW m \in Node PROVE Plain(pkt_list'[m])
    <3>1. CASE m = n
      BY <1>6, <3>1 DEF Plain
    <3>2. CASE m # n
      BY <1>6, <3>2 DEF Flow, AllPlain
    <3> QED
      BY <3>1, <3>2
  <2>2. ASSUME NEW s \in Node, NEW r \in Node PROVE Plain(data'[s][r])
    <3>1. CASE s = n
      BY <1>5, <1>6, <3>1
    <3>2. CASE s # n
      BY <1>6, <3>2 DEF Flow, AllPlain
    <3> QED
      BY <3>1, <3>2
  <2> QED
    BY <2>1, <2>2 DEF AllPlain
<1>8. ASSUME NEW r \in Node, link(r) # << >>, data[n][r] = << >>
      PROVE  /\ n # Destino
             /\ \/ best_parent_id[n] = r /\ ~ Downward(n)
                \/ best_parent_id[r] = n /\ Leads(routing_tree[r], r, Destino)
  BY <1>4, <1>5, <1>8, HopsAreDirected
<1>9. ASSUME NEW s \in Node, NEW r \in Node, data'[s][r] # << >>
      PROVE  \/ best_parent_id[s] = r
             \/ best_parent_id[r] = s /\ Leads(routing_tree[r], r, Destino)
  <2>1. CASE s = n
    <3>1. link(r) # << >>
      BY <1>6, <1>9, <2>1
    <3>2. CASE data[n][r] = << >>
      BY <1>8, <2>1, <3>1, <3>2
    <3>3. CASE data[n][r] # << >>
      BY <2>1, <3>3 DEF Flow, Directed
    <3> QED
      BY <3>2, <3>3
  <2>2. CASE s # n
    BY <1>6, <1>9, <2>2 DEF Flow, Directed
  <2> QED
    BY <2>1, <2>2
<1>10. Directed'
  BY <1>1, <1>9, SameWays DEF Directed
<1>11. ASSUME NEW k, Rising(k)' PROVE Rising(k)
  <2>1. ASSUME NEW s \in Node, NEW r \in Node, best_parent_id[s] = r, k \in Nths(data'[s][r])
        PROVE  Rising(k)
    <3>1. CASE s # n \/ k \in Nths(data[n][r])
      BY <1>6, <2>1, <3>1 DEF Rising
    <3>2. CASE s = n /\ k \notin Nths(data[n][r])
      <4>1. k \in Nths(to[r]) /\ link(r) # << >>
        BY <1>5, <1>6, <2>1, <3>2, NthsOfNone
      <4>2. NextHop(n, Destino) = r /\ r # n /\ k \in Nths(list)
        BY <1>4, <1>5, <4>1, NthsOfNone
      <4>3. n # Root
        BY <2>1, <3>2, Roots DEF Parents
      <4>4. best_parent_id[r] # n
        <5> SUFFICES ASSUME best_parent_id[r] = n PROVE FALSE
          OBVIOUS
        <5>1. PICK m \in {n, r} : best_parent_id[m] \notin {n, r}
          <6>1. {n, r} \in (SUBSET Node) \ {{}}
            OBVIOUS
          <6> QED
            BY <6>1 DEF Parents, Table!IsTree
        <5> QED
          BY <2>1, <3>2, <5>1
      <4>5. n # Destino /\ ~ Downward(n)
        BY <4>2, <4>4, HopsAreDirected
      <4> QED
        BY <4>2, <4>3, <4>5 DEF Rising, list
    <3> QED
      BY <3>1, <3>2
  <2>2. ASSUME NEW m \in Node \ {Root, Destino}, ~ Downward(m), k \in Nths(pkt_list'[m])
        PROVE  Rising(k)
    <3>1. m # n
      BY <1>6, <2>2, EmptyFacts
    <3> QED
      BY <1>6, <2>2, <3>1 DEF Rising
  <2> QED
    BY <1>1, <1>11, <2>1, <2>2, SameWays DEF Rising
<1>12. pkt_stats'.received =< Cardinality(Passed')
  BY <1>1, <1>11, CountStays
<1> QED
  BY <1>1, <1>7, <1>10, <1>12 DEF Flow
LEMMA InitFlow == Init => Flow
<1> SUFFICES ASSUME Init PROVE Flow
  OBVIOUS
<1>1. /\ \A n \in Node : pkt_list[n] = << >>
      /\ \A s, r \in Node : data[s][r] = << >>
      /\ seq_num = 0 /\ generated = 0 /\ pkt_stats = NoStats
  BY DEF Init
<1>2. AllPlain /\ Directed
  BY <1>1 DEF AllPlain, Directed, Plain
<1>3. pkt_stats.seq_max = 0 /\ pkt_stats.received = 0
  BY <1>1 DEF NoStats
<1>4. Passed = {}
  BY <1>3 DEF Passed
<1>5. Cardinality(Passed) = 0
  BY <1>4, FS_EmptySet
<1> QED
  BY <1>1, <1>2, <1>3, <1>5 DEF Flow

LEMMA FlowNext ==
  ASSUME IInv, Whole, Parents, Parents', Searched, Backed, Grows, Flow,
         changes \in Nat, changes' = 0, [Next]_vars
  PROVE  Flow'
<1>1. CASE generate_pkt_dst
  BY <1>1, GenerateKeepsFlow
<1>2. ASSUME NEW n \in Node, NEW s \in Node, recv_uc_data(n, s) PROVE Flow'
  BY <1>2, ReceiveKeepsFlow
<1>3. ASSUME NEW n \in Node, routing_upstream_downstream(n) PROVE Flow'
  BY <1>3, DrainKeepsFlow
<1>4. ASSUME NEW s \in Node, NEW r \in Node, LosePacket(s, r) PROVE Flow'
  BY <1>4, LoseKeepsFlow
<1>5. ASSUME NEW n \in Node, RebootMote(n) PROVE FALSE
  <2>1. changes' = changes + 1
    BY <1>5 DEF RebootMote, Table!Reboot
  <2> QED
    BY <2>1
<1>6. ASSUME NEW n \in Node, DropParent(n) PROVE FALSE
  <2>1. changes' = changes + 1
    BY <1>6 DEF DropParent, Table!LoseParent
  <2> QED
    BY <2>1
<1>7. ASSUME UNCHANGED dataVars PROVE Flow'
  BY <1>7, TablesKeepFlow
<1>8. ASSUME NEW n \in Node, NEW s \in Node, recv_uc_control(n, s) PROVE Flow'
  BY <1>7, <1>8 DEF recv_uc_control
<1>9. ASSUME NEW n \in Node, NEW p \in Candidates[n], TakeParent(n, p) PROVE Flow'
  BY <1>7, <1>9 DEF TakeParent
<1>10. ASSUME NEW n \in Node, send_table(n) PROVE Flow'
  BY <1>7, <1>10 DEF send_table
<1>11. ASSUME NEW n \in Node, update_table(n) PROVE Flow'
  BY <1>7, <1>11 DEF update_table
<1>12. CASE UNCHANGED vars
  BY <1>7, <1>12 DEF vars
<1> QED
  BY <1>1, <1>2, <1>3, <1>4, <1>5, <1>6, <1>8, <1>9, <1>10, <1>11, <1>12 DEF Next

\* Each number up to seq_max is received at most once.
LEMMA FlowCounts ==
  ASSUME Whole, Flow
  PROVE  pkt_stats.received =< pkt_stats.seq_max /\ pkt_stats.seq_max =< seq_num
<1> DEFINE max == pkt_stats.seq_max
<1>1. max \in Nat /\ pkt_stats.received \in Nat
  BY DataConstants DEF Whole, Shapes, Counters
<1>2. Passed \subseteq 1 .. max
  BY DEF Passed
<1>3. pkt_stats.received =< Cardinality(Passed) /\ max =< seq_num
  BY DEF Flow
<1> HIDE DEF max
<1>4. IsFiniteSet(1 .. max) /\ Cardinality(1 .. max) = max
  <2>1. 1 \in Int /\ max \in Int
    BY <1>1
  <2>2. IsFiniteSet(1 .. max) /\ Cardinality(1 .. max) = IF 1 > max THEN 0 ELSE max - 1 + 1
    BY <2>1, FS_Interval
  <2> QED
    BY <1>1, <2>2
<1>5. Cardinality(Passed) =< Cardinality(1 .. max) /\ Cardinality(Passed) \in Nat
  BY <1>2, <1>4, FS_Subset, FS_CardinalityType
<1> QED
  BY <1>1, <1>3, <1>4, <1>5 DEF max

-----------------------------------------------------------------------------
(***************************************************************************)
(* The actions of the tables are those of RoutingTable.                    *)
(***************************************************************************)
\* What is proved of the routing tables alone, action by action.
Facts == INSTANCE RoutingTable_proofs

LEMMA TableConstants == Facts!TreeLibAssumption /\ Facts!RoutingAssumption
BY TableAssumption DEF Table!TreeLibAssumption, Table!RoutingAssumption,
                       Facts!TreeLibAssumption, Facts!RoutingAssumption

LEMMA SameOperators ==
  /\ \A t : Table!IsTable(t) <=> Facts!IsTable(t)
  /\ \A n : Table!BootTree(n) = Facts!BootTree(n)
  /\ \A t, n, d : Table!Search_forwarder(t, n, d) = Facts!Search_forwarder(t, n, d)
  /\ Table!Upstream = Facts!Upstream /\ Table!Diverges = Facts!Diverges
  /\ \A t : Table!Edges(t) = Facts!Edges(t)
  /\ \A t, r, d : Leads(t, r, d) <=> Facts!Reachable(t, r, d)
<1>1. ASSUME NEW t PROVE Table!IsTable(t) <=> Facts!IsTable(t)
  BY DEF Table!IsTable, Facts!IsTable
<1>2. ASSUME NEW n PROVE Table!BootTree(n) = Facts!BootTree(n)
  BY DEF Table!BootTree, Facts!BootTree
<1>3. ASSUME NEW t, NEW n, NEW d
      PROVE  Table!Search_forwarder(t, n, d) = Facts!Search_forwarder(t, n, d)
  <2>1. ASSUME NEW id PROVE Table!Index(t, id) = Facts!Index(t, id)
    BY DEF Table!Index, Facts!Index, Table!SelectInSeq, Facts!SelectInSeq, Table!Min, Facts!Min
  <2>2. ASSUME NEW s PROVE Table!FirstDecisive(s) = Facts!FirstDecisive(s)
    BY DEF Table!FirstDecisive, Facts!FirstDecisive, Table!SelectInSeq, Facts!SelectInSeq,
           Table!Min, Facts!Min
  <2>3. ASSUME NEW r PROVE Table!find_in_subtree(t, r, d) = Facts!find_in_subtree(t, r, d)
    BY DEF Table!find_in_subtree, Facts!find_in_subtree, Table!ToSet, Facts!ToSet,
           Table!Outcome, Facts!Outcome, Table!FirstDecisive, Facts!FirstDecisive,
           Table!Index, Facts!Index, Table!SelectInSeq, Facts!SelectInSeq, Table!Min, Facts!Min
  <2> QED
    BY <2>1, <2>2, <2>3 DEF Table!Search_forwarder, Facts!Search_forwarder,
       Table!Upstream, Facts!Upstream, Table!Diverges, Facts!Diverges
<1>4. ASSUME NEW t PROVE Table!Edges(t) = Facts!Edges(t)
  BY DEF Table!Edges, Facts!Edges, Table!ToSet, Facts!ToSet
<1>5. ASSUME NEW t, NEW r, NEW d PROVE Leads(t, r, d) <=> Facts!Reachable(t, r, d)
  BY <1>4 DEF Leads, Facts!Reachable
<1>6. Table!Upstream = Facts!Upstream /\ Table!Diverges = Facts!Diverges
  BY DEF Table!Upstream, Facts!Upstream, Table!Diverges, Facts!Diverges
<1> QED
  BY <1>1, <1>2, <1>3, <1>4, <1>5, <1>6

LEMMA SameActions ==
  /\ Table!Init <=> Facts!Init
  /\ \A n, p : Table!ChooseParent(n, p) <=> Facts!ChooseParent(n, p)
  /\ \A n : Table!LoseParent(n) <=> Facts!LoseParent(n)
  /\ \A n : Table!Reboot(n) <=> Facts!Reboot(n)
  /\ \A n : Table!send_routing_table(n) <=> Facts!send_routing_table(n)
  /\ \A n, s, full : Table!recv_uc(n, s, full) <=> Facts!recv_uc(n, s, full)
  /\ \A n : Table!update_routing_table(n) <=> Facts!update_routing_table(n)
<1>1. Table!Init <=> Facts!Init
  BY DEF Table!Init, Facts!Init, Table!BootTree, Facts!BootTree
<1>2. ASSUME NEW n, NEW p PROVE Table!ChooseParent(n, p) <=> Facts!ChooseParent(n, p)
  BY DEF Table!ChooseParent, Facts!ChooseParent, Table!IsTree, Facts!IsTree
<1>3. ASSUME NEW n PROVE Table!LoseParent(n) <=> Facts!LoseParent(n)
  BY DEF Table!LoseParent, Facts!LoseParent
<1>4. ASSUME NEW n PROVE Table!Reboot(n) <=> Facts!Reboot(n)
  BY DEF Table!Reboot, Facts!Reboot, Table!BootTree, Facts!BootTree
<1>5. ASSUME NEW n PROVE Table!send_routing_table(n) <=> Facts!send_routing_table(n)
  <2>1. Table!Report(n) = Facts!Report(n)
    BY DEF Table!Report, Facts!Report, Table!Serialize, Facts!Serialize,
       Table!PutNode, Facts!PutNode, Table!PutChild, Facts!PutChild,
       Table!FoldLeft, Facts!FoldLeft, Table!MapThenFoldSet, Facts!MapThenFoldSet,
       Table!Max, Facts!Max, Table!Fits, Facts!Fits, Table!Digits, Facts!Digits
  <2> QED
    BY <2>1 DEF Table!send_routing_table, Facts!send_routing_table
<1>6. ASSUME NEW n, NEW s, NEW full
      PROVE  Table!recv_uc(n, s, full) <=> Facts!recv_uc(n, s, full)
  BY DEF Table!recv_uc, Facts!recv_uc
<1>7. ASSUME NEW n PROVE Table!update_routing_table(n) <=> Facts!update_routing_table(n)
  <2>1. ASSUME NEW t PROVE Table!Deserialize(t) = Facts!Deserialize(t)
    BY DEF Table!Deserialize, Facts!Deserialize, Table!FirstFew, Facts!FirstFew
  <2>2. ASSUME NEW t, NEW me, NEW r PROVE Table!Merge(t, me, r) = Facts!Merge(t, me, r)
    BY SMTT(120)
    DEF Table!Merge, Facts!Merge, Table!MergeNode, Facts!MergeNode,
       Table!EdgesOf, Facts!EdgesOf, Table!AddEdge, Facts!AddEdge,
       Table!Add_child, Facts!Add_child, Table!WithChild, Facts!WithChild,
       Table!Contains, Facts!Contains, Table!Index, Facts!Index,
       Table!SelectInSeq, Facts!SelectInSeq, Table!Min, Facts!Min,
       Table!FoldLeft, Facts!FoldLeft, Table!MapThenFoldSet, Facts!MapThenFoldSet,
       Table!Max, Facts!Max
  <2> QED
    BY <2>1, <2>2 DEF Table!update_routing_table, Facts!update_routing_table
<1> QED
  BY <1>1, <1>2, <1>3, <1>4, <1>5, <1>6, <1>7
-----------------------------------------------------------------------------
(***************************************************************************)
(* Types.                                                                  *)
(***************************************************************************)
\* What RoutingTable maintains, also when packets compete for the queue.
TableInv ==
  /\ Facts!IInv
  /\ \A n \in Node : posted[n] > 0 => ctrl_payload[n] # NoTable
  /\ changes \in 0 .. MaxChanges

LEMMA TableInit == Init => TableInv
<1> SUFFICES ASSUME Init PROVE TableInv
  OBVIOUS
<1>1. Facts!Init
  BY SameActions DEF Init
<1>2. Facts!IInv
  BY <1>1, TableConstants, Facts!InitIInv
<1>3. posted = [n \in Node |-> 0] /\ changes = 0
  BY <1>1 DEF Facts!Init
<1>4. MaxChanges \in Nat
  BY TableConstants DEF Facts!RoutingAssumption
<1> QED
  BY <1>2, <1>3, <1>4 DEF TableInv

\* A step of the packets leaves the tables alone.
LEMMA PacketsKeepTables ==
  ASSUME TableInv, UNCHANGED tableVars
  PROVE  TableInv'
<1>1. Facts!IInv'
  BY DEF TableInv, tableVars, Facts!IInv, Facts!Typed, Facts!Own, Facts!Sent, Facts!Received
<1> QED
  BY <1>1 DEF TableInv, tableVars

LEMMA TableNext == IInv /\ TableInv /\ [Next]_vars => TableInv'
<1> SUFFICES ASSUME IInv, TableInv, [Next]_vars PROVE TableInv'
  OBVIOUS
<1> USE TableConstants
<1>0. /\ MaxChanges \in Nat /\ Facts!IInv /\ changes \in 0 .. MaxChanges
      /\ posted \in [Node -> Nat] /\ DOMAIN ctrl_payload = Node
  <2>1. posted \in [Node -> 0 .. TableQuota]
    BY DEF IInv
  <2> QED
    BY <2>1 DEF Facts!RoutingAssumption, TableInv, Facts!IInv, Facts!Typed
<1>1. CASE generate_pkt_dst
  BY <1>1, PacketsKeepTables DEF generate_pkt_dst
<1>2. ASSUME NEW n \in Node, NEW s \in Node, recv_uc_data(n, s) PROVE TableInv'
  BY <1>2, PacketsKeepTables DEF recv_uc_data
<1>3. ASSUME NEW n \in Node, routing_upstream_downstream(n) PROVE TableInv'
  BY <1>3, PacketsKeepTables DEF routing_upstream_downstream
<1>4. ASSUME NEW s \in Node, NEW r \in Node, LosePacket(s, r) PROVE TableInv'
  BY <1>4, PacketsKeepTables DEF LosePacket
<1>5. ASSUME NEW n \in Node, RebootMote(n) PROVE TableInv'
  <2>1. Facts!Reboot(n)
    BY <1>5, SameActions DEF RebootMote
  <2>2. Facts!IInv'
    BY <1>0, <2>1, Facts!RebootKeeps
  <2>3. /\ posted' = [posted EXCEPT ![n] = 0]
        /\ ctrl_payload' = [ctrl_payload EXCEPT ![n] = NoTable]
        /\ changes < MaxChanges /\ changes' = changes + 1
    BY <2>1 DEF Facts!Reboot
  <2>4. \A m \in Node : posted'[m] > 0 => m # n /\ posted[m] > 0
    BY <1>0, <2>3
  <2>5. \A m \in Node : posted'[m] > 0 => ctrl_payload'[m] # NoTable
    BY <1>0, <2>3, <2>4 DEF TableInv
  <2>6. changes' \in 0 .. MaxChanges
    BY <1>0, <2>3
  <2> QED
    BY <2>2, <2>5, <2>6 DEF TableInv
<1>6. ASSUME NEW n \in Node, NEW s \in Node, recv_uc_control(n, s) PROVE TableInv'
  <2>1. Facts!recv_uc(n, s, QueueFull(n))
    BY <1>6, SameActions DEF recv_uc_control
  <2>2. /\ Facts!IInv' /\ ctrl_payload'[n] # NoTable
        /\ \A m \in Node : m # n => ctrl_payload'[m] = ctrl_payload[m]
    BY <1>0, <2>1, Facts!ReceiveKeeps
  <2>3. /\ \A m \in Node : m # n => posted'[m] = posted[m]
        /\ changes' = changes
    BY <1>0, <2>1 DEF Facts!recv_uc
  <2> QED
    BY <1>0, <2>2, <2>3 DEF TableInv
<1>7. ASSUME NEW n \in Node, NEW p \in Candidates[n], TakeParent(n, p) PROVE TableInv'
  <2>1. Facts!ChooseParent(n, p)
    BY <1>7, SameActions DEF TakeParent
  <2>2. Facts!IInv'
    BY <1>0, <2>1, Facts!ChooseParentKeeps
  <2>3. /\ posted' = posted /\ ctrl_payload' = ctrl_payload
        /\ changes' = changes \/ (changes < MaxChanges /\ changes' = changes + 1)
    BY <2>1 DEF Facts!ChooseParent
  <2> QED
    BY <1>0, <2>2, <2>3 DEF TableInv
<1>8. ASSUME NEW n \in Node, DropParent(n) PROVE TableInv'
  <2>1. Facts!LoseParent(n)
    BY <1>8, SameActions DEF DropParent
  <2>2. Facts!IInv'
    BY <1>0, <2>1, Facts!LoseParentKeeps
  <2>3. /\ posted' = posted /\ ctrl_payload' = ctrl_payload
        /\ changes < MaxChanges /\ changes' = changes + 1
    BY <2>1 DEF Facts!LoseParent
  <2> QED
    BY <1>0, <2>2, <2>3 DEF TableInv
<1>9. ASSUME NEW n \in Node, send_table(n) PROVE TableInv'
  <2>1. Facts!send_routing_table(n)
    BY <1>9, SameActions DEF send_table
  <2>2. Facts!IInv'
    BY <1>0, <2>1, Facts!SendKeeps
  <2>3. posted' = posted /\ ctrl_payload' = ctrl_payload /\ changes' = changes
    BY <2>1 DEF Facts!send_routing_table
  <2> QED
    BY <2>2, <2>3 DEF TableInv
<1>10. ASSUME NEW n \in Node, update_table(n) PROVE TableInv'
  <2>1. Facts!update_routing_table(n) /\ posted[n] > 0
    BY <1>10, SameActions DEF update_table
  <2>2. Facts!IInv'
    BY <1>0, <2>1, Facts!UpdateKeeps DEF TableInv
  <2>3. /\ posted' = [posted EXCEPT ![n] = @ - 1]
        /\ ctrl_payload' = ctrl_payload /\ changes' = changes
    BY <2>1 DEF Facts!update_routing_table
  <2>4. \A m \in Node : posted'[m] > 0 => posted[m] > 0
    BY <1>0, <2>1, <2>3
  <2> QED
    BY <2>2, <2>3, <2>4 DEF TableInv
<1>11. CASE UNCHANGED vars
  BY <1>11, PacketsKeepTables DEF vars
<1> QED
  BY <1>1, <1>2, <1>3, <1>4, <1>5, <1>6, <1>7, <1>8, <1>9, <1>10, <1>11 DEF Next

\* A search is what the packets expect of it.
LEMMA TablesAreSearched == TableInv => Searched
<1> SUFFICES ASSUME TableInv, NEW n \in Node, NEW d \in Node
             PROVE  LET t == routing_tree[n]
                        next == Table!Search_forwarder(t, n, d)
                    IN  /\ next \in Node \cup {Table!Upstream, Table!Diverges}
                        /\ next \in Node => <<n, next>> \in Table!Edges(t) /\ Leads(t, next, d)
                        /\ next = Table!Upstream =>
                             \A c \in Node : <<n, c>> \in Table!Edges(t) => ~ Leads(t, c, d)
                        /\ next = Table!Diverges => \E e \in Table!Edges(t) : Leads(t, e[2], e[1])
                        /\ Table!Edges(t) \subseteq Node \X Node
  BY DEF Searched
<1> DEFINE t == routing_tree[n]
           next == Facts!Search_forwarder(t, n, d)
<1>1. Facts!IsTable(t) /\ Facts!Edges(t) \subseteq once /\ once \subseteq Node \X Node
  BY DEF TableInv, Facts!IInv, Facts!Own, Facts!Typed
<1>2. /\ next \in Node \cup {Facts!Upstream, Facts!Diverges}
      /\ next \in Node => <<n, next>> \in Facts!Edges(t) /\ Facts!Reachable(t, next, d)
      /\ next = Facts!Upstream =>
           \A c \in Node : <<n, c>> \in Facts!Edges(t) => ~ Facts!Reachable(t, c, d)
      /\ next = Facts!Diverges => \E e \in Facts!Edges(t) : Facts!Reachable(t, e[2], e[1])
  BY <1>1, TableConstants, Facts!TableIsSearched
<1> HIDE DEF next
<1>3. /\ Table!Search_forwarder(t, n, d) = next
      /\ Table!Upstream = Facts!Upstream /\ Table!Diverges = Facts!Diverges
      /\ Table!Edges(t) = Facts!Edges(t)
      /\ \A x, y : Leads(t, x, y) <=> Facts!Reachable(t, x, y)
  BY SameOperators DEF next
<1> QED
  BY <1>1, <1>2, <1>3

-----------------------------------------------------------------------------
(***************************************************************************)
(* The inductive invariant of the data plane, and what follows from it.    *)
(***************************************************************************)
\* What holds until a parent is lost or changed or a mote reboots.
Calm == changes = 0 => Facts!Steady /\ Flow

Inv == IInv /\ TableInv /\ Whole /\ Parents /\ Calm

\* One of the steps of RoutingTable, or none.
LEMMA TableStep == IInv /\ TableInv /\ [Next]_vars => Facts!Step
<1> SUFFICES ASSUME IInv, TableInv, [Next]_vars PROVE Facts!Step
  OBVIOUS
<1>1. ASSUME UNCHANGED tableVars PROVE Facts!Step
  BY <1>1 DEF tableVars, Facts!Step, Facts!vars
<1>2. CASE generate_pkt_dst
  BY <1>1, <1>2 DEF generate_pkt_dst
<1>3. ASSUME NEW n \in Node, NEW s \in Node, recv_uc_data(n, s) PROVE Facts!Step
  BY <1>1, <1>3 DEF recv_uc_data
<1>4. ASSUME NEW n \in Node, routing_upstream_downstream(n) PROVE Facts!Step
  BY <1>1, <1>4 DEF routing_upstream_downstream
<1>5. ASSUME NEW s \in Node, NEW r \in Node, LosePacket(s, r) PROVE Facts!Step
  BY <1>1, <1>5 DEF LosePacket
<1>6. ASSUME NEW n \in Node, RebootMote(n) PROVE Facts!Step
  <2>1. Facts!Reboot(n)
    BY <1>6, SameActions DEF RebootMote
  <2> QED
    BY <2>1 DEF Facts!Step
<1>7. ASSUME NEW n \in Node, NEW s \in Node, recv_uc_control(n, s) PROVE Facts!Step
  <2>1. Facts!recv_uc(n, s, QueueFull(n))
    BY <1>7, SameActions DEF recv_uc_control
  <2>2. \E full : Facts!recv_uc(n, s, full)
    BY <2>1
  <2> QED
    BY <2>2 DEF Facts!Step
<1>8. ASSUME NEW n \in Node, NEW p \in Candidates[n], TakeParent(n, p) PROVE Facts!Step
  <2>1. Facts!ChooseParent(n, p)
    BY <1>8, SameActions DEF TakeParent
  <2> QED
    BY <2>1 DEF Facts!Step
<1>9. ASSUME NEW n \in Node, DropParent(n) PROVE Facts!Step
  <2>1. Facts!LoseParent(n)
    BY <1>9, SameActions DEF DropParent
  <2> QED
    BY <2>1 DEF Facts!Step
<1>10. ASSUME NEW n \in Node, send_table(n) PROVE Facts!Step
  <2>1. Facts!send_routing_table(n)
    BY <1>10, SameActions DEF send_table
  <2> QED
    BY <2>1 DEF Facts!Step
<1>11. ASSUME NEW n \in Node, update_table(n) PROVE Facts!Step
  <2>1. Facts!update_routing_table(n) /\ posted[n] > 0
    BY <1>11, SameActions DEF update_table
  <2>2. ctrl_payload[n] # NoTable
    BY <2>1 DEF TableInv
  <2> QED
    BY <2>1, <2>2 DEF Facts!Step
<1>12. CASE UNCHANGED vars
  BY <1>1, <1>12 DEF vars
<1> QED
  BY <1>2, <1>3, <1>4, <1>5, <1>6, <1>7, <1>8, <1>9, <1>10, <1>11, <1>12 DEF Next

\* changes counts, it never goes back.
LEMMA ChangesGrow ==
  ASSUME TableInv, TableInv', Facts!Step, changes' = 0
  PROVE  changes = 0
<1>1. changes \in Nat
  BY DEF TableInv
<1>2. changes' = changes \/ changes' = changes + 1
  BY DEF Facts!Step, Facts!ChooseParent, Facts!LoseParent, Facts!Reboot, Facts!recv_uc,
         Facts!send_routing_table, Facts!update_routing_table, Facts!vars
<1> QED
  BY <1>1, <1>2

LEMMA SteadyIsBacked == TableInv /\ Facts!Steady => Backed
<1> SUFFICES ASSUME TableInv, Facts!Steady, NEW n \in Node, NEW e \in Table!Edges(routing_tree[n])
             PROVE  /\ n \in Ancestors(e[1]) /\ best_parent_id[e[2]] = e[1]
                    /\ \/ e[1] = n
                       \/ \E c \in Node : best_parent_id[c] = n /\ e \in Table!Edges(routing_tree[c])
  BY DEF Backed
<1>1. \A t : Table!Edges(t) = Facts!Edges(t)
  BY SameOperators
<1>2. e \in once
  BY <1>1 DEF TableInv, Facts!IInv, Facts!Own
<1>3. Facts!Below(e[1], n) /\ (e[1] = n \/ Facts!Held(e, n)) /\ best_parent_id[e[2]] = e[1]
  BY <1>1, <1>2 DEF Facts!Steady
<1>4. n \in Ancestors(e[1])
  BY <1>3 DEF Ancestors, Table!Below, Facts!Below
<1>5. Facts!Held(e, n) =>
        \E c \in Node : best_parent_id[c] = n /\ e \in Table!Edges(routing_tree[c])
  BY <1>1 DEF Facts!Held
<1> QED
  BY <1>3, <1>4, <1>5

LEMMA CalmNext ==
  ASSUME IInv, TableInv, TableInv', Whole, Parents, Parents', Calm, [Next]_vars
  PROVE  Calm'
<1> SUFFICES ASSUME changes' = 0 PROVE Facts!Steady' /\ Flow'
  BY DEF Calm
<1>1. Facts!Step /\ changes \in Nat
  BY TableStep DEF TableInv
<1>2. changes = 0
  BY <1>1, ChangesGrow
<1>3. Facts!Steady /\ Flow
  BY <1>2 DEF Calm
<1>4. Facts!Steady' /\ Facts!ParentsStay /\ Facts!TablesGrow
  BY <1>1, <1>2, <1>3, TableConstants, Facts!StepKeepsSteady DEF TableInv
<1>5. Grows
  <2>1. \A t : Table!Edges(t) = Facts!Edges(t)
    BY SameOperators
  <2> QED
    BY <1>4, <2>1 DEF Grows, Facts!ParentsStay, Facts!TablesGrow
<1>6. Searched /\ Backed
  BY <1>3, TablesAreSearched, SteadyIsBacked
<1>7. Flow'
  BY <1>1, <1>3, <1>5, <1>6, FlowNext
<1> QED
  BY <1>4, <1>7

LEMMA InitInv == Init => Inv
<1> SUFFICES ASSUME Init PROVE Inv
  OBVIOUS
<1>1. Facts!Steady
  BY SameActions, TableConstants, Facts!InitSteady DEF Init
<1> QED
  BY <1>1, InitIInv, TableInit, InitWhole, InitParents, InitFlow DEF Inv, Calm

LEMMA NextInv == Inv /\ [Next]_vars => Inv'
<1> SUFFICES ASSUME Inv, [Next]_vars PROVE Inv'
  OBVIOUS
<1>1. IInv /\ TableInv /\ Whole /\ Parents /\ Calm
  BY DEF Inv
<1>2. IInv' /\ TableInv' /\ Parents'
  BY <1>1, NextIInv, TableNext, ParentsNext
<1>3. Whole'
  BY <1>1, TablesAreSearched, SearchedHops, WholeNext
<1>4. Calm'
  BY <1>1, <1>2, CalmNext
<1> QED
  BY <1>2, <1>3, <1>4 DEF Inv

LEMMA Everything == Spec => []Inv
BY InitInv, NextInv, PTL DEF Spec

\* Lists hold no more than the pool, links no more than the MAC layer, queues no
\* more events of both processes than they have room for; the counters of the
\* sink are in range; and the tables are as in RoutingTable.
THEOREM TypeCorrect == Spec => []TypeOK
<1> USE DataConstants
<1>1. ASSUME Inv PROVE TypeOK
  <2>1. IInv /\ TableInv /\ Shapes
    BY <1>1 DEF Inv, Whole
  <2>2. Table!TypeOK
    <3>1. /\ Facts!Typed /\ changes \in 0 .. MaxChanges
          /\ \A n \in Node : Facts!IsTable(routing_tree[n])
          /\ \A n, s \in Node : ctrl[s][n] # NoTable => Facts!IsTable(ctrl[s][n])
          /\ \A n \in Node : ctrl_payload[n] # NoTable => Facts!IsTable(ctrl_payload[n])
      BY <2>1 DEF TableInv, Facts!IInv, Facts!Own, Facts!Sent, Facts!Received
    <3>2. posted \in [Node -> 0 .. QueueSize]
      <4>1. posted \in [Node -> 0 .. TableQuota] /\ 0 .. TableQuota \subseteq 0 .. QueueSize
        BY <2>1, DataAssumption DEF IInv
      <4> QED
        BY <4>1
    <3> QED
      BY <3>1, <3>2, SameOperators DEF Table!TypeOK, Facts!Typed
  <2>3. pkt_mem \in [Node -> 0 .. PoolSize]
    <3>1. pkt_mem \in [Node -> Nat]
      BY <2>1 DEF IInv
    <3>2. ASSUME NEW n \in Node PROVE pkt_mem[n] \in 0 .. PoolSize
      <4>1. pkt_mem[n] = Len(pkt_list[n]) /\ Len(pkt_list[n]) =< PoolSize /\ pkt_mem[n] \in Nat
        BY <2>1 DEF IInv, Shapes, Lists
      <4> QED
        BY <4>1
    <3> QED
      BY <3>1, <3>2
  <2>4. \A n \in Node : routes[n] >= 0 /\ posted[n] + routes[n] =< QueueSize
    BY <2>1 DEF IInv, Shapes, Queues
  <2>5. seq_num \in 0 .. MaxPackets
    <3>1. seq_num \in Nat /\ generated \in Nat /\ seq_num =< generated /\ generated =< MaxPackets
      BY <2>1 DEF Shapes, Counters
    <3> QED
      BY <3>1
  <2> QED
    BY <2>1, <2>2, <2>3, <2>4, <2>5 DEF TypeOK, Shapes, Lists, Links, Counters
<1> QED
  BY <1>1, Everything, PTL

\* A packet is in one list, on one link or delivered, and there only once:
\* tables that change under it, full links, lost events and reboots move it or
\* lose it and never copy it.
THEOREM EachPacketInOnePlace == Spec => []OnePlace
<1>1. Inv => OnePlace
  BY WholeIsOnePlace DEF Inv
<1> QED
  BY <1>1, Everything, PTL

\* Once every mote has a parent and the tables show the way to the Destino, each
\* packet is sent a hop closer to it, wherever the tables of the past have led it.
THEOREM PacketsComeCloser == Spec => []EveryHopCloser
<1>1. Inv => EveryHopCloser
  BY TablesAreSearched, HopsAreCloser DEF Inv
<1> QED
  BY <1>1, Everything, PTL

\* The sink receives no more packets than were sent, whatever is lost and in
\* whatever order they come, as long as no parent is lost and nothing reboots.
THEOREM LossIsCounted == Spec => []LossWithinSent
<1>1. Inv => LossWithinSent
  BY FlowCounts DEF Inv, Calm, LossWithinSent
<1> QED
  BY <1>1, Everything, PTL

\* What the stale tables of routing_cycle break holds until then: as long as no
\* parent is lost or changed and nothing reboots, looking up a next hop returns.
THEOREM SearchesReturnAtFirst == Spec => [](changes = 0 => Table!SearchReturns)
<1>1. Inv => (changes = 0 => Table!SearchReturns)
  BY TablesAreSearched, SteadyIsBacked, NoSearchDiverges DEF Inv, Calm
<1> QED
  BY <1>1, Everything, PTL
================================================================================
