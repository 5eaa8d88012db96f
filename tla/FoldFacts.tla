------------------------------- MODULE FoldFacts -------------------------------
(***************************************************************************)
(* What a fold over a sequence computes, for the loops of tree_lib.c: the  *)
(* operator op is the body of a loop, and a module that has such a loop    *)
(* instantiates this one with it.  Induction over the natural numbers is   *)
(* stated for a set of numbers, not for a predicate.                       *)
(***************************************************************************)
EXTENDS Naturals, Sequences, SequencesExt, NaturalsInduction, WellFoundedInduction, TLAPS

CONSTANT op(_, _)

-----------------------------------------------------------------------------
(***************************************************************************)
(* Induction.                                                              *)
(***************************************************************************)
Less == { pair \in Nat \X Nat : pair[1] < pair[2] }

LEMMA LessIsWellFounded == IsWellFoundedOn(Less, Nat)
BY NatLessThanWellFounded DEF OpToRel, Less

\* A set that holds 0 and the successor of each of its members holds them all.
LEMMA SetInduction ==
  ASSUME NEW S, 0 \in S, \A n \in Nat : n \in S => n + 1 \in S
  PROVE  Nat \subseteq S
<1>1. SUFFICES ASSUME Nat \ S # {} PROVE FALSE
  OBVIOUS
<1>2. PICK x \in Nat \ S : \A y \in Nat \ S : ~ (<<y, x>> \in Less)
  BY <1>1, LessIsWellFounded, WFMin
<1>3. x # 0 /\ x - 1 \in Nat /\ x - 1 < x
  BY <1>2
<1>4. <<x - 1, x>> \in Less
  BY <1>2, <1>3 DEF Less
<1>5. x - 1 \in S
  BY <1>2, <1>3, <1>4
<1> QED
  BY <1>2, <1>3, <1>5

\* A set of numbers that is not empty has a least one.
LEMMA LeastMember ==
  ASSUME NEW S \in SUBSET Nat, S # {}
  PROVE  \E m \in S : \A y \in S : m =< y
<1>1. PICK m \in S : \A y \in S : ~ (<<y, m>> \in Less)
  BY LessIsWellFounded, WFMin
<1>2. \A y \in S : ~ (y < m)
  BY <1>1 DEF Less
<1> QED
  BY <1>1, <1>2

-----------------------------------------------------------------------------
(***************************************************************************)
(* The fold exists.                                                        *)
(***************************************************************************)
LEMMA MaxOfInitial ==
  ASSUME NEW k \in Nat, NEW Z \in SUBSET (1 .. k + 1), k + 1 \in Z
  PROVE  Max(Z) = k + 1
<1>1. k + 1 \in Z /\ \A y \in Z : k + 1 >= y
  OBVIOUS
<1>2. \A x \in Z : (\A y \in Z : x >= y) => x = k + 1
  BY <1>1
<1> QED
  BY <1>1, <1>2 DEF Max

\* f folds s over the sets of positions up to k, the largest position last.
IsFold(f, base, s, k) ==
  f = [Z \in SUBSET (1 .. k) |->
         IF Z = {} THEN base ELSE op(f[Z \ {Max(Z)}], s[Max(Z)])]

LEMMA FoldExists ==
  ASSUME NEW base, NEW s, NEW n \in Nat
  PROVE  \E f : IsFold(f, base, s, n)
<1> DEFINE S == { k \in Nat : \E f : IsFold(f, base, s, k) }
<1>1. 0 \in S
  <2> DEFINE f == [Z \in SUBSET (1 .. 0) |-> base]
  <2>1. \A Z \in SUBSET (1 .. 0) : Z = {}
    OBVIOUS
  <2>2. IsFold(f, base, s, 0)
    BY <2>1 DEF IsFold
  <2> HIDE DEF f
  <2> QED
    BY <2>2
<1>2. ASSUME NEW k \in Nat, k \in S PROVE k + 1 \in S
  <2>1. PICK f : IsFold(f, base, s, k)
    BY <1>2
  <2> DEFINE g == [Z \in SUBSET (1 .. k + 1) |->
                     IF Z = {} THEN base ELSE op(f[Z \ {Max(Z)}], s[Max(Z)])]
  <2>2. ASSUME NEW Z \in SUBSET (1 .. k) PROVE g[Z] = f[Z]
    <3>1. Z \in SUBSET (1 .. k + 1)
      OBVIOUS
    <3>2. f[Z] = IF Z = {} THEN base ELSE op(f[Z \ {Max(Z)}], s[Max(Z)])
      BY <2>1 DEF IsFold
    <3> QED
      BY <3>1, <3>2
  <2>3. ASSUME NEW Z \in SUBSET (1 .. k + 1), Z # {}
        PROVE  Z \ {Max(Z)} \in SUBSET (1 .. k)
    <3>1. \A z \in 1 .. k + 1 : z # k + 1 => z \in 1 .. k
      OBVIOUS
    <3>2. k + 1 \in Z => Max(Z) = k + 1
      BY MaxOfInitial
    <3> QED
      BY <3>1, <3>2
  <2>4. ASSUME NEW Z \in SUBSET (1 .. k + 1)
        PROVE  g[Z] = IF Z = {} THEN base ELSE op(g[Z \ {Max(Z)}], s[Max(Z)])
    BY <2>2, <2>3
  <2> DEFINE h == [Z \in SUBSET (1 .. k + 1) |->
                     IF Z = {} THEN base ELSE op(g[Z \ {Max(Z)}], s[Max(Z)])]
  <2>5. g = h
    BY <2>4
  <2>6. IsFold(g, base, s, k + 1)
    BY <2>5 DEF IsFold
  <2> HIDE DEF g
  <2> QED
    BY <2>6
<1> HIDE DEF S
<1>3. Nat \subseteq S
  BY <1>1, <1>2, SetInduction
<1> QED
  BY <1>3 DEF S

-----------------------------------------------------------------------------
(***************************************************************************)
(* The loop: after[i] is the state after i rounds.                         *)
(***************************************************************************)
Fold(base, s) == FoldLeft(op, base, s)

THEOREM FoldRounds ==
  ASSUME NEW base, NEW E, NEW s \in Seq(E)
  PROVE  \E after : /\ after[0] = base
                    /\ \A i \in 1 .. Len(s) : after[i] = op(after[i - 1], s[i])
                    /\ Fold(base, s) = after[Len(s)]
<1> DEFINE n == Len(s)
           iter == CHOOSE f : IsFold(f, base, s, n)
           after == [i \in 0 .. n |-> iter[1 .. i]]
<1>1. n \in Nat /\ DOMAIN s = 1 .. n
  OBVIOUS
<1>2. IsFold(iter, base, s, n)
  BY <1>1, FoldExists
<1>3. Fold(base, s) = iter[1 .. n]
  BY <1>1 DEF Fold, FoldLeft, MapThenFoldSet, IsFold
<1> HIDE DEF iter, n
<1>4. after[0] = base
  <2>1. 1 .. 0 = {} /\ {} \in SUBSET (1 .. n)
    OBVIOUS
  <2>2. iter[{}] = base
    BY <1>2, <2>1 DEF IsFold
  <2> QED
    BY <1>1, <2>1, <2>2
<1>5. ASSUME NEW i \in 1 .. n PROVE after[i] = op(after[i - 1], s[i])
  <2>1. i - 1 \in Nat /\ i - 1 \in 0 .. n /\ i \in 0 .. n /\ (i - 1) + 1 = i
    BY <1>1
  <2>2. 1 .. i # {} /\ 1 .. i \in SUBSET (1 .. n) /\ i \in 1 .. i
    BY <1>1
  <2>3. Max(1 .. i) = i
    BY <2>1, <2>2, MaxOfInitial
  <2>4. (1 .. i) \ {i} = 1 .. i - 1
    BY <1>1
  <2>5. iter[1 .. i] = op(iter[1 .. i - 1], s[i])
    BY <1>2, <2>2, <2>3, <2>4 DEF IsFold
  <2> QED
    BY <2>1, <2>5
<1>6. after[n] = iter[1 .. n]
  BY <1>1
<1> HIDE DEF after
<1> QED
  BY <1>3, <1>4, <1>5, <1>6 DEF n

\* The rule of the loop: T[i] is where it is after i rounds.
THEOREM FoldRule ==
  ASSUME NEW base, NEW E, NEW s \in Seq(E), NEW T,
         base \in T[0],
         \A i \in 1 .. Len(s) : \A t \in T[i - 1] : op(t, s[i]) \in T[i]
  PROVE  Fold(base, s) \in T[Len(s)]
<1>1. PICK after : /\ after[0] = base
                   /\ \A i \in 1 .. Len(s) : after[i] = op(after[i - 1], s[i])
                   /\ Fold(base, s) = after[Len(s)]
  BY FoldRounds
<1> DEFINE S == { k \in Nat : k =< Len(s) => after[k] \in T[k] }
<1>2. 0 \in S
  BY <1>1
<1>3. ASSUME NEW k \in Nat, k \in S PROVE k + 1 \in S
  <2> SUFFICES ASSUME k + 1 =< Len(s) PROVE after[k + 1] \in T[k + 1]
    OBVIOUS
  <2>1. k + 1 \in 1 .. Len(s) /\ (k + 1) - 1 = k /\ after[k] \in T[k]
    BY <1>3
  <2> QED
    BY <1>1, <2>1
<1> HIDE DEF S
<1>4. Len(s) \in Nat
  OBVIOUS
<1>5. Len(s) \in S
  BY <1>2, <1>3, <1>4, SetInduction
<1>6. after[Len(s)] \in T[Len(s)]
  BY <1>4, <1>5 DEF S
<1> QED
  BY <1>1, <1>6

\* A sum of natural numbers never gets smaller.
LEMMA SumClimbs ==
  ASSUME NEW n \in Nat, NEW f, f[0] \in Nat,
         \A i \in 1 .. n : \E d \in Nat : f[i] = f[i - 1] + d
  PROVE  \A i \in 0 .. n : f[i] \in Nat /\ f[i] =< f[n]
<1> DEFINE S == { k \in Nat : k =< n => \A i \in 0 .. k : f[i] \in Nat /\ f[i] =< f[k] }
<1>1. 0 \in S
  OBVIOUS
<1>2. ASSUME NEW k \in Nat, k \in S PROVE k + 1 \in S
  <2> SUFFICES ASSUME k + 1 =< n
               PROVE  \A i \in 0 .. k + 1 : f[i] \in Nat /\ f[i] =< f[k + 1]
    OBVIOUS
  <2>1. \A i \in 0 .. k : f[i] \in Nat /\ f[i] =< f[k]
    BY <1>2
  <2>2. k + 1 \in 1 .. n /\ (k + 1) - 1 = k
    OBVIOUS
  <2>3. PICK d \in Nat : f[k + 1] = f[k] + d
    BY <2>2
  <2> QED
    BY <2>1, <2>3
<1> HIDE DEF S
<1>3. n \in S
  BY <1>1, <1>2, SetInduction
<1> QED
  BY <1>3 DEF S
================================================================================
