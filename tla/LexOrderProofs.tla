---------------------------- MODULE LexOrderProofs ----------------------------
(***************************************************************************)
(* The order of strings is total, and what the other proofs need of it.    *)
(***************************************************************************)
EXTENDS LexOrder, SequenceTheorems, WellFoundedInduction, TLAPS

\* A set of naturals that is not empty has a least element.
LEMMA LeastNatural ==
  ASSUME NEW S, S \subseteq Nat, S # {}
  PROVE  \E i \in S : \A j \in S : i <= j
<1>1. \E i \in S : \A j \in S : ~(<<j, i>> \in OpToRel(<, Nat))
  BY WFMin, NatLessThanWellFounded, Zenon
<1>2. PICK i \in S : \A j \in S : ~(<<j, i>> \in OpToRel(<, Nat))
  BY <1>1
<1>3. ASSUME NEW j \in S PROVE i <= j
  <2>1. i \in Nat /\ j \in Nat
    OBVIOUS
  <2>2. j < i => <<j, i>> \in OpToRel(<, Nat)
    BY <2>1 DEF OpToRel
  <2>3. ~(j < i)
    BY <1>2, <2>2, Zenon
  <2> QED BY <2>1, <2>3
<1> QED BY <1>3

\* No string is before itself.
LEMMA LexIrreflexive ==
  ASSUME NEW k \in Seq(Nat)
  PROVE  ~LexLess(k, k)
BY DEF LexLess

\* Of two strings one is before the other: they differ at a first place.
LEMMA LexTotal ==
  ASSUME NEW k \in Seq(Nat), NEW l \in Seq(Nat), k # l
  PROVE  LexLess(k, l) \/ LexLess(l, k)
<1> DEFINE S == {i \in (1..Len(k)) \cup (1..Len(l)) : i > Len(k) \/ i > Len(l) \/ k[i] # l[i]}
<1>1. S # {}
  <2> SUFFICES ASSUME S = {} PROVE FALSE
    OBVIOUS
  <2>1. \A i \in (1..Len(k)) \cup (1..Len(l)) : i <= Len(k) /\ i <= Len(l) /\ k[i] = l[i]
    OBVIOUS
  <2>2. Len(k) = Len(l)
    <3>1. Len(k) \in Nat /\ Len(l) \in Nat
      OBVIOUS
    <3>2. Len(k) # 0 => Len(k) <= Len(l)
      BY <2>1, <3>1
    <3>3. Len(l) # 0 => Len(l) <= Len(k)
      BY <2>1, <3>1
    <3> QED BY <3>1, <3>2, <3>3
  <2> QED BY <2>1, <2>2, SeqEqual
<1>2. \E i \in S : \A j \in S : i <= j
  <2>1. S \subseteq Nat
    OBVIOUS
  <2> HIDE DEF S
  <2> QED BY <1>1, <2>1, LeastNatural
<1>3. PICK i \in S : \A j \in S : i <= j
  BY <1>2
<1>4. \A j \in 1..(i - 1) : j <= Len(k) /\ j <= Len(l) /\ k[j] = l[j]
  BY <1>3
<1>5. CASE i > Len(k)
  BY <1>4, <1>5 DEF LexLess
<1>6. CASE i > Len(l)
  BY <1>4, <1>6 DEF LexLess
<1>7. CASE i <= Len(k) /\ i <= Len(l) /\ k[i] # l[i]
  <2>1. i \in 1..Len(k) /\ i \in 1..Len(l) /\ k[i] \in Nat /\ l[i] \in Nat
    BY <1>7
  <2>2. CASE k[i] < l[i]
    BY <1>4, <2>1, <2>2 DEF LexLess
  <2>3. CASE l[i] < k[i]
    BY <1>4, <2>1, <2>3 DEF LexLess
  <2> QED BY <1>7, <2>1, <2>2, <2>3
<1> QED BY <1>5, <1>6, <1>7

\* The last of several strings is the one that none is before: sorted(...)[-1].
LEMMA LastIsChosen ==
  ASSUME NEW V, V \subseteq Seq(Nat), NEW v \in V, \A w \in V : ~LexLess(v, w)
  PROVE  v = CHOOSE x \in V : \A w \in V : ~LexLess(x, w)
<1> DEFINE c == CHOOSE x \in V : \A w \in V : ~LexLess(x, w)
<1>1. c \in V /\ \A w \in V : ~LexLess(c, w)
  OBVIOUS
<1> HIDE DEF c
<1>2. v = c
  BY <1>1, LexTotal
<1> QED BY <1>2 DEF c

=============================================================================
