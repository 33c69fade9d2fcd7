------------------------------- MODULE Nested -------------------------------
(***************************************************************************)
(* Recursion over nested values, once for all of the recursive functions   *)
(* that this project models: _serde.py converts a value by converting what *)
(* is nested in it.  Keys(x) tells what is nested directly in x, Part(x, k)*)
(* is what is nested there, and Make(x, parts) is the result for x, given  *)
(* the results for its parts.                                              *)
(*                                                                         *)
(* Fold is defined without a RECURSIVE operator, as a function on the      *)
(* values nested in x, so that it can be reasoned about: FoldEquation says *)
(* that it is the recursion, and NatInduct is the induction by which       *)
(* properties of it are proved.                                            *)
(***************************************************************************)
EXTENDS Naturals, WellFoundedInduction, TLAPS

CONSTANTS
  Keys(_),        \* where something is nested in a value
  Part(_, _),     \* what is nested there
  Make(_, _)      \* the result for a value, given the results for its parts

NextLevel(s) == UNION {{Part(u, k) : k \in Keys(u)} : u \in s}

\* The levels of x so far: << all that has been found, the deepest level >>.
Start(x) == << {x}, {x} >>

Extended(all, next) == << all \cup next, next >>
Deeper(found) == Extended(found[1], NextLevel(found[2]))

Upto(x) ==
  LET upto[n \in Nat] == IF n = 0 THEN Start(x) ELSE Deeper(upto[n - 1])
  IN  upto

\* Level(x)[n] is what is nested n deep in x.
Level(x) == [n \in Nat |-> Upto(x)[n][2]]

\* How many levels are looked at together.
Stride == 8

\* All that has been found, if there is no more to find.
AllOr(found, more) == IF found[2] = {} THEN found[1] ELSE more

\* x and all that is nested in it.
Reach(x) ==
  LET from[n \in Nat] == AllOr(Upto(x)[Stride * (n + 1)], from[n + 1])
  IN  from[0]

\* The recursion.
Fold(x) ==
  LET fold[u \in Reach(x)] == Make(u, [k \in Keys(u) |-> fold[Part(u, k)]])
  IN  fold[x]

\* Fewer than n levels, and finitely many.
Within(x, n) == Level(x)[n] = {}
Finite(x)    == \E n \in Nat : Within(x, n)

-----------------------------------------------------------------------------
\* Induction, for a set of numbers.
LEMMA NatInduct ==
  ASSUME NEW S, S \subseteq Nat, 0 \in S, \A n \in S : n + 1 \in S
  PROVE  \A n \in Nat : n \in S
<1>1. SUFFICES ASSUME Nat \ S # {} PROVE FALSE
  OBVIOUS
<1>2. \E x \in Nat \ S : \A y \in Nat \ S : ~(<<y, x>> \in OpToRel(<, Nat))
  <2>1. Nat \ S \subseteq Nat
    OBVIOUS
  <2> QED BY <1>1, <2>1, NatLessThanWellFounded, WFMin, Zenon
<1>3. PICK x \in Nat \ S : \A y \in Nat \ S : ~(<<y, x>> \in OpToRel(<, Nat))
  BY <1>2
<1>4. x \in Nat /\ x # 0 /\ x - 1 \in Nat /\ x - 1 < x
  OBVIOUS
<1>5. <<x - 1, x>> \in OpToRel(<, Nat)
  BY <1>4 DEF OpToRel
<1>6. x - 1 \in S
  BY <1>3, <1>4, <1>5, Zenon
<1> QED BY <1>4, <1>6

\* g lists what Upto finds up to m.
IsUpto(g, x, m) ==
  /\ DOMAIN g = 0..m
  /\ g[0] = Start(x)
  /\ \A n \in 0..m : n > 0 => g[n] = Deeper(g[n - 1])

\* There is such a list for each depth.
LEMMA UptoExists ==
  ASSUME NEW x
  PROVE  \A m \in Nat : \E g : IsUpto(g, x, m)
<1> DEFINE S == {m \in Nat : \E g : IsUpto(g, x, m)}
<1>1. 0 \in S
  <2>1. IsUpto([n \in 0..0 |-> Start(x)], x, 0)
    BY DEF IsUpto
  <2> QED BY <2>1
<1>2. ASSUME NEW m \in S PROVE m + 1 \in S
  <2>1. PICK g : IsUpto(g, x, m)
    OBVIOUS
  <2>2. IsUpto([n \in 0..(m + 1) |-> IF n = m + 1 THEN Deeper(g[m]) ELSE g[n]], x, m + 1)
    BY <2>1 DEF IsUpto
  <2> QED BY <2>2
<1>3. S \subseteq Nat
  OBVIOUS
<1>4. \A m \in Nat : m \in S
  <2> HIDE DEF S
  <2> QED BY <1>1, <1>2, <1>3, NatInduct
<1> QED BY <1>4

\* ... and x determines it.
LEMMA UptoUnique ==
  ASSUME NEW x, NEW m \in Nat, NEW l \in Nat, m <= l, NEW g, NEW h, IsUpto(g, x, m), IsUpto(h, x, l)
  PROVE  \A n \in 0..m : g[n] = h[n]
<1> DEFINE S == {n \in Nat : n <= m => g[n] = h[n]}
<1>1. 0 \in S
  BY DEF IsUpto
<1>2. ASSUME NEW n \in S PROVE n + 1 \in S
  BY DEF IsUpto
<1>4. \A n \in Nat : n \in S
  <2>3. S \subseteq Nat
    OBVIOUS
  <2> HIDE DEF S
  <2> QED BY <1>1, <1>2, <2>3, NatInduct
<1> QED BY <1>4

\* The recursive definition of Upto has a solution.
LEMMA UptoDef ==
  ASSUME NEW x
  PROVE  /\ Upto(x)[0] = Start(x)
         /\ \A n \in Nat : Upto(x)[n + 1] = Deeper(Upto(x)[n])
<1> DEFINE Eq(g) == g = [n \in Nat |-> IF n = 0 THEN Start(x) ELSE Deeper(g[n - 1])]
           h == [n \in Nat |-> (CHOOSE g : IsUpto(g, x, n))[n]]
<1>1. \A n \in Nat : IsUpto(CHOOSE g : IsUpto(g, x, n), x, n)
  BY UptoExists
<1>2. h[0] = Start(x)
  BY <1>1 DEF IsUpto
<1>3. ASSUME NEW n \in Nat, n > 0 PROVE h[n] = Deeper(h[n - 1])
  <2> DEFINE a == CHOOSE g : IsUpto(g, x, n)
             b == CHOOSE g : IsUpto(g, x, n - 1)
  <2>1. IsUpto(a, x, n) /\ IsUpto(b, x, n - 1)
    BY <1>1, <1>3
  <2>2. h[n] = a[n] /\ h[n - 1] = b[n - 1]
    BY <1>3
  <2> HIDE DEF a, b, h
  <2>3. b[n - 1] = a[n - 1]
    BY <2>1, <1>3, UptoUnique
  <2>4. a[n] = Deeper(a[n - 1])
    BY <2>1, <1>3 DEF IsUpto
  <2> QED BY <2>2, <2>3, <2>4
<1>4. Eq(h)
  <2>1. h = [n \in Nat |-> h[n]]
    OBVIOUS
  <2> HIDE DEF h
  <2> QED BY <1>2, <1>3, <2>1
<1>5. Upto(x) = CHOOSE g : Eq(g)
  BY DEF Upto
<1>6. Eq(Upto(x))
  BY <1>4, <1>5, Zenon
<1> QED BY <1>6

\* Level 0 is x, and each next level is what is nested directly in the one before.
LEMMA LevelDef ==
  ASSUME NEW x
  PROVE  /\ Level(x)[0] = {x}
         /\ \A n \in Nat : Level(x)[n + 1] = NextLevel(Level(x)[n])
<1>1. Level(x)[0] = {x}
  BY UptoDef DEF Level, Start
<1>2. ASSUME NEW n \in Nat PROVE Level(x)[n + 1] = NextLevel(Level(x)[n])
  <2>1. Upto(x)[n + 1] = Deeper(Upto(x)[n])
    BY UptoDef
  <2>2. Upto(x)[n + 1][2] = NextLevel(Upto(x)[n][2])
    BY <2>1 DEF Deeper, Extended
  <2> QED BY <2>2 DEF Level
<1> QED BY <1>1, <1>2

\* A value is at least its own level.
LEMMA NotWithinZero ==
  ASSUME NEW x
  PROVE  ~Within(x, 0)
BY LevelDef DEF Within

\* What is nested n + 1 deep in x is nested n deep in a part of x.
LEMMA LevelShift ==
  ASSUME NEW x
  PROVE  \A n \in Nat : Level(x)[n + 1] = UNION {Level(Part(x, k))[n] : k \in Keys(x)}
<1> DEFINE Below(n) == UNION {Level(Part(x, k))[n] : k \in Keys(x)}
           S == {n \in Nat : Level(x)[n + 1] = Below(n)}
<1>1. 0 \in S
  <2>1. Level(x)[0 + 1] = NextLevel({x})
    BY LevelDef
  <2>2. NextLevel({x}) = {Part(x, k) : k \in Keys(x)}
    BY DEF NextLevel
  <2>3. \A k \in Keys(x) : Level(Part(x, k))[0] = {Part(x, k)}
    BY LevelDef
  <2>4. Below(0) = {Part(x, k) : k \in Keys(x)}
    BY <2>3
  <2> QED BY <2>1, <2>2, <2>4
<1>2. ASSUME NEW n \in S PROVE n + 1 \in S
  <2>1. n \in Nat /\ n + 1 \in Nat /\ Level(x)[n + 1] = Below(n)
    OBVIOUS
  <2>2. Level(x)[(n + 1) + 1] = NextLevel(Below(n))
    <3> HIDE DEF Below
    <3>1. Level(x)[(n + 1) + 1] = NextLevel(Level(x)[n + 1])
      BY <2>1, LevelDef
    <3> QED BY <3>1, <2>1
  <2>3. \A k \in Keys(x) : Level(Part(x, k))[n + 1] = NextLevel(Level(Part(x, k))[n])
    BY <2>1, LevelDef
  <2>4. NextLevel(Below(n)) = UNION {NextLevel(Level(Part(x, k))[n]) : k \in Keys(x)}
    BY DEF NextLevel
  <2>5. NextLevel(Below(n)) = Below(n + 1)
    BY <2>3, <2>4
  <2> QED BY <2>1, <2>2, <2>5
<1>3. \A n \in Nat : n \in S
  <2>1. S \subseteq Nat
    OBVIOUS
  <2> HIDE DEF S
  <2> QED BY <1>1, <1>2, <2>1, NatInduct
<1> QED BY <1>3

\* A value has fewer than n + 2 levels exactly if its parts have fewer than n + 1.
LEMMA WithinStep ==
  ASSUME NEW x, NEW n \in Nat
  PROVE  Within(x, n + 1) <=> \A k \in Keys(x) : Within(Part(x, k), n)
<1>1. Level(x)[n + 1] = UNION {Level(Part(x, k))[n] : k \in Keys(x)}
  BY LevelShift
<1> QED BY <1>1 DEF Within

\* No level follows an empty one.
LEMMA WithinMore ==
  ASSUME NEW x, NEW n \in Nat, Within(x, n)
  PROVE  Within(x, n + 1)
BY LevelDef DEF Within, NextLevel

\* The same for all later levels.
LEMMA WithinLater ==
  ASSUME NEW x, NEW n \in Nat, Within(x, n)
  PROVE  \A m \in Nat : m >= n => Within(x, m)
<1> DEFINE S == {i \in Nat : Within(x, n + i)}
<1>1. 0 \in S
  OBVIOUS
<1>2. ASSUME NEW i \in S PROVE i + 1 \in S
  <2>1. Within(x, (n + i) + 1)
    BY WithinMore
  <2>2. (n + i) + 1 = n + (i + 1)
    OBVIOUS
  <2> QED BY <2>1, <2>2
<1>3. \A i \in Nat : i \in S
  <2>1. S \subseteq Nat
    OBVIOUS
  <2> HIDE DEF S
  <2> QED BY <1>1, <1>2, <2>1, NatInduct
<1>4. ASSUME NEW m \in Nat, m >= n PROVE Within(x, m)
  <2>1. m - n \in Nat /\ n + (m - n) = m
    BY <1>4
  <2> QED BY <2>1, <1>3
<1> QED BY <1>4

\* A part has fewer levels than the whole.
LEMMA PartWithin ==
  ASSUME NEW x, NEW n \in Nat, Within(x, n), NEW k \in Keys(x)
  PROVE  /\ n > 0 /\ n - 1 \in Nat /\ Within(Part(x, k), n - 1)
         /\ Within(Part(x, k), n)
<1>1. n # 0
  BY NotWithinZero
<1>2. n - 1 \in Nat /\ (n - 1) + 1 = n
  BY <1>1
<1>3. Within(Part(x, k), n - 1)
  BY <1>2, WithinStep
<1>4. Within(Part(x, k), n)
  BY <1>2, <1>3, WithinMore
<1> QED BY <1>1, <1>2, <1>3, <1>4

\* Everything on a level of x.
AllLevels(x) == UNION {Level(x)[n] : n \in Nat}

\* Upto has found the levels up to n.
LEMMA UptoFinds ==
  ASSUME NEW x
  PROVE  \A n \in Nat : Upto(x)[n][1] = UNION {Level(x)[i] : i \in 0..n}
<1> DEFINE S == {n \in Nat : Upto(x)[n][1] = UNION {Level(x)[i] : i \in 0..n}}
<1>1. 0 \in S
  <2>1. Upto(x)[0][1] = {x} /\ Level(x)[0] = {x}
    BY UptoDef, LevelDef DEF Start
  <2>2. 0..0 = {0}
    OBVIOUS
  <2> QED BY <2>1, <2>2
<1>2. ASSUME NEW n \in S PROVE n + 1 \in S
  <2>1. Upto(x)[n + 1][1] = Upto(x)[n][1] \cup Level(x)[n + 1]
    <3>1. Upto(x)[n + 1] = Deeper(Upto(x)[n])
      BY UptoDef
    <3>2. Upto(x)[n + 1][1] = Upto(x)[n][1] \cup NextLevel(Upto(x)[n][2])
      BY <3>1 DEF Deeper, Extended
    <3>3. NextLevel(Upto(x)[n][2]) = Level(x)[n + 1]
      BY <3>1, LevelDef DEF Level
    <3> QED BY <3>2, <3>3
  <2>2. 0..(n + 1) = (0..n) \cup {n + 1}
    OBVIOUS
  <2> QED BY <2>1, <2>2
<1>3. \A n \in Nat : n \in S
  <2>1. S \subseteq Nat
    OBVIOUS
  <2> HIDE DEF S
  <2> QED BY <1>1, <1>2, <2>1, NatInduct
<1> QED BY <1>3

\* Reach collects all levels of a value that has finitely many.
LEMMA ReachIsLevels ==
  ASSUME NEW x, Finite(x)
  PROVE  Reach(x) = AllLevels(x)
<1> DEFINE At(n) == Upto(x)[Stride * (n + 1)]
           Eq(g) == g = [n \in Nat |-> IF At(n)[2] = {} THEN At(n)[1] ELSE g[n + 1]]
           h == [n \in Nat |-> AllLevels(x)]
           r == CHOOSE g : Eq(g)
<1>1. PICK top \in Nat : Within(x, top)
  BY DEF Finite
<1>2. ASSUME NEW n \in Nat, Within(x, n) PROVE Upto(x)[n][1] = AllLevels(x)
  <2>1. Upto(x)[n][1] = UNION {Level(x)[i] : i \in 0..n}
    BY UptoFinds
  <2>2. \A i \in Nat : i \notin 0..n => Level(x)[i] = {}
    BY <1>2, WithinLater DEF Within
  <2> QED BY <2>1, <2>2 DEF AllLevels
<1>3. \A n \in Nat : At(n)[2] = {} => At(n)[1] = AllLevels(x)
  <2> SUFFICES ASSUME NEW n \in Nat, At(n)[2] = {} PROVE At(n)[1] = AllLevels(x)
    OBVIOUS
  <2>1. Stride * (n + 1) \in Nat
    BY DEF Stride
  <2>2. Within(x, Stride * (n + 1))
    BY <2>1 DEF Within, Level
  <2> QED BY <1>2, <2>1, <2>2
<1>4. Eq(h)
  <2> HIDE DEF At
  <2> QED BY <1>3
<1>5. Eq(r)
  <2> HIDE DEF Eq, h
  <2> QED BY <1>4
<1>6. Reach(x) = r[0]
  BY DEF Reach, AllOr
<1> HIDE DEF At
<1>7. \A n \in Nat : r[n] = IF At(n)[2] = {} THEN At(n)[1] ELSE r[n + 1]
  <2> HIDE DEF r
  <2> QED BY <1>5
<1> HIDE DEF r
<1> DEFINE S == {i \in Nat : i <= top => r[top - i] = AllLevels(x)}
<1>8. 0 \in S
  <2>1. top - 0 = top /\ Stride * (top + 1) \in Nat /\ Stride * (top + 1) >= top
    BY DEF Stride
  <2>2. Within(x, Stride * (top + 1))
    BY <2>1, <1>1, WithinLater
  <2>3. At(top)[2] = {}
    BY <2>1, <2>2 DEF Within, Level, At
  <2> QED BY <2>1, <2>3, <1>3, <1>7
<1>9. ASSUME NEW i \in S PROVE i + 1 \in S
  <2>1. SUFFICES ASSUME i + 1 <= top PROVE r[top - (i + 1)] = AllLevels(x)
    OBVIOUS
  <2> DEFINE n == top - (i + 1)
  <2>2. n \in Nat /\ n + 1 = top - i
    BY <2>1
  <2>3. r[n + 1] = AllLevels(x)
    BY <2>1, <2>2
  <2> HIDE DEF n
  <2>4. r[n] = AllLevels(x)
    BY <2>2, <2>3, <1>3, <1>7
  <2> QED BY <2>4 DEF n
<1>10. \A i \in Nat : i \in S
  <2>1. S \subseteq Nat
    OBVIOUS
  <2> HIDE DEF S
  <2> QED BY <1>8, <1>9, <2>1, NatInduct
<1>11. r[0] = AllLevels(x)
  <2>1. top \in S /\ top - top = 0
    BY <1>10
  <2> QED BY <2>1
<1> QED BY <1>6, <1>11

\* The parts of a finitely nested value are finitely nested.
LEMMA PartFinite ==
  ASSUME NEW x, Finite(x), NEW k \in Keys(x)
  PROVE  Finite(Part(x, k))
BY PartWithin DEF Finite

\* What is nested in x is x and what is nested in its parts: a condition on everything nested in a
\* value, such as being well typed, is one on the value and the same on its parts.
THEOREM ReachEquation ==
  ASSUME NEW x, Finite(x)
  PROVE  Reach(x) = {x} \cup UNION {Reach(Part(x, k)) : k \in Keys(x)}
<1>1. \A k \in Keys(x) : Reach(Part(x, k)) = AllLevels(Part(x, k))
  BY PartFinite, ReachIsLevels
<1>2. Reach(x) = AllLevels(x)
  BY ReachIsLevels
<1>3. AllLevels(x) \subseteq {x} \cup UNION {AllLevels(Part(x, k)) : k \in Keys(x)}
  <2> SUFFICES ASSUME NEW n \in Nat, NEW u \in Level(x)[n]
               PROVE  u = x \/ \E k \in Keys(x) : u \in AllLevels(Part(x, k))
    BY DEF AllLevels
  <2>1. CASE n = 0
    BY <2>1, LevelDef
  <2>2. CASE n # 0
    <3>1. n - 1 \in Nat /\ (n - 1) + 1 = n
      BY <2>2
    <3>2. PICK k \in Keys(x) : u \in Level(Part(x, k))[n - 1]
      BY <3>1, LevelShift
    <3> QED BY <3>1, <3>2 DEF AllLevels
  <2> QED BY <2>1, <2>2
<1>4. x \in AllLevels(x)
  <2>1. x \in Level(x)[0]
    BY LevelDef
  <2> QED BY <2>1 DEF AllLevels
<1>5. ASSUME NEW k \in Keys(x), NEW u \in AllLevels(Part(x, k)) PROVE u \in AllLevels(x)
  <2>1. PICK n \in Nat : u \in Level(Part(x, k))[n]
    BY <1>5 DEF AllLevels
  <2>2. u \in Level(x)[n + 1]
    BY <2>1, LevelShift
  <2> QED BY <2>2 DEF AllLevels
<1> QED BY <1>1, <1>2, <1>3, <1>4, <1>5

\* What is nested in something nested in x is nested in x.
LEMMA ReachInherits ==
  ASSUME NEW x, Finite(x), NEW u \in Reach(x)
  PROVE  /\ Finite(u) /\ Reach(u) \subseteq Reach(x) /\ u \in Reach(u)
         /\ \A k \in Keys(u) : Part(u, k) \in Reach(u) /\ Reach(Part(u, k)) \subseteq Reach(u)
<1> DEFINE S == {n \in Nat : \A y : Within(y, n) =>
                   \A v \in Reach(y) : Finite(v) /\ Reach(v) \subseteq Reach(y)}
<1>1. 0 \in S
  BY NotWithinZero
<1>2. ASSUME NEW n \in S PROVE n + 1 \in S
  <2> SUFFICES ASSUME NEW y, Within(y, n + 1), NEW v \in Reach(y)
               PROVE  Finite(v) /\ Reach(v) \subseteq Reach(y)
    OBVIOUS
  <2>1. Finite(y)
    BY DEF Finite
  <2>2. Reach(y) = {y} \cup UNION {Reach(Part(y, k)) : k \in Keys(y)}
    BY <2>1, ReachEquation
  <2>3. CASE v = y
    BY <2>1, <2>3
  <2>4. ASSUME NEW k \in Keys(y), v \in Reach(Part(y, k))
        PROVE  Finite(v) /\ Reach(v) \subseteq Reach(y)
    <3>1. Within(Part(y, k), n)
      BY WithinStep
    <3>2. Finite(v) /\ Reach(v) \subseteq Reach(Part(y, k))
      BY <3>1, <2>4
    <3>3. Reach(Part(y, k)) \subseteq Reach(y)
      BY <2>2
    <3> QED BY <3>2, <3>3
  <2> QED BY <2>2, <2>3, <2>4
<1>3. \A n \in Nat : n \in S
  <2>1. S \subseteq Nat
    OBVIOUS
  <2> HIDE DEF S
  <2> QED BY <1>1, <1>2, <2>1, NatInduct
<1>4. Finite(u) /\ Reach(u) \subseteq Reach(x)
  BY <1>3 DEF Finite
<1>5. Reach(u) = {u} \cup UNION {Reach(Part(u, k)) : k \in Keys(u)}
  BY <1>4, ReachEquation
<1>6. ASSUME NEW k \in Keys(u) PROVE Part(u, k) \in Reach(Part(u, k))
  BY <1>4, PartFinite, ReachEquation
<1>7. ASSUME NEW k \in Keys(u) PROVE Reach(Part(u, k)) \subseteq Reach(u)
  BY <1>5
<1> QED BY <1>4, <1>5, <1>6, <1>7

\* g solves the recursive equation on all that is nested in x.
IsFold(g, x) ==
  /\ DOMAIN g = Reach(x) /\ g = [u \in DOMAIN g |-> g[u]]
  /\ \A u \in Reach(x) : g[u] = Make(u, [k \in Keys(u) |-> g[Part(u, k)]])

\* A solution for x is one for all that is nested in x.
LEMMA FoldRestricts ==
  ASSUME NEW x, Finite(x), NEW g, IsFold(g, x), NEW y \in Reach(x)
  PROVE  IsFold([u \in Reach(y) |-> g[u]], y)
<1> DEFINE r == [u \in Reach(y) |-> g[u]]
<1>1. Reach(y) \subseteq Reach(x) /\ Finite(y)
  BY ReachInherits
<1>2. ASSUME NEW u \in Reach(y)
      PROVE  r[u] = Make(u, [k \in Keys(u) |-> r[Part(u, k)]])
  <2>1. \A k \in Keys(u) : Part(u, k) \in Reach(y)
    BY <1>1, ReachInherits
  <2>2. [k \in Keys(u) |-> r[Part(u, k)]] = [k \in Keys(u) |-> g[Part(u, k)]]
    BY <2>1
  <2>3. g[u] = Make(u, [k \in Keys(u) |-> g[Part(u, k)]])
    BY <1>1 DEF IsFold
  <2> QED BY <2>2, <2>3
<1> QED BY <1>2 DEF IsFold

\* Two solutions for x are equal.
LEMMA FoldUnique ==
  ASSUME NEW x, Finite(x), NEW g, NEW h, IsFold(g, x), IsFold(h, x)
  PROVE  \A u \in Reach(x) : g[u] = h[u]
<1> DEFINE S == {n \in Nat : \A u \in Reach(x) : Within(u, n) => g[u] = h[u]}
<1>1. 0 \in S
  BY NotWithinZero
<1>2. ASSUME NEW n \in S PROVE n + 1 \in S
  <2> SUFFICES ASSUME NEW u \in Reach(x), Within(u, n + 1) PROVE g[u] = h[u]
    OBVIOUS
  <2>1. ASSUME NEW k \in Keys(u) PROVE g[Part(u, k)] = h[Part(u, k)]
    <3>1. Part(u, k) \in Reach(x)
      BY ReachInherits
    <3>2. Within(Part(u, k), n)
      BY WithinStep
    <3> QED BY <3>1, <3>2
  <2>2. [k \in Keys(u) |-> g[Part(u, k)]] = [k \in Keys(u) |-> h[Part(u, k)]]
    BY <2>1
  <2>3. /\ g[u] = Make(u, [k \in Keys(u) |-> g[Part(u, k)]])
        /\ h[u] = Make(u, [k \in Keys(u) |-> h[Part(u, k)]])
    BY DEF IsFold
  <2> QED BY <2>2, <2>3
<1>3. \A n \in Nat : n \in S
  <2>1. S \subseteq Nat
    OBVIOUS
  <2> HIDE DEF S
  <2> QED BY <1>1, <1>2, <2>1, NatInduct
<1>4. \A u \in Reach(x) : \E n \in Nat : Within(u, n)
  BY ReachInherits DEF Finite
<1> QED BY <1>3, <1>4

\* Fold is the solution, if there is one.
LEMMA FoldOfSolution ==
  ASSUME NEW x, Finite(x), NEW g, IsFold(g, x)
  PROVE  Fold(x) = g[x]
<1> DEFINE Eq(f) == f = [u \in Reach(x) |-> Make(u, [k \in Keys(u) |-> f[Part(u, k)]])]
           c == CHOOSE f : Eq(f)
<1>1. Eq(g)
  BY DEF IsFold
<1>2. Eq(c)
  <2> HIDE DEF Eq
  <2> QED BY <1>1
<1>3. IsFold(c, x)
  <2> HIDE DEF c
  <2> QED BY <1>2 DEF IsFold
<1>4. x \in Reach(x)
  BY ReachEquation
<1>5. Fold(x) = c[x]
  BY DEF Fold
<1> HIDE DEF c
<1> QED BY <1>3, <1>4, <1>5, FoldUnique

\* ... and satisfies the equation wherever a solution reaches.
LEMMA FoldsOfSolution ==
  ASSUME NEW x, Finite(x), NEW g, IsFold(g, x)
  PROVE  \A u \in Reach(x) : Fold(u) = g[u] /\ Fold(u) = Make(u, [k \in Keys(u) |-> Fold(Part(u, k))])
<1>1. ASSUME NEW u \in Reach(x) PROVE Fold(u) = g[u]
  <2>1. Finite(u) /\ u \in Reach(u)
    BY ReachInherits
  <2>2. IsFold([v \in Reach(u) |-> g[v]], u)
    BY FoldRestricts
  <2>3. Fold(u) = [v \in Reach(u) |-> g[v]][u]
    BY <2>1, <2>2, FoldOfSolution
  <2> QED BY <2>1, <2>3
<1>2. ASSUME NEW u \in Reach(x)
      PROVE  Fold(u) = Make(u, [k \in Keys(u) |-> Fold(Part(u, k))])
  <2>1. \A k \in Keys(u) : Part(u, k) \in Reach(x)
    BY ReachInherits
  <2>2. [k \in Keys(u) |-> g[Part(u, k)]] = [k \in Keys(u) |-> Fold(Part(u, k))]
    BY <1>1, <2>1
  <2>3. g[u] = Make(u, [k \in Keys(u) |-> g[Part(u, k)]])
    BY DEF IsFold
  <2> QED BY <1>1, <2>2, <2>3
<1> QED BY <1>1, <1>2

\* There is a solution for every finitely nested x.
LEMMA SolutionExists ==
  ASSUME NEW x, Finite(x)
  PROVE  \E g : IsFold(g, x)
<1> DEFINE S == {n \in Nat : \A y : Within(y, n) => \E g : IsFold(g, y)}
<1>1. 0 \in S
  BY NotWithinZero
<1>2. ASSUME NEW n \in S PROVE n + 1 \in S
  <2> SUFFICES ASSUME NEW y, Within(y, n + 1) PROVE \E g : IsFold(g, y)
    OBVIOUS
  <2> DEFINE Whole == Make(y, [k \in Keys(y) |-> Fold(Part(y, k))])
             g == [u \in Reach(y) |-> IF u = y THEN Whole ELSE Fold(u)]
  <2>1. Finite(y)
    BY DEF Finite
  <2>2. Reach(y) = {y} \cup UNION {Reach(Part(y, k)) : k \in Keys(y)}
    BY <2>1, ReachEquation
  <2>3. ASSUME NEW k \in Keys(y), NEW u \in Reach(Part(y, k))
        PROVE  Fold(u) = Make(u, [l \in Keys(u) |-> Fold(Part(u, l))])
    <3>1. Within(Part(y, k), n)
      BY WithinStep
    <3>2. PICK h : IsFold(h, Part(y, k))
      BY <3>1
    <3>3. Finite(Part(y, k))
      BY <3>1 DEF Finite
    <3> QED BY <3>2, <3>3, FoldsOfSolution
  <2>4. ASSUME NEW k \in Keys(y), NEW u \in Reach(Part(y, k)) PROVE g[u] = Fold(u)
    BY <2>2, <2>3
  <2>5. y \in Reach(y) /\ g[y] = Whole
    BY <2>2
  <2>6. ASSUME NEW u \in Reach(y)
        PROVE  g[u] = Make(u, [k \in Keys(u) |-> g[Part(u, k)]])
    <3> HIDE DEF g
    <3>1. CASE u = y
      <4>1. ASSUME NEW k \in Keys(y) PROVE g[Part(y, k)] = Fold(Part(y, k))
        <5>1. Part(y, k) \in Reach(Part(y, k))
          BY <2>1, PartFinite, ReachEquation
        <5> QED BY <5>1, <2>4
      <4>2. [k \in Keys(y) |-> g[Part(y, k)]] = [k \in Keys(y) |-> Fold(Part(y, k))]
        BY <4>1
      <4> QED BY <3>1, <4>2, <2>5
    <3>2. ASSUME NEW l \in Keys(y), u \in Reach(Part(y, l))
          PROVE  g[u] = Make(u, [k \in Keys(u) |-> g[Part(u, k)]])
      <4>1. ASSUME NEW k \in Keys(u) PROVE g[Part(u, k)] = Fold(Part(u, k))
        <5>1. Part(u, k) \in Reach(Part(y, l))
          BY <2>1, <3>2, PartFinite, ReachInherits
        <5> QED BY <5>1, <2>4
      <4>2. [k \in Keys(u) |-> g[Part(u, k)]] = [k \in Keys(u) |-> Fold(Part(u, k))]
        BY <4>1
      <4>3. g[u] = Fold(u)
        BY <3>2, <2>4
      <4> QED BY <4>2, <4>3, <3>2, <2>3
    <3> QED BY <3>1, <3>2, <2>2
  <2>7. IsFold(g, y)
    <3>1. DOMAIN g = Reach(y) /\ g = [u \in DOMAIN g |-> g[u]]
      OBVIOUS
    <3> HIDE DEF g
    <3> QED BY <3>1, <2>6 DEF IsFold
  <2> QED BY <2>7
<1>3. \A n \in Nat : n \in S
  <2>1. S \subseteq Nat
    OBVIOUS
  <2> HIDE DEF S
  <2> QED BY <1>1, <1>2, <2>1, NatInduct
<1> QED BY <1>3 DEF Finite

\* Fold is the recursion it stands for: the result for a finitely nested value is made from the
\* results for its parts (to_jsonable and from_jsonable calling themselves).
THEOREM FoldEquation ==
  ASSUME NEW x, Finite(x)
  PROVE  Fold(x) = Make(x, [k \in Keys(x) |-> Fold(Part(x, k))])
<1>1. PICK g : IsFold(g, x)
  BY SolutionExists
<1>2. x \in Reach(x)
  BY ReachEquation
<1> QED BY <1>1, <1>2, FoldsOfSolution
=============================================================================
