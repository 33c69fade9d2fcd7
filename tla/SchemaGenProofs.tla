--------------------------- MODULE SchemaGenProofs ---------------------------
(***************************************************************************)
(* Proofs about the walk of json_schema, for every catalogue: its type     *)
(* invariant, that every $ref resolves, that no class is entered twice,    *)
(* that the finished schema is self-contained and minimal, and that a      *)
(* complete entry is final.                                                *)
(***************************************************************************)
EXTENDS SchemaGen, SequenceTheorems, TLAPS

Frame == [holder : Holders, todo : SUBSET Names]

\* What Visited does to the calls: it shortens the list of the innermost one.
LEMMA VisitedFacts ==
  ASSUME NEW s \in Seq(Frame), s # << >>, NEW n \in Names
  PROVE  /\ Visited(s, n) \in Seq(Frame) /\ Visited(s, n) # << >>
         /\ Len(Visited(s, n)) = Len(s)
         /\ \A i \in 1..Len(s) : Visited(s, n)[i].holder = s[i].holder
         /\ \A i \in 1..Len(s) : i # Len(s) => Visited(s, n)[i] = s[i]
         /\ Visited(s, n)[Len(s)].todo = s[Len(s)].todo \ {n}
<1>1. Len(s) \in 1..Len(s) /\ DOMAIN s = 1..Len(s)
  OBVIOUS
<1>2. s[Len(s)] \in Frame
  BY <1>1
<1> DEFINE f == [s[Len(s)] EXCEPT !.todo = @ \ {n}]
<1>3. f \in Frame /\ f.holder = s[Len(s)].holder /\ f.todo = s[Len(s)].todo \ {n}
  BY <1>2 DEF Frame
<1>4. Visited(s, n) = [s EXCEPT ![Len(s)] = f]
  BY DEF Visited
<1> HIDE DEF f
<1>5. /\ Visited(s, n) \in Seq(Frame) /\ Len(Visited(s, n)) = Len(s)
      /\ \A j \in 1..Len(s) : Visited(s, n)[j] = IF j = Len(s) THEN f ELSE s[j]
  BY <1>1, <1>3, <1>4, ExceptSeq
<1>6. Visited(s, n) # << >>
  BY <1>1, <1>5, EmptySeq
<1>7. \A i \in 1..Len(s) : i # Len(s) => Visited(s, n)[i] = s[i]
  BY <1>5
<1>8. Visited(s, n)[Len(s)] = f
  BY <1>1, <1>5
<1>9. ASSUME NEW i \in 1..Len(s)
      PROVE  Visited(s, n)[i].holder = s[i].holder
  BY <1>3, <1>7, <1>8
<1>10. QED
  BY <1>3, <1>5, <1>6, <1>7, <1>8, <1>9

\* The initial state satisfies the invariant.
LEMMA InitIInv == Init => IInv
<1> SUFFICES ASSUME Init PROVE IInv
  OBVIOUS
<1> USE SchemaGenAssumption
<1>1. uses[cls] \subseteq Names
  BY DEF Init
<1>2. stack \in Seq(Frame) /\ Len(stack) = 1 /\ stack[1] = Call(Root, uses[cls])
  BY <1>1 DEF Init, Frame, Call, Holders
<1>3. TypeOK
  BY <1>2 DEF Init, TypeOK, Frame
<1>4. CallsNest
  BY <1>2 DEF CallsNest, Call
<1>5. PlaceholdersAreActive
  BY <1>2 DEF PlaceholdersAreActive, Init
<1>6. PropsInProgress
  BY <1>2 DEF PropsInProgress, Init, Mentions, Call, Holders
<1>7. RefsResolve /\ SchemaMinimal /\ DoneIsUnwound
  BY DEF RefsResolve, SchemaMinimal, DoneIsUnwound, Init, Defined, Holders
<1>8. QED
  BY <1>3, <1>4, <1>5, <1>6, <1>7 DEF IInv

\* In a state of the invariant: the innermost call, and what it has yet to visit.
LEMMA TopFacts ==
  ASSUME IInv
  PROVE  /\ stack \in Seq(Frame) /\ stack # << >>
         /\ Len(stack) \in Nat /\ Len(stack) >= 1 /\ DOMAIN stack = 1..Len(stack)
         /\ Top \in Frame /\ Top.holder \in Holders /\ Top.todo \subseteq Names
         /\ Top.holder = Root <=> Len(stack) = 1
         /\ \A i \in 1..Len(stack) : stack[i] \in Frame
         /\ uses \in [Names -> SUBSET Names] /\ cls \in Names
<1>1. stack \in Seq(Frame) /\ stack # << >>
  BY DEF IInv, TypeOK, Frame
<1>2. Len(stack) \in Nat /\ Len(stack) >= 1 /\ DOMAIN stack = 1..Len(stack)
      /\ \A i \in 1..Len(stack) : stack[i] \in Frame
  BY <1>1
<1>3. Top \in Frame /\ Top.holder \in Holders /\ Top.todo \subseteq Names
  BY <1>2 DEF Top, Frame
<1>4. Top.holder = Root <=> Len(stack) = 1
  BY <1>2, SchemaGenAssumption DEF IInv, CallsNest, Top
<1>5. uses \in [Names -> SUBSET Names] /\ cls \in Names
  BY SchemaGenAssumption DEF IInv, TypeOK
<1>6. QED
  BY <1>1, <1>2, <1>3, <1>4, <1>5

\* In a state of the invariant: the classes that the calls build.
LEMMA ActiveFacts ==
  ASSUME IInv
  PROVE  /\ \A i \in 2..Len(stack) : /\ stack[i].holder \in Names \ EnumNames
                                     /\ defs[stack[i].holder] = "placeholder"
         /\ \A i, j \in 1..Len(stack) : stack[i].holder = stack[j].holder => i = j
         /\ \A n \in Names : defs[n] = "placeholder" =>
              \E i \in 2..Len(stack) : stack[i].holder = n
         /\ Top.holder \in Names => defs[Top.holder] = "placeholder"
<1>1. CallsNest /\ PlaceholdersAreActive /\ DOMAIN stack = 1..Len(stack)
  BY TopFacts DEF IInv
<1>2. \A i \in 2..Len(stack) : /\ stack[i].holder \in Names \ EnumNames
                               /\ defs[stack[i].holder] = "placeholder"
  BY <1>1 DEF CallsNest, PlaceholdersAreActive
<1>3. Top.holder \in Names => Len(stack) \in 2..Len(stack)
  BY TopFacts, SchemaGenAssumption
<1>4. Top.holder \in Names => defs[Top.holder] = "placeholder"
  BY <1>2, <1>3 DEF Top
<1>5. QED
  BY <1>1, <1>2, <1>4 DEF PlaceholdersAreActive

\* What a call has yet to visit is in every closed set of names.
LEMMA TodoReachable ==
  ASSUME IInv, NEW S \in SUBSET Names, Closed(S)
  PROVE  Top.todo \subseteq S
<1>1. Top.todo \subseteq Mentions(Top.holder)
  BY TopFacts DEF IInv, PropsInProgress, Top
<1>2. CASE Len(stack) = 1
  BY <1>1, <1>2, TopFacts DEF Mentions, Closed
<1>3. CASE Len(stack) # 1
  <2>1. Top.holder \in Names /\ Top.holder # Root
    BY <1>3, TopFacts, SchemaGenAssumption DEF Holders
  <2>2. defs[Top.holder] = "placeholder"
    BY <2>1, ActiveFacts
  <2>3. Top.holder \in S
    BY <2>1, <2>2 DEF IInv, SchemaMinimal, Defined
  <2>4. QED
    BY <1>1, <2>1, <2>3 DEF Mentions, Closed
<1>4. QED
  BY <1>2, <1>3

\* A visit of a name that has an entry afterwards: the effect Refer and DefineEnum share.
LEMMA VisitPreserves ==
  ASSUME IInv, NEW n \in Top.todo, phase = "walking",
         defs' \in [Names -> {"absent", "placeholder", "complete"}],
         \A x \in Names \ {n} : defs'[x] = defs[x],
         \/ defs[n] # "absent" /\ defs'[n] = defs[n]
         \/ defs[n] = "absent" /\ n \in EnumNames /\ defs'[n] = "complete",
         stack' = Visited(stack, n),
         props' = [props EXCEPT ![Top.holder] = @ \cup {n}],
         UNCHANGED <<uses, cls, phase>>
  PROVE  IInv'
<1> USE SchemaGenAssumption
<1>0. n \in Names
  BY TopFacts
<1>a. TypeOK /\ CallsNest /\ PropsInProgress /\ RefsResolve /\ SchemaMinimal
  BY DEF IInv
<1>b. /\ Len(stack) \in Nat /\ Len(stack) >= 1
      /\ 1 \in 1..Len(stack) /\ Len(stack) \in 1..Len(stack)
      /\ \A i \in 2..Len(stack) : i \in 1..Len(stack)
      /\ \A i \in 1..Len(stack) : stack[i].holder \in Holders
  BY TopFacts DEF Frame
<1>c. /\ \A i \in 1..Len(stack) : stack[i].holder = Top.holder => i = Len(stack)
      /\ \A i, j \in 1..Len(stack) : stack[i].holder = stack[j].holder => i = j
  BY <1>b, ActiveFacts DEF Top
<1>1. /\ stack' \in Seq(Frame) /\ stack' # << >> /\ Len(stack') = Len(stack)
      /\ \A i \in 1..Len(stack) : stack'[i].holder = stack[i].holder
      /\ \A i \in 1..Len(stack) : i # Len(stack) => stack'[i] = stack[i]
      /\ stack'[Len(stack)].todo = Top.todo \ {n}
      /\ DOMAIN stack' = 1..Len(stack)
  <2>1. stack \in Seq(Frame) /\ stack # << >>
    BY TopFacts
  <2>2. /\ stack' \in Seq(Frame) /\ stack' # << >> /\ Len(stack') = Len(stack)
        /\ \A i \in 1..Len(stack) : stack'[i].holder = stack[i].holder
        /\ \A i \in 1..Len(stack) : i # Len(stack) => stack'[i] = stack[i]
        /\ stack'[Len(stack)].todo = stack[Len(stack)].todo \ {n}
    <3> DEFINE v == Visited(stack, n)
    <3>1. /\ v \in Seq(Frame) /\ v # << >> /\ Len(v) = Len(stack)
          /\ \A i \in 1..Len(stack) : v[i].holder = stack[i].holder
          /\ \A i \in 1..Len(stack) : i # Len(stack) => v[i] = stack[i]
          /\ v[Len(stack)].todo = stack[Len(stack)].todo \ {n}
      BY <1>0, <2>1, VisitedFacts
    <3>2. stack' = v
      OBVIOUS
    <3> HIDE DEF v
    <3>3. QED
      BY <3>1, <3>2
  <2>3. DOMAIN stack' = 1..Len(stack)
    BY <2>2
  <2>4. QED
    BY <2>2, <2>3, Zenon DEF Top
<1>2. /\ props' \in [Holders -> SUBSET Names]
      /\ props'[Top.holder] = props[Top.holder] \cup {n}
      /\ \A h \in Holders : h # Top.holder => props'[h] = props[h]
  BY <1>0, TopFacts DEF IInv, TypeOK
<1>3. TypeOK'
  BY <1>1, <1>2 DEF IInv, TypeOK, Frame, Holders
<1>4. CallsNest'
  <2>1. stack'[1].holder = Root
    BY <1>1, <1>a, <1>b DEF CallsNest
  <2>2. ASSUME NEW i \in 2..Len(stack)
        PROVE  stack'[i].holder \in Names \ EnumNames /\ stack'[i].holder \in stack'[i - 1].todo
    <3>1. i - 1 \in 1..Len(stack) /\ i - 1 # Len(stack) /\ i \in 1..Len(stack)
      BY <1>b
    <3>2. QED
      BY <1>1, <1>a, <3>1 DEF CallsNest
  <2>3. QED
    BY <1>1, <2>1, <2>2 DEF CallsNest
<1>5. defs'[n] # "placeholder" \/ defs'[n] = defs[n]
  OBVIOUS
<1>6. PlaceholdersAreActive'
  <2>1. \A x \in Names : defs'[x] = "placeholder" <=> defs[x] = "placeholder"
    BY <1>0
  <2>2. ASSUME NEW x \in Names
        PROVE  (\E i \in 2..Len(stack) : stack'[i].holder = x)
               <=> (\E i \in 2..Len(stack) : stack[i].holder = x)
    BY <1>1, <1>b
  <2>3. ASSUME NEW x \in Names
        PROVE  defs[x] = "placeholder" <=> \E i \in 2..Len(stack) : stack[i].holder = x
    BY ActiveFacts
  <2>4. \A i, j \in 1..Len(stack) : stack'[i].holder = stack'[j].holder => i = j
    BY <1>1, <1>c
  <2>5. \A x \in Names : defs'[x] = "placeholder" <=>
          \E i \in 2..Len(stack) : stack'[i].holder = x
    BY <2>1, <2>2, <2>3
  <2>6. Len(stack') = Len(stack) /\ DOMAIN stack' = 1..Len(stack)
    BY <1>1
  <2>7. QED
    BY <2>4, <2>5, <2>6 DEF PlaceholdersAreActive
<1>7. PropsInProgress'
  <2>1. Top.holder \in Names => defs[Top.holder] = "placeholder"
    BY ActiveFacts
  <2>2. ASSUME NEW i \in 1..Len(stack)
        PROVE  (props[stack[i].holder] \cup stack[i].todo = Mentions(stack[i].holder))'
    <3>1. Mentions(stack[i].holder)' = Mentions(stack[i].holder)
      BY <1>1 DEF Mentions
    <3>2. props[stack[i].holder] \cup stack[i].todo = Mentions(stack[i].holder)
      BY <1>a DEF PropsInProgress
    <3>3. CASE i = Len(stack)
      <4>1. stack'[i].holder = Top.holder /\ stack[i] = Top /\ stack'[i].todo = Top.todo \ {n}
        BY <1>1, <3>3 DEF Top
      <4>2. QED
        BY <1>2, <3>1, <3>2, <4>1
    <3>4. CASE i # Len(stack)
      <4>1. stack[i].holder # Top.holder /\ stack[i].holder \in Holders
        BY <1>b, <1>c, <3>4
      <4>2. QED
        BY <1>1, <1>2, <3>1, <3>2, <3>4, <4>1
    <3>5. QED
      BY <3>3, <3>4
  <2>3. ASSUME NEW x \in Names, defs'[x] = "complete"
        PROVE  props'[x] = uses'[x]
    <3>1. CASE x = n /\ defs[n] = "absent"
      <4>1. uses[n] = {} /\ props[n] = {} /\ n # Top.holder
        BY <1>0, <2>1, <3>1 DEF IInv, PropsInProgress, TypeOK
      <4>2. QED
        BY <1>0, <1>2, <3>1, <4>1 DEF Holders
    <3>2. CASE ~ (x = n /\ defs[n] = "absent")
      <4>1. defs[x] = "complete" /\ x # Top.holder
        BY <1>0, <2>1, <2>3, <3>2
      <4>2. QED
        BY <1>2, <4>1 DEF IInv, PropsInProgress, Holders
    <3>3. QED
      BY <3>1, <3>2
  <2>4. ASSUME NEW x \in Names, defs'[x] = "absent"
        PROVE  props'[x] = {}
    BY <1>0, <1>2, <2>1, <2>4 DEF IInv, PropsInProgress, Holders
  <2>5. QED
    BY <1>1, <2>2, <2>3, <2>4 DEF PropsInProgress
<1>8. Defined' = Defined \cup {n}
  BY <1>0 DEF Defined
<1>9. RefsResolve'
  BY <1>2, <1>8, TopFacts DEF IInv, RefsResolve
<1>10. SchemaMinimal'
  BY <1>8, TodoReachable DEF IInv, SchemaMinimal, Closed
<1>11. DoneIsUnwound'
  BY DEF DoneIsUnwound
<1>12. QED
  BY <1>3, <1>4, <1>6, <1>7, <1>9, <1>10, <1>11 DEF IInv

\* Entering a class reserves its entry and starts its call.
LEMMA EnterPreserves ==
  ASSUME IInv, NEW n \in Names, Enter(n)
  PROVE  IInv'
<1> USE SchemaGenAssumption
<1> DEFINE c == Call(n, uses[n])
           k == Len(stack)
<1>a. TypeOK /\ CallsNest /\ PropsInProgress /\ RefsResolve /\ SchemaMinimal
  BY DEF IInv
<1>b. /\ stack \in Seq(Frame) /\ k \in Nat /\ k >= 1 /\ 1 \in 1..k /\ k \in 1..k
      /\ \A i \in 1..k : stack[i].holder \in Holders
      /\ uses[n] \subseteq Names
  BY TopFacts DEF Frame
<1>c. /\ n \notin EnumNames /\ n \in Top.todo /\ n # Root /\ defs[n] = "absent"
      /\ defs' = [defs EXCEPT ![n] = "placeholder"]
      /\ stack' = Append(stack, c)
      /\ uses' = uses /\ cls' = cls /\ props' = props /\ phase' = "walking"
  BY DEF Enter
<1>d. c \in Frame /\ c.holder = n /\ c.todo = uses[n]
  BY <1>b DEF Frame, Call, Holders
<1> HIDE DEF c
<1>1. /\ stack' \in Seq(Frame) /\ stack' # << >> /\ Len(stack') = k + 1
      /\ DOMAIN stack' = 1..(k + 1)
      /\ \A i \in 1..k : stack'[i] = stack[i]
      /\ stack'[k + 1] = c
  BY <1>b, <1>c, <1>d, AppendProperties
<1>2. /\ defs' \in [Names -> {"absent", "placeholder", "complete"}]
      /\ defs'[n] = "placeholder" /\ \A x \in Names : x # n => defs'[x] = defs[x]
  BY <1>a, <1>c DEF TypeOK
<1>3. TypeOK'
  BY <1>1, <1>2, <1>a, <1>c DEF TypeOK, Frame, Holders
<1>4. CallsNest'
  <2>1. stack'[1].holder = Root
    BY <1>1, <1>a, <1>b DEF CallsNest
  <2>2. ASSUME NEW i \in 2..(k + 1)
        PROVE  stack'[i].holder \in Names \ EnumNames /\ stack'[i].holder \in stack'[i - 1].todo
    <3>1. CASE i = k + 1
      <4>1. i - 1 = k /\ stack'[i - 1] = Top
        BY <1>1, <1>b, <3>1 DEF Top
      <4>2. QED
        BY <1>1, <1>c, <1>d, <3>1, <4>1
    <3>2. CASE i # k + 1
      <4>1. i \in 2..k /\ i \in 1..k /\ i - 1 \in 1..k
        BY <1>b, <3>2
      <4>2. QED
        BY <1>1, <1>a, <4>1 DEF CallsNest
    <3>3. QED
      BY <3>1, <3>2
  <2>3. QED
    BY <1>1, <2>1, <2>2 DEF CallsNest
<1>5. \A i \in 1..k : stack[i].holder # n
  BY <1>b, <1>c, ActiveFacts, TopFacts DEF IInv, CallsNest
<1>6. PlaceholdersAreActive'
  <2>1. ASSUME NEW x \in Names
        PROVE  defs'[x] = "placeholder" <=> \E i \in 2..(k + 1) : stack'[i].holder = x
    <3>1. CASE x = n
      <4>1. k + 1 \in 2..(k + 1) /\ stack'[k + 1].holder = n
        BY <1>1, <1>b, <1>d
      <4>2. QED
        BY <1>2, <3>1, <4>1
    <3>2. CASE x # n
      <4>1. defs'[x] = defs[x]
        BY <1>2, <3>2
      <4>2. defs[x] = "placeholder" <=> \E i \in 2..k : stack[i].holder = x
        BY ActiveFacts
      <4>3. (\E i \in 2..k : stack[i].holder = x)
            <=> (\E i \in 2..(k + 1) : stack'[i].holder = x)
        <5>1. \A i \in 2..k : i \in 2..(k + 1) /\ i \in 1..k
          BY <1>b
        <5>2. \A i \in 2..(k + 1) : i \in 2..k \/ i = k + 1
          BY <1>b
        <5>3. QED
          BY <1>1, <1>d, <3>2, <5>1, <5>2
      <4>4. QED
        BY <4>1, <4>2, <4>3
    <3>3. QED
      BY <3>1, <3>2
  <2>2. ASSUME NEW i \in 1..(k + 1), NEW j \in 1..(k + 1), stack'[i].holder = stack'[j].holder
        PROVE  i = j
    <3>1. (i \in 1..k \/ i = k + 1) /\ (j \in 1..k \/ j = k + 1)
      BY <1>b
    <3>2. CASE i \in 1..k /\ j \in 1..k
      BY <1>1, <2>2, <3>2, ActiveFacts
    <3>3. CASE i = k + 1 \/ j = k + 1
      BY <1>1, <1>d, <1>5, <2>2, <3>1, <3>3
    <3>4. QED
      BY <3>1, <3>2, <3>3
  <2>3. QED
    BY <1>1, <2>1, <2>2 DEF PlaceholdersAreActive
<1>7. PropsInProgress'
  <2>1. ASSUME NEW i \in 1..(k + 1)
        PROVE  (props[stack[i].holder] \cup stack[i].todo = Mentions(stack[i].holder))'
    <3>1. CASE i = k + 1
      <4>1. props'[n] = {} /\ Mentions(stack[i].holder)' = uses[n]
        BY <1>1, <1>a, <1>c, <1>d, <3>1 DEF PropsInProgress, Mentions
      <4>2. QED
        BY <1>1, <1>d, <3>1, <4>1
    <3>2. CASE i # k + 1
      <4>1. i \in 1..k
        BY <1>b, <3>2
      <4>2. stack'[i] = stack[i] /\ Mentions(stack[i].holder)' = Mentions(stack[i].holder)
        BY <1>1, <1>c, <4>1 DEF Mentions
      <4>3. QED
        BY <1>a, <1>c, <4>1, <4>2 DEF PropsInProgress
    <3>3. QED
      BY <3>1, <3>2
  <2>2. \A x \in Names : defs'[x] = "complete" => props'[x] = uses'[x]
    BY <1>2, <1>a, <1>c DEF PropsInProgress
  <2>3. \A x \in Names : defs'[x] = "absent" => props'[x] = {}
    BY <1>2, <1>a, <1>c DEF PropsInProgress
  <2>4. QED
    BY <1>1, <2>1, <2>2, <2>3 DEF PropsInProgress
<1>8. Defined' = Defined \cup {n}
  BY <1>2 DEF Defined
<1>9. RefsResolve'
  BY <1>8, <1>a, <1>c DEF RefsResolve
<1>10. SchemaMinimal'
  BY <1>8, <1>a, <1>c, TodoReachable DEF SchemaMinimal, Closed
<1>11. DoneIsUnwound'
  BY <1>c DEF DoneIsUnwound
<1>12. QED
  BY <1>3, <1>4, <1>6, <1>7, <1>9, <1>10, <1>11 DEF IInv

\* Returning from a class completes its entry and gives its caller the reference.
LEMMA ReturnPreserves ==
  ASSUME IInv, Return
  PROVE  IInv'
<1> USE SchemaGenAssumption
<1> DEFINE k == Len(stack)
           n == Top.holder
           caller == SubSeq(stack, 1, k - 1)
<1>a. TypeOK /\ CallsNest /\ PropsInProgress /\ RefsResolve /\ SchemaMinimal
  BY DEF IInv
<1>b. /\ stack \in Seq(Frame) /\ k \in Nat /\ k >= 2 /\ k \in 2..k /\ k - 1 \in 1..k
      /\ \A i \in 1..k : stack[i].holder \in Holders
  BY TopFacts DEF Frame, Return
<1>c. /\ Top.todo = {}
      /\ defs' = [defs EXCEPT ![n] = "complete"]
      /\ stack' = Visited(caller, n)
      /\ props' = [props EXCEPT ![caller[Len(caller)].holder] = @ \cup {n}]
      /\ uses' = uses /\ cls' = cls /\ phase' = "walking"
  BY DEF Return
<1>d. /\ n = stack[k].holder /\ n \in Names \ EnumNames /\ n # Root
      /\ defs[n] = "placeholder" /\ n \in stack[k - 1].todo
  BY <1>a, <1>b, ActiveFacts DEF CallsNest, Top
<1>e. \A i \in 1..k : stack[i].holder = n => i = k
  BY <1>b, <1>d, ActiveFacts
<1>1. /\ caller \in Seq(Frame) /\ Len(caller) = k - 1
      /\ \A i \in 1..(k - 1) : caller[i] = stack[i]
  <2>1. caller \in Seq(Frame) /\ Len(caller) = k - 1
    BY <1>b, SubSeqProperties
  <2>2. \A i \in 1..(k - 1) : caller[i] = stack[i]
    BY <1>b, SubSeqProperties
  <2>3. QED
    BY <2>1, <2>2
<1> HIDE DEF caller
<1>g. caller # << >>
  BY <1>b, <1>1, EmptySeq
<1>2. /\ stack' \in Seq(Frame) /\ stack' # << >> /\ Len(stack') = k - 1
      /\ DOMAIN stack' = 1..(k - 1)
      /\ \A i \in 1..(k - 1) : stack'[i].holder = stack[i].holder
      /\ \A i \in 1..(k - 1) : i # k - 1 => stack'[i] = stack[i]
      /\ stack'[k - 1].todo = stack[k - 1].todo \ {n}
  <2> DEFINE v == Visited(caller, n)
  <2>0. /\ v \in Seq(Frame) /\ v # << >> /\ Len(v) = Len(caller)
        /\ \A i \in 1..Len(caller) : v[i].holder = caller[i].holder
        /\ \A i \in 1..Len(caller) : i # Len(caller) => v[i] = caller[i]
        /\ v[Len(caller)].todo = caller[Len(caller)].todo \ {n}
    <3>1. caller \in Seq(Frame) /\ caller # << >> /\ n \in Names
      BY <1>d, <1>g, <1>1
    <3> HIDE DEF n
    <3>2. QED
      BY <3>1, VisitedFacts
  <2> HIDE DEF v
  <2>1. /\ v \in Seq(Frame) /\ v # << >> /\ Len(v) = k - 1
        /\ \A i \in 1..(k - 1) : v[i].holder = caller[i].holder
        /\ \A i \in 1..(k - 1) : i # k - 1 => v[i] = caller[i]
        /\ v[k - 1].todo = caller[k - 1].todo \ {n}
    BY <1>1, <2>0
  <2>2. stack' = v
    BY <1>c DEF v
  <2>3. DOMAIN stack' = 1..(k - 1)
    BY <2>1, <2>2
  <2>4. k - 1 \in 1..(k - 1)
    BY <1>b
  <2>5. QED
    BY <1>1, <2>1, <2>2, <2>3, <2>4
<1> DEFINE h == stack[k - 1].holder
<1>3. /\ h \in Holders /\ h # n
      /\ props' \in [Holders -> SUBSET Names]
      /\ props'[h] = props[h] \cup {n}
      /\ \A x \in Holders : x # h => props'[x] = props[x]
  <2>1. h \in Holders /\ h # n /\ k - 1 \in 1..(k - 1)
    BY <1>b, <1>e
  <2>2. caller[Len(caller)].holder = h
    BY <1>1, <2>1
  <2>3. props' = [props EXCEPT ![h] = @ \cup {n}]
    BY <1>c, <2>2
  <2>4. QED
    BY <1>a, <1>d, <2>1, <2>3 DEF TypeOK
<1>f. h \in Names => defs[h] = "placeholder"
  <2>1. h \in Names => k - 1 \in 2..k
    BY <1>a, <1>b DEF CallsNest
  <2>2. QED
    BY <2>1, ActiveFacts
<1> HIDE DEF h
<1>4. /\ defs' \in [Names -> {"absent", "placeholder", "complete"}]
      /\ defs'[n] = "complete" /\ \A x \in Names : x # n => defs'[x] = defs[x]
  BY <1>a, <1>c, <1>d DEF TypeOK
<1>5. TypeOK'
  BY <1>2, <1>3, <1>4, <1>a, <1>c DEF TypeOK, Frame, Holders
<1>6. CallsNest'
  <2>1. stack'[1].holder = Root
    BY <1>2, <1>a, <1>b DEF CallsNest
  <2>2. ASSUME NEW i \in 2..(k - 1)
        PROVE  stack'[i].holder \in Names \ EnumNames /\ stack'[i].holder \in stack'[i - 1].todo
    <3>1. i \in 2..k /\ i \in 1..(k - 1) /\ i - 1 \in 1..(k - 1) /\ i - 1 # k - 1
      BY <1>b
    <3>2. QED
      BY <1>2, <1>a, <3>1 DEF CallsNest
  <2>3. QED
    BY <1>2, <2>1, <2>2 DEF CallsNest
<1>7. PlaceholdersAreActive'
  <2>0. /\ \A i \in 2..(k - 1) : i \in 2..k /\ i \in 1..(k - 1) /\ i # k
        /\ \A i \in 1..(k - 1) : i \in 1..k /\ i # k
        /\ \A i \in 2..k : i \in 1..k /\ (i \in 2..(k - 1) \/ i = k)
    BY <1>b
  <2>1. ASSUME NEW x \in Names
        PROVE  defs'[x] = "placeholder" <=> \E i \in 2..(k - 1) : stack'[i].holder = x
    <3>1. CASE x = n
      BY <1>2, <1>4, <1>e, <2>0, <3>1
    <3>2. CASE x # n
      <4>1. defs'[x] = defs[x]
        BY <1>4, <3>2
      <4>2. defs[x] = "placeholder" <=> \E i \in 2..k : stack[i].holder = x
        BY ActiveFacts
      <4>3. (\E i \in 2..k : stack[i].holder = x)
            <=> (\E i \in 2..(k - 1) : stack'[i].holder = x)
        BY <1>2, <1>d, <2>0, <3>2
      <4>4. QED
        BY <4>1, <4>2, <4>3
    <3>3. QED
      BY <3>1, <3>2
  <2>2. ASSUME NEW i \in 1..(k - 1), NEW j \in 1..(k - 1), stack'[i].holder = stack'[j].holder
        PROVE  i = j
    BY <1>2, <2>0, <2>2, ActiveFacts
  <2>3. QED
    BY <1>2, <2>1, <2>2 DEF PlaceholdersAreActive
<1>8. PropsInProgress'
  <2>1. ASSUME NEW i \in 1..(k - 1)
        PROVE  (props[stack[i].holder] \cup stack[i].todo = Mentions(stack[i].holder))'
    <3>0. i \in 1..k
      BY <1>b
    <3>1. Mentions(stack[i].holder)' = Mentions(stack[i].holder)
      BY <1>2, <1>c DEF Mentions
    <3>2. props[stack[i].holder] \cup stack[i].todo = Mentions(stack[i].holder)
      BY <1>a, <3>0 DEF PropsInProgress
    <3>3. CASE i = k - 1
      <4>1. stack'[i].holder = h /\ stack[i].holder = h /\ stack'[i].todo = stack[i].todo \ {n}
        BY <1>2, <3>3 DEF h
      <4>2. n \in stack[i].todo
        BY <1>d, <3>3
      <4>3. QED
        BY <1>3, <3>1, <3>2, <4>1, <4>2
    <3>4. CASE i # k - 1
      <4>1. stack[i].holder # h /\ stack[i].holder \in Holders
        BY <1>b, <3>0, <3>4, ActiveFacts DEF h
      <4>2. QED
        BY <1>2, <1>3, <3>1, <3>2, <3>4, <4>1
    <3>5. QED
      BY <3>3, <3>4
  <2>2. ASSUME NEW x \in Names, defs'[x] = "complete"
        PROVE  props'[x] = uses'[x]
    <3>1. CASE x = n
      <4>1. k \in 1..k /\ stack[k] = Top
        BY <1>b DEF Top
      <4>2. props[n] \cup {} = Mentions(n)
        BY <1>a, <1>c, <4>1 DEF PropsInProgress
      <4>3. props[n] = uses[n]
        BY <1>d, <4>2 DEF Mentions
      <4>4. QED
        BY <1>3, <1>c, <1>d, <3>1, <4>3 DEF Holders
    <3>2. CASE x # n
      <4>1. defs[x] = "complete" /\ x # h
        BY <1>4, <1>f, <2>2, <3>2
      <4>2. QED
        BY <1>3, <1>a, <1>c, <4>1 DEF PropsInProgress, Holders
    <3>3. QED
      BY <3>1, <3>2
  <2>3. ASSUME NEW x \in Names, defs'[x] = "absent"
        PROVE  props'[x] = {}
    <3>1. defs[x] = "absent" /\ x # h
      BY <1>4, <1>f, <2>3
    <3>2. QED
      BY <1>3, <1>a, <3>1 DEF PropsInProgress, Holders
  <2>4. QED
    BY <1>2, <2>1, <2>2, <2>3 DEF PropsInProgress
<1>9. Defined' = Defined
  BY <1>4, <1>d DEF Defined
<1>10. RefsResolve'
  <2>1. n \in Defined
    BY <1>d DEF Defined
  <2>2. QED
    BY <1>3, <1>9, <1>a, <2>1 DEF RefsResolve
<1>11. SchemaMinimal'
  BY <1>9, <1>a, <1>c DEF SchemaMinimal, Closed
<1>12. DoneIsUnwound'
  BY <1>c DEF DoneIsUnwound
<1>13. QED
  BY <1>5, <1>6, <1>7, <1>8, <1>10, <1>11, <1>12 DEF IInv

\* Every step of the walk preserves the invariant: one case per action.
LEMMA NextIInv == IInv /\ [Next]_vars => IInv'
<1> SUFFICES ASSUME IInv, [Next]_vars PROVE IInv'
  OBVIOUS
<1>1. CASE \E n \in Names : Refer(n)
  <2>1. PICK n \in Names : Refer(n)
    BY <1>1
  <2>2. defs \in [Names -> {"absent", "placeholder", "complete"}]
    BY DEF IInv, TypeOK
  <2>3. QED
    BY <2>1, <2>2, VisitPreserves DEF Refer
<1>2. CASE \E n \in Names : DefineEnum(n)
  <2>1. PICK n \in Names : DefineEnum(n)
    BY <1>2
  <2>2. defs \in [Names -> {"absent", "placeholder", "complete"}]
    BY DEF IInv, TypeOK
  <2>3. /\ defs' \in [Names -> {"absent", "placeholder", "complete"}]
        /\ defs'[n] = "complete" /\ \A x \in Names \ {n} : defs'[x] = defs[x]
    BY <2>1, <2>2 DEF DefineEnum
  <2>4. QED
    BY <2>1, <2>3, VisitPreserves DEF DefineEnum
<1>3. CASE \E n \in Names : Enter(n)
  BY <1>3, EnterPreserves
<1>4. CASE Return
  BY <1>4, ReturnPreserves
<1>5. CASE Finish
  <2>1. /\ UNCHANGED <<uses, cls, defs, props, stack>> /\ phase' = "done"
        /\ Len(stack) = 1 /\ Top.todo = {}
    BY <1>5 DEF Finish
  <2>2. TypeOK' /\ CallsNest' /\ PlaceholdersAreActive' /\ PropsInProgress'
        /\ RefsResolve' /\ SchemaMinimal'
    BY <2>1 DEF IInv, TypeOK, CallsNest, PlaceholdersAreActive, PropsInProgress, Mentions,
                RefsResolve, SchemaMinimal, Closed, Defined
  <2>3. DoneIsUnwound'
    BY <2>1 DEF DoneIsUnwound, Top
  <2>4. QED
    BY <2>2, <2>3 DEF IInv
<1>6. CASE UNCHANGED vars
  BY <1>6 DEF vars, IInv, TypeOK, CallsNest, PlaceholdersAreActive, PropsInProgress, Mentions,
              RefsResolve, SchemaMinimal, Closed, Defined, DoneIsUnwound
<1>7. QED
  BY <1>1, <1>2, <1>3, <1>4, <1>5, <1>6 DEF Next

\* The invariant holds throughout the walk of json_schema, whatever the catalogue.
THEOREM WalkInvariant == Spec => []IInv
<1>1. QED
  BY InitIInv, NextIInv, PTL DEF Spec

\* The variables of the walk keep their types.
THEOREM TypeCorrect == Spec => []TypeOK
<1>1. IInv => TypeOK
  BY DEF IInv
<1>2. QED
  BY <1>1, WalkInvariant, PTL

\* At no time does a $ref that json_schema has written lack its entry of $defs.
THEOREM RefsAlwaysResolve == Spec => []RefsResolve
<1>1. IInv => RefsResolve
  BY DEF IInv
<1>2. QED
  BY <1>1, WalkInvariant, PTL

\* The placeholders are exactly the classes under construction, and none is entered twice.
THEOREM PlaceholdersBreakRecursion == Spec => []PlaceholdersAreActive
<1>1. IInv => PlaceholdersAreActive
  BY DEF IInv
<1>2. QED
  BY <1>1, WalkInvariant, PTL

\* The schema json_schema returns is self-contained.
THEOREM SchemaIsSelfContained == Spec => []SchemaSelfContained
<1>1. IInv => SchemaSelfContained
  <2> SUFFICES ASSUME IInv, phase = "done"
               PROVE  /\ \A n \in Defined : defs[n] = "complete" /\ props[n] = uses[n]
                      /\ props[Root] = uses[cls]
                      /\ Closed(Defined)
    BY DEF SchemaSelfContained
  <2>1. Len(stack) = 1 /\ stack[1].todo = {} /\ stack[1].holder = Root
    BY DEF IInv, DoneIsUnwound, CallsNest
  <2>2. props[Root] \cup {} = Mentions(Root)
    BY <2>1 DEF IInv, PropsInProgress
  <2>3. props[Root] = uses[cls]
    BY <2>2 DEF Mentions
  <2>4. \A n \in Names : defs[n] # "placeholder"
    <3>1. 2..Len(stack) = {}
      BY <2>1
    <3>2. QED
      BY <3>1, ActiveFacts
  <2>5. \A n \in Defined : n \in Names /\ defs[n] = "complete" /\ props[n] = uses[n]
    BY <2>4 DEF IInv, TypeOK, PropsInProgress, Defined
  <2>6. Closed(Defined)
    BY <2>3, <2>5 DEF IInv, RefsResolve, Closed, Holders
  <2>7. QED
    BY <2>3, <2>5, <2>6
<1>2. QED
  BY <1>1, WalkInvariant, PTL

\* Nothing gets into $defs that the root class does not reach.
THEOREM SchemaIsMinimal == Spec => []SchemaMinimal
<1>1. IInv => SchemaMinimal
  BY DEF IInv
<1>2. QED
  BY <1>1, WalkInvariant, PTL

\* Only the entry under construction changes: json_schema never rewrites a complete one.  What
\* a complete entry refers to is fixed by its class (PropsInProgress, before and after a step),
\* so it is enough that it stays complete.
THEOREM CompleteEntriesAreFinal == Spec => CompleteIsFinal
<1>1. ASSUME IInv, IInv', [Next]_vars, NEW n \in Names, defs[n] = "complete"
      PROVE  defs'[n] = "complete" /\ props'[n] = props[n]
  <2>a. defs \in [Names -> {"absent", "placeholder", "complete"}]
    BY <1>1 DEF IInv, TypeOK
  <2>1. defs'[n] = "complete"
    <3>1. CASE \E m \in Names : Refer(m)
      BY <1>1, <3>1 DEF Refer
    <3>2. CASE \E m \in Names : DefineEnum(m)
      BY <1>1, <3>2, <2>a DEF DefineEnum
    <3>3. CASE \E m \in Names : Enter(m)
      BY <1>1, <3>3, <2>a DEF Enter
    <3>4. CASE Return
      BY <1>1, <3>4, <2>a DEF Return
    <3>5. CASE Finish
      BY <1>1, <3>5 DEF Finish
    <3>6. CASE UNCHANGED vars
      BY <1>1, <3>6 DEF vars
    <3>7. QED
      BY <1>1, <3>1, <3>2, <3>3, <3>4, <3>5, <3>6 DEF Next
  <2>2. uses' = uses
    BY <1>1 DEF Next, Refer, DefineEnum, Enter, Return, Finish, vars
  <2>3. props[n] = uses[n] /\ props'[n] = uses'[n]
    BY <1>1, <2>1 DEF IInv, PropsInProgress
  <2>4. QED
    BY <2>1, <2>2, <2>3
<1>2. IInv /\ IInv' /\ [Next]_vars =>
        \A n \in Names : defs[n] = "complete" => defs'[n] = "complete" /\ props'[n] = props[n]
  BY <1>1
<1>3. QED
  BY <1>2, WalkInvariant, PTL DEF Spec, CompleteIsFinal

=============================================================================
