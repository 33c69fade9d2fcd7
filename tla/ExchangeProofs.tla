--------------------------- MODULE ExchangeProofs ----------------------------
(***************************************************************************)
(* Theorems about the exchange of artifacts between minor versions.        *)
(***************************************************************************)
EXTENDS Compatibility, TLAPS

-----------------------------------------------------------------------------
(***************************************************************************)
(* Recursion unfolded.  Everything that the codec descends into is nested  *)
(* in the value, so that a finitely nested value is one for all of them.   *)
(***************************************************************************)
\* What the encoder, the decoder and the projection descend into is nested no deeper than the value.
LEMMA NestedWithin ==
  ASSUME NEW n0 \in Nat, NEW v0, Nesting!Within(v0, n0)
  PROVE  /\ Encoding!Within(v0, n0)
         /\ \A t, m : Decoding!Within(Typed(t, v0, m), n0)
         /\ \A m : Projecting!Within(ReadAt(v0, m), n0)
<1> DEFINE P(v, n) == /\ Encoding!Within(v, n)
                      /\ \A t, m : Decoding!Within(Typed(t, v, m), n)
                      /\ \A m : Projecting!Within(ReadAt(v, m), n)
           S == {n \in Nat : \A v : Nesting!Within(v, n) => P(v, n)}
<1>1. 0 \in S
  BY Nesting!NotWithinZero
<1>2. ASSUME NEW n \in S PROVE n + 1 \in S
  <2> SUFFICES ASSUME NEW v, Nesting!Within(v, n + 1) PROVE P(v, n + 1)
    OBVIOUS
  <2>1. \A k \in Places(v) : P(ContentAt(v, k), n)
    BY Nesting!WithinStep
  <2>2. WrittenKeys(v) \subseteq Places(v)
    BY DEF WrittenKeys, Places, SetFields, Contents
  <2>3. Encoding!Within(v, n + 1)
    BY <2>1, <2>2, Encoding!WithinStep
  <2>4. ASSUME NEW t, NEW m PROVE Decoding!Within(Typed(t, v, m), n + 1)
    <3>1. ReadKeys(Typed(t, v, m)) \subseteq Places(v)
      BY DEF ReadKeys, Places, Typed
    <3>2. \A k : ReadPart(Typed(t, v, m), k) = Typed(HintAt(Bare(t), k, m), ContentAt(v, k), m)
      BY DEF ReadPart, Typed, ContentAt
    <3> QED BY <2>1, <3>1, <3>2, Decoding!WithinStep
  <2>5. ASSUME NEW m PROVE Projecting!Within(ReadAt(v, m), n + 1)
    <3>1. SharedKeys(ReadAt(v, m)) \subseteq Places(v)
      BY DEF SharedKeys, Places, ReadAt, Contents
    <3>2. \A k : SharedPart(ReadAt(v, m), k) = ReadAt(ContentAt(v, k), m)
      BY DEF SharedPart, ReadAt, ContentAt
    <3> QED BY <2>1, <3>1, <3>2, Projecting!WithinStep
  <2> QED BY <2>3, <2>4, <2>5
<1>3. \A n \in Nat : n \in S
  <2>1. S \subseteq Nat
    OBVIOUS
  <2> HIDE DEF S
  <2> QED BY <1>1, <1>2, <2>1, Nesting!NatInduct
<1> QED BY <1>3

\* A finitely nested value is one to all of them, and so is what is nested in it.
LEMMA NestedFinite ==
  ASSUME NEW v, Nesting!Finite(v)
  PROVE  /\ Encoding!Finite(v)
         /\ \A t, m : Decoding!Finite(Typed(t, v, m))
         /\ \A m : Projecting!Finite(ReadAt(v, m))
         /\ \A k \in Places(v) : Nesting!Finite(ContentAt(v, k))
BY NestedWithin, Nesting!PartFinite DEF Nesting!Finite, Encoding!Finite, Decoding!Finite, Projecting!Finite

\* to_jsonable
LEMMA ToJsonableUnfold ==
  ASSUME NEW v, Nesting!Finite(v)
  PROVE  ToJsonable(v) = Encode(v, [k \in WrittenKeys(v) |-> ToJsonable(Contents(v)[k])])
BY NestedFinite, Encoding!FoldEquation DEF ToJsonable, ContentAt

\* from_jsonable
LEMMA FromJsonableUnfold ==
  ASSUME NEW t, NEW v, NEW m, Nesting!Finite(v)
  PROVE  FromJsonable(t, v, m) =
           Decode(Typed(t, v, m), [k \in ReadKeys(Typed(t, v, m)) |->
                                     FromJsonable(HintAt(Bare(t), k, m), Contents(v)[k], m)])
<1>1. \A k : ReadPart(Typed(t, v, m), k) = Typed(HintAt(Bare(t), k, m), Contents(v)[k], m)
  BY DEF ReadPart, Typed
<1> QED BY <1>1, NestedFinite, Decoding!FoldEquation DEF FromJsonable

\* What a version can express of a value, by what it can express of the contents.
LEMMA ProjectUnfold ==
  ASSUME NEW v, NEW m, Nesting!Finite(v)
  PROVE  Project(v, m) =
           Express(ReadAt(v, m), [k \in SharedKeys(ReadAt(v, m)) |-> Project(Contents(v)[k], m)])
<1>1. \A k : SharedPart(ReadAt(v, m), k) = ReadAt(Contents(v)[k], m)
  BY DEF SharedPart, ReadAt
<1> QED BY <1>1, NestedFinite, Projecting!FoldEquation DEF Project

\* What WellTyped asks of a value itself.
FitsHere(t, v, m) == (t.k = "opt" /\ v = None) \/ HasShape(Bare(t), v, m)

\* A value is well typed if it has the shape and its contents are well typed.
LEMMA WellTypedUnfold ==
  ASSUME NEW t, NEW v, NEW m, Nesting!Finite(v)
  PROVE  WellTyped(t, v, m) <=>
           /\ FitsHere(t, v, m)
           /\ \A k \in ReadKeys(Typed(t, v, m)) : WellTyped(HintAt(Bare(t), k, m), Contents(v)[k], m)
<1>1. \A k : ReadPart(Typed(t, v, m), k) = Typed(HintAt(Bare(t), k, m), Contents(v)[k], m)
  BY DEF ReadPart, Typed
<1>2. Decoding!Reach(Typed(t, v, m)) =
        {Typed(t, v, m)} \cup
        UNION {Decoding!Reach(ReadPart(Typed(t, v, m), k)) : k \in ReadKeys(Typed(t, v, m))}
  BY NestedFinite, Decoding!ReachEquation
<1>3. FitsHere(t, v, m) <=> (\A x \in {Typed(t, v, m)} :
                               (x.t.k = "opt" /\ x.v = None) \/ HasShape(Bare(x.t), x.v, m))
  BY DEF FitsHere, Typed
<1> QED BY <1>1, <1>2, <1>3 DEF WellTyped

\* The schema accepts data if it accepts the data itself and what is nested in it.
LEMMA ValidatesUnfold ==
  ASSUME NEW t, NEW v, NEW m, NEW exact, Nesting!Finite(v)
  PROVE  Validates(t, v, m, exact) <=>
           /\ ValidatesHere(Bare(t), v, m, exact)
           /\ \A k \in ReadKeys(Typed(t, v, m)) :
                Validates(HintAt(Bare(t), k, m), Contents(v)[k], m, exact)
<1>1. \A k : ReadPart(Typed(t, v, m), k) = Typed(HintAt(Bare(t), k, m), Contents(v)[k], m)
  BY DEF ReadPart, Typed
<1>2. Decoding!Reach(Typed(t, v, m)) =
        {Typed(t, v, m)} \cup
        UNION {Decoding!Reach(ReadPart(Typed(t, v, m), k)) : k \in ReadKeys(Typed(t, v, m))}
  BY NestedFinite, Decoding!ReachEquation
<1>3. ValidatesHere(Bare(t), v, m, exact) <=>
        (\A x \in {Typed(t, v, m)} : ValidatesHere(Bare(x.t), x.v, m, exact))
  BY DEF Typed
<1> QED BY <1>1, <1>2, <1>3 DEF Validates

\* A value is JSON if it is of a kind of JSON and its contents are JSON.
LEMMA IsJsonUnfold ==
  ASSUME NEW v, Nesting!Finite(v)
  PROVE  IsJson(v) <=> v.k \in JsonKinds /\ \A k \in Places(v) : IsJson(Contents(v)[k])
<1>1. Nesting!Reach(v) = {v} \cup UNION {Nesting!Reach(ContentAt(v, k)) : k \in Places(v)}
  BY Nesting!ReachEquation
<1> QED BY <1>1 DEF IsJson, ContentAt

-----------------------------------------------------------------------------
(***************************************************************************)
(* What the codec returns is finitely nested too.                          *)
(***************************************************************************)
LEMMA RaisedIsPart ==
  ASSUME NEW parts, Raises(parts)
  PROVE  IsError(Raised(parts)) /\ \E i \in DOMAIN parts : Raised(parts) = parts[i]
BY DEF Raises, Raised

\* The kinds of values that have no contents.
Leaves == {"none", "str", "int", "float", "bool", "enum", "error", "other"}

\* A value without contents is one level.
LEMMA LeafWithin ==
  ASSUME NEW v, v.k \in Leaves, NEW n \in Nat
  PROVE  Places(v) = {} /\ Nesting!Within(v, n + 1) /\ Nesting!Finite(v)
<1>1. Places(v) = {}
  BY DEF Places, Contents, Leaves
<1>2. Nesting!Within(v, n + 1)
  BY <1>1, Nesting!WithinStep
<1> QED BY <1>1, <1>2 DEF Nesting!Finite

\* A composite is nested one deeper than its parts.
LEMMA CompositeWithin ==
  ASSUME NEW parts, NEW name, NEW n \in Nat, \A k \in DOMAIN parts : Nesting!Within(parts[k], n)
  PROVE  /\ Nesting!Within(ListV(parts), n + 1)
         /\ Nesting!Within(DictV(parts), n + 1)
         /\ Nesting!Within(DataV(name, parts), n + 1)
<1>1. /\ Contents(ListV(parts)) = parts /\ Contents(DictV(parts)) = parts
      /\ Contents(DataV(name, parts)) = parts
  BY DEF Contents, ListV, DictV, DataV
<1> QED BY <1>1, Nesting!WithinStep DEF Places, ContentAt

\* to_jsonable nests nothing deeper than the object.
LEMMA ToJsonableWithin ==
  ASSUME NEW n0 \in Nat, NEW v0, Nesting!Within(v0, n0)
  PROVE  Nesting!Within(ToJsonable(v0), n0)
<1> DEFINE S == {n \in Nat : \A v : Nesting!Within(v, n) => Nesting!Within(ToJsonable(v), n)}
<1>1. 0 \in S
  BY Nesting!NotWithinZero
<1>2. ASSUME NEW n \in S PROVE n + 1 \in S
  <2> SUFFICES ASSUME NEW v, Nesting!Within(v, n + 1) PROVE Nesting!Within(ToJsonable(v), n + 1)
    OBVIOUS
  <2> DEFINE parts == [k \in WrittenKeys(v) |-> ToJsonable(Contents(v)[k])]
  <2>1. ToJsonable(v) = Encode(v, parts)
    BY ToJsonableUnfold DEF Nesting!Finite
  <2>2. \A k \in DOMAIN parts : Nesting!Within(parts[k], n)
    <3>1. WrittenKeys(v) \subseteq Places(v)
      BY DEF WrittenKeys, Places, SetFields, Contents
    <3>2. \A k \in Places(v) : Nesting!Within(Contents(v)[k], n)
      BY Nesting!WithinStep DEF ContentAt
    <3> QED BY <3>1, <3>2
  <2> HIDE DEF parts
  <2>3. CASE ToJsonable(v) \in {DictV(parts), ListV(parts)}
    BY <2>2, <2>3, CompositeWithin
  <2>4. CASE Raises(parts) /\ ToJsonable(v) = Raised(parts)
    BY <2>2, <2>4, RaisedIsPart, Nesting!WithinMore
  <2>5. CASE ToJsonable(v).k \in Leaves
    BY <2>5, LeafWithin
  <2>6. \/ ToJsonable(v) \in {DictV(parts), ListV(parts)}
        \/ Raises(parts) /\ ToJsonable(v) = Raised(parts)
        \/ ToJsonable(v).k \in Leaves
    BY <2>1 DEF Encode, Leaves, StrV, ContractError, ErrorV
  <2> QED BY <2>3, <2>4, <2>5, <2>6
<1>3. \A n \in Nat : n \in S
  <2>1. S \subseteq Nat
    OBVIOUS
  <2> HIDE DEF S
  <2> QED BY <1>1, <1>2, <2>1, Nesting!NatInduct
<1> QED BY <1>3

\* A finitely nested object is finitely nested on the wire.
LEMMA ToJsonableFinite ==
  ASSUME NEW v, Nesting!Finite(v)
  PROVE  Nesting!Finite(ToJsonable(v))
BY ToJsonableWithin DEF Nesting!Finite

\* A projection nests no deeper than the object, but for the None of a field that it adds.
LEMMA ProjectWithin ==
  ASSUME NEW n0 \in Nat, NEW v0, NEW m, Nesting!Within(v0, n0)
  PROVE  Nesting!Within(Project(v0, m), n0 + 1)
<1> DEFINE S == {n \in Nat : \A v : Nesting!Within(v, n) => Nesting!Within(Project(v, m), n + 1)}
<1>1. 0 \in S
  BY Nesting!NotWithinZero
<1>2. ASSUME NEW n \in S PROVE n + 1 \in S
  <2> SUFFICES ASSUME NEW v, Nesting!Within(v, n + 1) PROVE Nesting!Within(Project(v, m), (n + 1) + 1)
    OBVIOUS
  <2> DEFINE parts == [k \in SharedKeys(ReadAt(v, m)) |-> Project(Contents(v)[k], m)]
             fields == [f \in DOMAIN Class(v.name, m) |-> IF f \in DOMAIN parts THEN parts[f] ELSE None]
  <2>1. Project(v, m) = Express(ReadAt(v, m), parts)
    BY ProjectUnfold DEF Nesting!Finite
  <2>2. \A k \in DOMAIN parts : Nesting!Within(parts[k], n + 1)
    <3>1. SharedKeys(ReadAt(v, m)) \subseteq Places(v)
      BY DEF SharedKeys, Places, Contents, ReadAt
    <3>2. \A k \in Places(v) : Nesting!Within(Contents(v)[k], n)
      BY Nesting!WithinStep DEF ContentAt
    <3> QED BY <3>1, <3>2
  <2> HIDE DEF parts
  <2>3. Nesting!Within(None, n + 1)
    BY LeafWithin DEF Leaves, None
  <2>4. \A f \in DOMAIN fields : Nesting!Within(fields[f], n + 1)
    BY <2>2, <2>3
  <2> HIDE DEF fields
  <2>5. CASE Project(v, m) \in {DictV(parts), ListV(parts), DataV(v.name, fields)}
    BY <2>2, <2>4, <2>5, CompositeWithin
  <2>6. CASE Project(v, m).k = "enum"
    <3>1. Project(v, m).k \in Leaves /\ n + 1 \in Nat
      BY <2>6 DEF Leaves
    <3> QED BY <3>1, LeafWithin
  <2>7. CASE Project(v, m) = v
    BY <2>7, Nesting!WithinMore
  <2>8. \/ Project(v, m) \in {DictV(parts), ListV(parts), DataV(v.name, fields)}
        \/ Project(v, m).k = "enum"
        \/ Project(v, m) = v
    BY <2>1 DEF Express, EnumV, ReadAt, fields
  <2> QED BY <2>5, <2>6, <2>7, <2>8
<1>3. \A n \in Nat : n \in S
  <2>1. S \subseteq Nat
    OBVIOUS
  <2> HIDE DEF S
  <2> QED BY <1>1, <1>2, <2>1, Nesting!NatInduct
<1> QED BY <1>3

\* The projection of a finitely nested object is finitely nested.
LEMMA ProjectFinite ==
  ASSUME NEW v, NEW m, Nesting!Finite(v)
  PROVE  Nesting!Finite(Project(v, m))
BY ProjectWithin DEF Nesting!Finite

-----------------------------------------------------------------------------
\* What the catalogue's rules say of a hint.
LEMMA HintFacts ==
  ASSUME NEW m \in Minors, NEW t \in Hints(m)
  PROVE  LET s == Bare(t)
         IN  /\ s \in Hints(m)
             /\ s.k \in {"any", "list", "dict", "enum", "data", "float", "int", "bool", "str"}
             /\ t.k = "opt" => s.k # "any"
             /\ s.k \in {"list", "dict"} => s.of \in Hints(m) /\ s.of.k # "opt"
             /\ s.k = "enum" => "unknown" \in Members(s.name, m)
             /\ s.k = "data" => s.name \in Known(m)
<1>1. HintRule(m)
  BY CatalogueRules
<1>2. Bare(t) \in Hints(m) /\ Bare(t).k # "opt" /\ (t.k = "opt" => Bare(t).k # "any")
  BY <1>1 DEF HintRule, Bare
<1> QED BY <1>1, <1>2 DEF HintRule

\* The type of a declared field is a hint.
LEMMA FieldHint ==
  ASSUME NEW m \in Minors, NEW n \in Known(m), NEW f \in DOMAIN Class(n, m)
  PROVE  Class(n, m)[f].type \in Hints(m)
BY DEF Hints, Declared

\* Every class of a version is a hint, one that is not "| None".
LEMMA DataHint ==
  ASSUME NEW m \in Minors, NEW n \in Known(m)
  PROVE  Data(n) \in Hints(m) /\ Data(n).k = "data" /\ Data(n).name = n /\ Bare(Data(n)) = Data(n)
BY DEF Hints, Data, Bare

\* What is nested in a value that is read as a hint is read as a hint.
LEMMA PartHint ==
  ASSUME NEW m \in Minors, NEW t \in Hints(m), NEW v, NEW k \in ReadKeys(Typed(t, v, m))
  PROVE  HintAt(Bare(t), k, m) \in Hints(m) /\ k \in Places(v)
<1>1. CASE Bare(t).k \in {"list", "dict"}
  BY <1>1, HintFacts DEF HintAt, ReadKeys, Typed, Places
<1>2. CASE Bare(t).k = "data"
  <2>1. Bare(t).name \in Known(m)
    BY <1>2, HintFacts
  <2>2. k \in DOMAIN Class(Bare(t).name, m) /\ k \in Places(v)
    BY <1>2 DEF ReadKeys, Typed, Places
  <2> QED BY <1>2, <2>1, <2>2, FieldHint DEF HintAt
<1>3. Bare(t).k \in {"list", "dict", "data"}
  BY DEF ReadKeys, Typed
<1> QED BY <1>1, <1>2, <1>3

\* A value within Python's recursion limit is finitely nested.
LEMMA ShallowWithin ==
  ASSUME NEW v, Shallow(v)
  PROVE  Nesting!Within(v, RecursionLimit) /\ Nesting!Finite(v)
BY Nesting!WithinLater DEF Shallow, RecursionLimit, Nesting!Finite

\* A field that is absent decodes to its default, to None or to an error.
LEMMA AbsentWithin ==
  ASSUME NEW m \in Minors, NEW n \in Known(m), NEW f \in DOMAIN Class(n, m)
  PROVE  Nesting!Within(AbsentField(Class(n, m)[f], m), RecursionLimit)
<1> DEFINE field == Class(n, m)[f]
<1>1. DefaultRule(m)
  BY CatalogueRules
<1>2. CASE field.default # << >>
  <2>1. Shallow(DefaultOf(field, m))
    BY <1>1, <1>2 DEF DefaultRule
  <2>2. AbsentField(field, m) = DefaultOf(field, m)
    BY <1>2 DEF AbsentField
  <2> QED BY <2>1, <2>2, ShallowWithin
<1>3. CASE field.default = << >>
  <2>1. AbsentField(field, m).k \in Leaves
    BY <1>3 DEF AbsentField, None, ContractError, ErrorV, Leaves
  <2>2. PICK r \in Nat : r + 1 = RecursionLimit
    <3>1. 999 \in Nat /\ 999 + 1 = RecursionLimit
      BY DEF RecursionLimit
    <3> QED BY <3>1
  <2>3. Nesting!Within(AbsentField(field, m), r + 1)
    BY <2>1, LeafWithin
  <2> QED BY <2>2, <2>3
<1> QED BY <1>2, <1>3

\* from_jsonable, branch by branch.
LEMMA DecodeBranch ==
  ASSUME NEW t, NEW data, NEW m, NEW parts
  PROVE  LET result == DecodeBare(t, data, m, parts)
         IN  /\ t.k = "any" => result = data
             /\ t.k = "list" => result = IF data.k # "list" THEN ContractError
                                        ELSE IF Raises(parts) THEN Raised(parts) ELSE ListV(parts)
             /\ t.k = "dict" => result = IF data.k # "dict" THEN ContractError
                                        ELSE IF Raises(parts) THEN Raised(parts) ELSE DictV(parts)
             /\ t.k = "enum"  => result = DecodeEnum(t.name, data, m)
             /\ t.k = "data"  => result = DecodeData(t.name, data, m, parts)
             /\ t.k = "float" => result = DecodeFloat(data)
             /\ t.k = "int"   => result = DecodeInt(data)
             /\ t.k = "bool"  => result = IF IsBool(data) THEN data ELSE ContractError
             /\ t.k = "str"   => result = IF data.k = "str" THEN data ELSE ContractError
<1> DEFINE result == DecodeBare(t, data, m, parts)
<1>1. ASSUME t.k = "any" PROVE result = data
  BY <1>1 DEF DecodeBare
<1>2. ASSUME t.k = "list"
      PROVE  result = IF data.k # "list" THEN ContractError
                      ELSE IF Raises(parts) THEN Raised(parts) ELSE ListV(parts)
  BY <1>2 DEF DecodeBare
<1>3. ASSUME t.k = "dict"
      PROVE  result = IF data.k # "dict" THEN ContractError
                      ELSE IF Raises(parts) THEN Raised(parts) ELSE DictV(parts)
  BY <1>3 DEF DecodeBare
<1>4. ASSUME t.k = "enum" PROVE result = DecodeEnum(t.name, data, m)
  BY <1>4 DEF DecodeBare
<1>5. ASSUME t.k = "data" PROVE result = DecodeData(t.name, data, m, parts)
  BY <1>5 DEF DecodeBare
<1>6. ASSUME t.k = "float" PROVE result = DecodeFloat(data)
  BY <1>6 DEF DecodeBare
<1>7. ASSUME t.k = "int" PROVE result = DecodeInt(data)
  BY <1>7 DEF DecodeBare
<1>8. ASSUME t.k = "bool" PROVE result = IF IsBool(data) THEN data ELSE ContractError
  BY <1>8 DEF DecodeBare
<1>9. ASSUME t.k = "str" PROVE result = IF data.k = "str" THEN data ELSE ContractError
  BY <1>9 DEF DecodeBare
<1> HIDE DEF result
<1> QED BY <1>1, <1>2, <1>3, <1>4, <1>5, <1>6, <1>7, <1>8, <1>9 DEF result

\* What from_jsonable returns is one of these.
LEMMA DecodeCases ==
  ASSUME NEW t, NEW v, NEW m, NEW parts,
         Bare(t).k \in {"any", "list", "dict", "enum", "data", "float", "int", "bool", "str"}
  PROVE  LET result == Decode(Typed(t, v, m), parts)
             kwargs == Arguments(Bare(t).name, m, parts)
         IN  \/ result = v
             \/ result.k \in Leaves
             \/ Raises(parts) /\ result = Raised(parts)
             \/ result \in {ListV(parts), DictV(parts)}
             \/ Bare(t).k = "data" /\ Raises(kwargs) /\ result = Raised(kwargs)
             \/ Bare(t).k = "data" /\ result = DataV(Bare(t).name, kwargs)
<1> DEFINE result == Decode(Typed(t, v, m), parts)
<1>1. CASE t.k = "opt" /\ v = None
  BY <1>1 DEF Decode, Typed
<1>2. CASE ~ (t.k = "opt" /\ v = None)
  <2>1. result = DecodeBare(Bare(t), v, m, parts)
    BY <1>2 DEF Decode, Typed
  <2>2. CASE Bare(t).k \in {"any", "bool", "str", "list", "dict"}
    BY <2>1, <2>2, DecodeBranch DEF ContractError, ErrorV, Leaves
  <2>3. CASE Bare(t).k = "enum"
    BY <2>1, <2>3, DecodeBranch DEF DecodeEnum, EnumV, ContractError, ErrorV, Leaves
  <2>4. CASE Bare(t).k = "data"
    BY <2>1, <2>4, DecodeBranch DEF DecodeData, Constructed, ContractError, ErrorV, Leaves
  <2>5. CASE Bare(t).k = "float"
    BY <2>1, <2>5, DecodeBranch DEF DecodeFloat, FloatV, OverflowError, ContractError, ErrorV, Leaves
  <2>6. CASE Bare(t).k = "int"
    BY <2>1, <2>6, DecodeBranch DEF DecodeInt, ContractError, ErrorV, Leaves
  <2> QED BY <2>2, <2>3, <2>4, <2>5, <2>6
<1> QED BY <1>1, <1>2

\* from_jsonable nests no deeper than the data, but for the defaults that it fills in.
LEMMA FromJsonableWithin ==
  ASSUME NEW m \in Minors, NEW n0 \in Nat, NEW v0, Nesting!Within(v0, n0), NEW t0 \in Hints(m)
  PROVE  Nesting!Within(FromJsonable(t0, v0, m), n0 + RecursionLimit)
<1> DEFINE S == {n \in Nat : \A v : Nesting!Within(v, n) =>
                   \A t \in Hints(m) : Nesting!Within(FromJsonable(t, v, m), n + RecursionLimit)}
<1>1. 0 \in S
  BY Nesting!NotWithinZero
<1>2. ASSUME NEW n \in S PROVE n + 1 \in S
  <2> SUFFICES ASSUME NEW v, Nesting!Within(v, n + 1), NEW t \in Hints(m)
               PROVE  Nesting!Within(FromJsonable(t, v, m), (n + 1) + RecursionLimit)
    OBVIOUS
  <2> DEFINE keys == ReadKeys(Typed(t, v, m))
             parts == [k \in keys |-> FromJsonable(HintAt(Bare(t), k, m), Contents(v)[k], m)]
             kwargs == Arguments(Bare(t).name, m, parts)
             result == FromJsonable(t, v, m)
             d == n + RecursionLimit
  <2>1. result = Decode(Typed(t, v, m), parts)
    BY FromJsonableUnfold DEF Nesting!Finite
  <2>2. \A k \in DOMAIN parts : Nesting!Within(parts[k], d)
    <3>1. \A k \in Places(v) : Nesting!Within(Contents(v)[k], n)
      BY Nesting!WithinStep DEF ContentAt
    <3>2. \A k \in keys : HintAt(Bare(t), k, m) \in Hints(m) /\ k \in Places(v)
      BY PartHint
    <3> QED BY <3>1, <3>2
  <2>3. d \in Nat /\ d >= RecursionLimit /\ d + 1 = (n + 1) + RecursionLimit /\ RecursionLimit \in Nat
        /\ d + 1 >= n + 1 /\ n + 1 \in Nat /\ d + 1 \in Nat
    BY DEF RecursionLimit
  <2> HIDE DEF parts, d, keys
  <2>4. ASSUME Bare(t).k = "data" PROVE \A f \in DOMAIN kwargs : Nesting!Within(kwargs[f], d)
    <3>1. Bare(t).name \in Known(m)
      BY <2>4, HintFacts
    <3>2. \A f \in DOMAIN Class(Bare(t).name, m) :
            Nesting!Within(AbsentField(Class(Bare(t).name, m)[f], m), d)
      BY <3>1, <2>3, AbsentWithin, Nesting!WithinLater
    <3> QED BY <2>2, <3>2 DEF Arguments
  <2> HIDE DEF kwargs, result
  <2>5. \A u : Nesting!Within(u, d) => Nesting!Within(u, d + 1)
    BY <2>3, Nesting!WithinMore
  <2>6. CASE result = v
    BY <2>3, <2>6, Nesting!WithinLater DEF result
  <2>7. CASE result.k \in Leaves
    BY <2>3, <2>7, LeafWithin DEF result
  <2>8. CASE Raises(parts) /\ result = Raised(parts)
    BY <2>2, <2>3, <2>5, <2>8, RaisedIsPart DEF result
  <2>9. CASE result \in {ListV(parts), DictV(parts)}
    BY <2>2, <2>3, <2>9, CompositeWithin DEF result
  <2>10. CASE Bare(t).k = "data" /\ Raises(kwargs) /\ result = Raised(kwargs)
    BY <2>3, <2>4, <2>5, <2>10, RaisedIsPart DEF result
  <2>11. CASE Bare(t).k = "data" /\ result = DataV(Bare(t).name, kwargs)
    BY <2>3, <2>4, <2>11, CompositeWithin DEF result
  <2>12. Bare(t).k \in {"any", "list", "dict", "enum", "data", "float", "int", "bool", "str"}
    BY HintFacts
  <2> QED BY <2>1, <2>6, <2>7, <2>8, <2>9, <2>10, <2>11, <2>12, DecodeCases DEF kwargs, result
<1>3. \A n \in Nat : n \in S
  <2>1. S \subseteq Nat
    OBVIOUS
  <2> HIDE DEF S
  <2> QED BY <1>1, <1>2, <2>1, Nesting!NatInduct
<1> QED BY <1>3

\* What is decoded of finitely nested data is finitely nested.
LEMMA FromJsonableFinite ==
  ASSUME NEW m \in Minors, NEW v, Nesting!Finite(v), NEW t \in Hints(m)
  PROVE  Nesting!Finite(FromJsonable(t, v, m))
<1>1. PICK n \in Nat : Nesting!Within(v, n)
  BY DEF Nesting!Finite
<1>2. n + RecursionLimit \in Nat
  BY DEF RecursionLimit
<1> QED BY <1>1, <1>2, FromJsonableWithin DEF Nesting!Finite

-----------------------------------------------------------------------------
(***************************************************************************)
(* The other definitions branch by branch.                                 *)
(***************************************************************************)
Scalars == {"float", "int", "bool", "str"}

\* What a value of a type that is not "| None" is.
Fits(s, v, m) ==
  \/ s.k = "any" /\ IsJson(v)
  \/ s.k \in {"list", "dict"} /\ v.k = s.k /\ \A k \in Places(v) : WellTyped(s.of, Contents(v)[k], m)
  \/ s.k = "enum" /\ v.k = "enum" /\ v.name = s.name /\ v.member \in Members(s.name, m)
  \/ /\ s.k = "data" /\ v.k = "data" /\ v.name = s.name
     /\ DOMAIN v.fields = DOMAIN Class(s.name, m)
     /\ \A f \in DOMAIN v.fields : WellTyped(Class(s.name, m)[f].type, v.fields[f], m)
  \/ s.k \in Scalars /\ v.k = s.k

\* Well-typed values, kind by kind.
LEMMA WellTypedCases ==
  ASSUME NEW m \in Minors, NEW t \in Hints(m), NEW v, Nesting!Finite(v)
  PROVE  WellTyped(t, v, m) <=> (t.k = "opt" /\ v = None) \/ Fits(Bare(t), v, m)
<1> DEFINE s == Bare(t)
           keys == ReadKeys(Typed(t, v, m))
           Below == \A k \in keys : WellTyped(HintAt(s, k, m), Contents(v)[k], m)
<1>1. WellTyped(t, v, m) <=> ((t.k = "opt" /\ v = None) \/ HasShape(s, v, m)) /\ Below
  BY WellTypedUnfold DEF FitsHere
<1>2. s.k \in {"any", "list", "dict", "enum", "data", "float", "int", "bool", "str"}
  BY HintFacts
<1>3. ASSUME v = None PROVE keys = {}
  BY <1>3 DEF None, ReadKeys, Typed
<1>4. CASE s.k = "any"
  <2>1. keys = {}
    BY <1>4 DEF ReadKeys, Typed
  <2>2. HasShape(s, v, m) <=> IsJson(v)
    BY <1>4 DEF HasShape
  <2>3. Fits(s, v, m) <=> IsJson(v)
    BY <1>4 DEF Fits, Scalars
  <2> QED BY <1>1, <2>1, <2>2, <2>3
<1>5. CASE s.k \in {"list", "dict"}
  <2>1. HasShape(s, v, m) <=> v.k = s.k
    <3>1. CASE s.k = "list"
      BY <3>1 DEF HasShape
    <3>2. CASE s.k = "dict"
      BY <3>2 DEF HasShape
    <3> QED BY <1>5, <3>1, <3>2
  <2>2. v.k = s.k => keys = Places(v)
    BY <1>5 DEF ReadKeys, Typed, Places
  <2>3. \A k : HintAt(s, k, m) = s.of
    BY <1>5 DEF HintAt
  <2>4. Fits(s, v, m) <=> v.k = s.k /\ \A k \in Places(v) : WellTyped(s.of, Contents(v)[k], m)
    BY <1>5 DEF Fits, Scalars
  <2> QED BY <1>1, <1>3, <2>1, <2>2, <2>3, <2>4
<1>6. CASE s.k = "enum"
  <2>1. keys = {}
    BY <1>6 DEF ReadKeys, Typed
  <2>2. HasShape(s, v, m) <=> Fits(s, v, m)
    BY <1>6 DEF HasShape, Fits, Scalars
  <2> QED BY <1>1, <2>1, <2>2
<1>7. CASE s.k = "data"
  <2>1. HasShape(s, v, m) <=>
          v.k = "data" /\ v.name = s.name /\ DOMAIN v.fields = DOMAIN Class(s.name, m)
    BY <1>7 DEF HasShape
  <2>2. HasShape(s, v, m) => keys = DOMAIN v.fields /\ Contents(v) = v.fields
    BY <1>7, <2>1 DEF ReadKeys, Typed, Contents
  <2>3. \A k : HintAt(s, k, m) = Class(s.name, m)[k].type
    BY <1>7 DEF HintAt
  <2>4. Fits(s, v, m) <=>
          /\ v.k = "data" /\ v.name = s.name /\ DOMAIN v.fields = DOMAIN Class(s.name, m)
          /\ \A f \in DOMAIN v.fields : WellTyped(Class(s.name, m)[f].type, v.fields[f], m)
    BY <1>7 DEF Fits, Scalars
  <2> QED BY <1>1, <1>3, <2>1, <2>2, <2>3, <2>4
<1>8. CASE s.k \in Scalars
  <2>1. keys = {}
    BY <1>8 DEF ReadKeys, Typed, Scalars
  <2>2. HasShape(s, v, m) <=> v.k = s.k
    <3>1. CASE s.k = "float"
      BY <3>1 DEF HasShape
    <3>2. CASE s.k = "int"
      BY <3>2 DEF HasShape
    <3>3. CASE s.k = "bool"
      BY <3>3 DEF HasShape
    <3>4. CASE s.k = "str"
      BY <3>4 DEF HasShape
    <3> QED BY <1>8, <3>1, <3>2, <3>3, <3>4 DEF Scalars
  <2>3. Fits(s, v, m) <=> v.k = s.k
    BY <1>8 DEF Fits, Scalars
  <2> QED BY <1>1, <2>1, <2>2, <2>3
<1> QED BY <1>2, <1>4, <1>5, <1>6, <1>7, <1>8 DEF Scalars

\* to_jsonable, branch by branch.
LEMMA EncodeBranch ==
  ASSUME NEW v, NEW parts
  PROVE  LET result == Encode(v, parts)
         IN  /\ v.k \in {"data", "dict"} =>
                  result = IF Raises(parts) THEN Raised(parts) ELSE DictV(parts)
             /\ v.k = "list" => result = IF Raises(parts) THEN Raised(parts) ELSE ListV(parts)
             /\ v.k = "enum" => result = StrV(v.member)
             /\ v.k \in {"none", "str", "int", "float", "bool"} => result = v
<1> DEFINE result == Encode(v, parts)
<1>1. ASSUME v.k \in {"data", "dict"}
      PROVE  result = IF Raises(parts) THEN Raised(parts) ELSE DictV(parts)
  BY <1>1 DEF Encode
<1>2. ASSUME v.k = "list"
      PROVE  result = IF Raises(parts) THEN Raised(parts) ELSE ListV(parts)
  BY <1>2 DEF Encode
<1>3. ASSUME v.k = "enum" PROVE result = StrV(v.member)
  BY <1>3 DEF Encode
<1>4. ASSUME v.k \in {"none", "str", "int", "float", "bool"} PROVE result = v
  BY <1>4 DEF Encode
<1> HIDE DEF result
<1> QED BY <1>1, <1>2, <1>3, <1>4 DEF result

\* What is expressed is of the same kind.
LEMMA ProjectForm ==
  ASSUME NEW v, NEW m, Nesting!Finite(v)
  PROVE  /\ Project(v, m).k = v.k
         /\ v.k = "list" => Project(v, m) = ListV([k \in Places(v) |-> Project(Contents(v)[k], m)])
         /\ v.k = "dict" => Project(v, m) = DictV([k \in Places(v) |-> Project(Contents(v)[k], m)])
         /\ v.k = "data" => Project(v, m) =
              DataV(v.name, [f \in DOMAIN Class(v.name, m) |->
                               IF f \in DOMAIN v.fields THEN Project(v.fields[f], m) ELSE None])
         /\ v.k = "enum" => Project(v, m) =
              EnumV(v.name, IF v.member \in Members(v.name, m) THEN v.member ELSE "unknown")
         /\ v.k \notin {"list", "dict", "data", "enum"} => Project(v, m) = v
<1> DEFINE keys == SharedKeys(ReadAt(v, m))
           parts == [k \in keys |-> Project(Contents(v)[k], m)]
<1>1. Project(v, m) = Express(ReadAt(v, m), parts)
  BY ProjectUnfold
<1>2. CASE v.k = "list"
  <2>1. keys = Places(v)
    BY <1>2 DEF SharedKeys, Places, ReadAt
  <2>2. Project(v, m) = ListV(parts)
    BY <1>1, <1>2 DEF Express, ReadAt
  <2> QED BY <1>2, <2>1, <2>2 DEF ListV
<1>3. CASE v.k = "dict"
  <2>1. keys = Places(v)
    BY <1>3 DEF SharedKeys, Places, ReadAt
  <2>2. Project(v, m) = DictV(parts)
    BY <1>1, <1>3 DEF Express, ReadAt
  <2> QED BY <1>3, <2>1, <2>2 DEF DictV
<1>4. CASE v.k = "data"
  <2>1. keys = DOMAIN v.fields \cap DOMAIN Class(v.name, m) /\ Contents(v) = v.fields
    BY <1>4 DEF SharedKeys, ReadAt, Contents
  <2> DEFINE fields == [f \in DOMAIN Class(v.name, m) |-> IF f \in DOMAIN parts THEN parts[f] ELSE None]
             shared == [f \in DOMAIN Class(v.name, m) |->
                          IF f \in DOMAIN v.fields THEN Project(v.fields[f], m) ELSE None]
  <2>2. Project(v, m) = DataV(v.name, fields)
    BY <1>1, <1>4 DEF Express, ReadAt
  <2>3. fields = shared
    BY <2>1
  <2> QED BY <1>4, <2>2, <2>3 DEF DataV
<1>5. CASE v.k = "enum"
  BY <1>1, <1>5 DEF Express, ReadAt, EnumV
<1>6. CASE v.k \notin {"list", "dict", "data", "enum"}
  BY <1>1, <1>6 DEF Express, ReadAt
<1> QED BY <1>2, <1>3, <1>4, <1>5, <1>6

\* from_jsonable of a list or dict.
LEMMA DecodeElements ==
  ASSUME NEW m, NEW t, NEW data, Nesting!Finite(data),
         Bare(t).k \in {"list", "dict"}, data.k = Bare(t).k
  PROVE  LET parts == [k \in Places(data) |-> FromJsonable(Bare(t).of, Contents(data)[k], m)]
         IN  FromJsonable(t, data, m) =
               IF Raises(parts) THEN Raised(parts)
               ELSE IF data.k = "list" THEN ListV(parts) ELSE DictV(parts)
<1> DEFINE s == Bare(t)
           keys == ReadKeys(Typed(t, data, m))
           read == [k \in keys |-> FromJsonable(HintAt(s, k, m), Contents(data)[k], m)]
           parts == [k \in Places(data) |-> FromJsonable(s.of, Contents(data)[k], m)]
<1>1. FromJsonable(t, data, m) = Decode(Typed(t, data, m), read)
  BY FromJsonableUnfold
<1>2. keys = Places(data) /\ \A k : HintAt(s, k, m) = s.of
  BY DEF ReadKeys, Typed, Places, HintAt
<1>3. read = parts
  BY <1>2
<1>4. data # None
  BY DEF None
<1> HIDE DEF parts, read
<1>5. Decode(Typed(t, data, m), read) = DecodeBare(s, data, m, read)
  BY <1>4 DEF Decode, Typed
<1>6. DecodeBare(s, data, m, parts) =
        IF Raises(parts) THEN Raised(parts) ELSE IF data.k = "list" THEN ListV(parts) ELSE DictV(parts)
  BY DecodeBranch
<1> QED BY <1>1, <1>3, <1>5, <1>6 DEF parts

\* from_jsonable of an object.
LEMMA DecodeFields ==
  ASSUME NEW m, NEW t, NEW data, Nesting!Finite(data), Bare(t).k = "data", data.k = "dict"
  PROVE  LET class  == Class(Bare(t).name, m)
             kwargs == [f \in DOMAIN class |->
                          IF f \in DOMAIN data.d THEN FromJsonable(class[f].type, data.d[f], m)
                          ELSE AbsentField(class[f], m)]
         IN  FromJsonable(t, data, m) =
               IF Raises(kwargs) THEN Raised(kwargs) ELSE DataV(Bare(t).name, kwargs)
<1> DEFINE s == Bare(t)
           class == Class(s.name, m)
           keys == ReadKeys(Typed(t, data, m))
           read == [k \in keys |-> FromJsonable(HintAt(s, k, m), Contents(data)[k], m)]
           kwargs == [f \in DOMAIN class |->
                        IF f \in DOMAIN data.d THEN FromJsonable(class[f].type, data.d[f], m)
                        ELSE AbsentField(class[f], m)]
<1>1. FromJsonable(t, data, m) = Decode(Typed(t, data, m), read)
  BY FromJsonableUnfold
<1>2. keys = DOMAIN data.d \cap DOMAIN class /\ Contents(data) = data.d
  BY DEF ReadKeys, Typed, Contents
<1>3. \A k : HintAt(s, k, m) = class[k].type
  BY DEF HintAt
<1>4. Arguments(s.name, m, read) = kwargs
  BY <1>2, <1>3 DEF Arguments
<1>5. data # None
  BY DEF None
<1> HIDE DEF read, kwargs
<1>6. Decode(Typed(t, data, m), read) = DecodeBare(s, data, m, read)
  BY <1>5 DEF Decode, Typed
<1>7. DecodeBare(s, data, m, read) = DecodeData(s.name, data, m, read)
  BY DecodeBranch
<1>8. DecodeData(s.name, data, m, read) = IF Raises(kwargs) THEN Raised(kwargs) ELSE DataV(s.name, kwargs)
  BY <1>4 DEF DecodeData, Constructed
<1> QED BY <1>1, <1>6, <1>7, <1>8 DEF kwargs

\* from_jsonable of everything else.
LEMMA DecodeOther ==
  ASSUME NEW m, NEW t, NEW data, Nesting!Finite(data)
  PROVE  LET s == Bare(t)
             result == FromJsonable(t, data, m)
         IN  /\ t.k = "opt" /\ data = None => result = None
             /\ ~ (t.k = "opt" /\ data = None) =>
                  /\ s.k = "any"   => result = data
                  /\ s.k = "list" /\ data.k # "list" => result = ContractError
                  /\ s.k = "dict" /\ data.k # "dict" => result = ContractError
                  /\ s.k = "data" /\ data.k # "dict" => result = ContractError
                  /\ s.k = "enum"  => result = DecodeEnum(s.name, data, m)
                  /\ s.k = "float" => result = DecodeFloat(data)
                  /\ s.k = "int"   => result = DecodeInt(data)
                  /\ s.k = "bool"  => result = IF IsBool(data) THEN data ELSE ContractError
                  /\ s.k = "str"   => result = IF data.k = "str" THEN data ELSE ContractError
<1> DEFINE s == Bare(t)
           read == [k \in ReadKeys(Typed(t, data, m)) |->
                      FromJsonable(HintAt(s, k, m), Contents(data)[k], m)]
<1>1. FromJsonable(t, data, m) = Decode(Typed(t, data, m), read)
  BY FromJsonableUnfold
<1> HIDE DEF read
<1>2. CASE t.k = "opt" /\ data = None
  BY <1>1, <1>2 DEF Decode, Typed
<1>3. CASE ~ (t.k = "opt" /\ data = None)
  <2>1. FromJsonable(t, data, m) = DecodeBare(s, data, m, read)
    BY <1>1, <1>3 DEF Decode, Typed
  <2> QED BY <1>3, <2>1, DecodeBranch DEF DecodeData, Constructed
<1> QED BY <1>2, <1>3

-----------------------------------------------------------------------------
(***************************************************************************)
(* Encoding.                                                               *)
(***************************************************************************)
\* What to_jsonable returns, unless it raises, is JSON.
LEMMA EncodedIsJson ==
  ASSUME NEW v0, Nesting!Finite(v0), ~ IsError(ToJsonable(v0))
  PROVE  IsJson(ToJsonable(v0))
<1> DEFINE S == {n \in Nat : \A v : Nesting!Within(v, n) =>
                   (~ IsError(ToJsonable(v)) => IsJson(ToJsonable(v)))}
<1>1. 0 \in S
  BY Nesting!NotWithinZero
<1>2. ASSUME NEW n \in S PROVE n + 1 \in S
  <2> SUFFICES ASSUME NEW v, Nesting!Within(v, n + 1), ~ IsError(ToJsonable(v))
               PROVE  IsJson(ToJsonable(v))
    OBVIOUS
  <2> DEFINE parts == [k \in WrittenKeys(v) |-> ToJsonable(Contents(v)[k])]
             result == ToJsonable(v)
  <2>1. Nesting!Finite(v) /\ Nesting!Finite(result)
    BY ToJsonableFinite DEF Nesting!Finite
  <2>2. result = Encode(v, parts)
    BY <2>1, ToJsonableUnfold
  <2>3. ASSUME NEW k \in WrittenKeys(v), ~ IsError(parts[k]) PROVE IsJson(parts[k])
    <3>1. WrittenKeys(v) \subseteq Places(v)
      BY DEF WrittenKeys, Places, SetFields, Contents
    <3>2. Nesting!Within(Contents(v)[k], n)
      BY <3>1, Nesting!WithinStep DEF ContentAt
    <3> QED BY <2>3, <3>2
  <2>4. DOMAIN parts = WrittenKeys(v)
    OBVIOUS
  <2> HIDE DEF parts, result
  <2>5. CASE v.k \in {"data", "dict", "list"}
    <3>1. ~ Raises(parts) /\ (result = DictV(parts) \/ result = ListV(parts))
      BY <2>2, <2>5, EncodeBranch, RaisedIsPart DEF result
    <3>2. \A k \in DOMAIN parts : IsJson(parts[k])
      BY <2>3, <2>4, <3>1 DEF Raises
    <3>3. result.k \in JsonKinds /\ Contents(result) = parts
      BY <3>1 DEF DictV, ListV, Contents, JsonKinds
    <3> QED BY <2>1, <3>2, <3>3, IsJsonUnfold DEF Places, result
  <2>6. CASE v.k \notin {"data", "dict", "list"}
    <3>1. result.k \in {"none", "str", "int", "float", "bool"}
      BY <2>2, <2>6 DEF Encode, StrV, ContractError, ErrorV, IsError, result
    <3>2. Places(result) = {} /\ result.k \in JsonKinds
      BY <3>1, LeafWithin DEF Leaves, JsonKinds
    <3> QED BY <2>1, <3>2, IsJsonUnfold DEF result
  <2> QED BY <2>5, <2>6
<1>3. \A n \in Nat : n \in S
  <2>1. S \subseteq Nat
    OBVIOUS
  <2> HIDE DEF S
  <2> QED BY <1>1, <1>2, <2>1, Nesting!NatInduct
<1> QED BY <1>3 DEF Nesting!Finite

\* JSON is encoded as it is, and expressed by every version.
LEMMA JsonKept ==
  ASSUME NEW v0, NEW m, Nesting!Finite(v0), IsJson(v0)
  PROVE  ToJsonable(v0) = Project(v0, m) /\ ToJsonable(v0).k = v0.k /\ ~ IsError(ToJsonable(v0))
<1> DEFINE P(v) == ToJsonable(v) = Project(v, m) /\ ToJsonable(v).k = v.k /\ ~ IsError(ToJsonable(v))
           S == {n \in Nat : \A v : Nesting!Within(v, n) => (IsJson(v) => P(v))}
<1>1. 0 \in S
  BY Nesting!NotWithinZero
<1>2. ASSUME NEW n \in S PROVE n + 1 \in S
  <2> SUFFICES ASSUME NEW v, Nesting!Within(v, n + 1), IsJson(v)
               PROVE  P(v)
    OBVIOUS
  <2> DEFINE parts == [k \in WrittenKeys(v) |-> ToJsonable(Contents(v)[k])]
  <2>1. Nesting!Finite(v)
    BY DEF Nesting!Finite
  <2>2. ToJsonable(v) = Encode(v, parts)
    BY <2>1, ToJsonableUnfold
  <2>3. v.k \in JsonKinds /\ \A k \in Places(v) : IsJson(Contents(v)[k])
    BY <2>1, IsJsonUnfold
  <2>4. \A k \in Places(v) : P(Contents(v)[k])
    BY <2>3, Nesting!WithinStep DEF ContentAt
  <2>5. CASE v.k \in {"list", "dict"}
    <3>1. WrittenKeys(v) = Places(v)
      BY <2>5 DEF WrittenKeys, Places
    <3>2. parts = [k \in Places(v) |-> Project(Contents(v)[k], m)]
      BY <2>4, <3>1
    <3>3. ~ Raises(parts)
      BY <2>4, <3>1 DEF Raises
    <3> HIDE DEF parts
    <3>4. CASE v.k = "list"
      <4>1. ToJsonable(v) = ListV(parts)
        BY <2>2, <3>3, <3>4, EncodeBranch
      <4>2. Project(v, m) = ListV(parts)
        BY <2>1, <3>2, <3>4, ProjectForm
      <4> QED BY <3>4, <4>1, <4>2 DEF ListV, IsError
    <3>5. CASE v.k = "dict"
      <4>1. ToJsonable(v) = DictV(parts)
        BY <2>2, <3>3, <3>5, EncodeBranch
      <4>2. Project(v, m) = DictV(parts)
        BY <2>1, <3>2, <3>5, ProjectForm
      <4> QED BY <3>5, <4>1, <4>2 DEF DictV, IsError
    <3> QED BY <2>5, <3>4, <3>5
  <2>6. CASE v.k \notin {"list", "dict"}
    <3>1. v.k \in {"none", "str", "int", "float", "bool"}
      BY <2>3, <2>6 DEF JsonKinds
    <3>2. ToJsonable(v) = v
      BY <2>2, <3>1, EncodeBranch
    <3>3. Project(v, m) = v
      BY <2>1, <3>1, ProjectForm
    <3> QED BY <3>1, <3>2, <3>3 DEF IsError
  <2> QED BY <2>5, <2>6
<1>3. \A n \in Nat : n \in S
  <2>1. S \subseteq Nat
    OBVIOUS
  <2> HIDE DEF S
  <2> QED BY <1>1, <1>2, <2>1, Nesting!NatInduct
<1> QED BY <1>3 DEF Nesting!Finite

\* The parts of a well-typed value are well typed, by hints.
LEMMA WellTypedParts ==
  ASSUME NEW m \in Minors, NEW t \in Hints(m), NEW v, Nesting!Finite(v), WellTyped(t, v, m)
  PROVE  /\ v.k \in {"none", "str", "int", "float", "bool", "list", "dict", "enum", "data"}
         /\ v.k = "data" =>
              /\ Bare(t).k = "data" /\ v.name = Bare(t).name /\ v.name \in Known(m)
              /\ DOMAIN v.fields = DOMAIN Class(v.name, m)
              /\ \A f \in DOMAIN v.fields : /\ Class(v.name, m)[f].type \in Hints(m)
                                            /\ WellTyped(Class(v.name, m)[f].type, v.fields[f], m)
                                            /\ Nesting!Finite(v.fields[f])
         /\ v.k = "enum" => Bare(t).k = "enum" /\ v.name = Bare(t).name /\ v.member \in Members(v.name, m)
         /\ v.k \in {"list", "dict"} =>
              \/ Bare(t).k = "any" /\ IsJson(v)
              \/ /\ Bare(t).k = v.k /\ Bare(t).of \in Hints(m)
                 /\ \A k \in Places(v) : /\ WellTyped(Bare(t).of, Contents(v)[k], m)
                                         /\ Nesting!Finite(Contents(v)[k])
         /\ v = None => t.k \in {"opt", "any"}
<1> DEFINE s == Bare(t)
<1>1. (t.k = "opt" /\ v = None) \/ Fits(s, v, m)
  BY WellTypedCases
<1>2. \A k \in Places(v) : Nesting!Finite(Contents(v)[k])
  BY NestedFinite DEF ContentAt
<1>3. CASE t.k = "opt" /\ v = None
  BY <1>3 DEF None
<1>4. CASE s.k = "any" /\ IsJson(v)
  <2>1. v.k \in JsonKinds
    BY <1>4, IsJsonUnfold
  <2>2. t.k = "any"
    BY <1>4, HintFacts DEF Bare
  <2> QED BY <1>4, <2>1, <2>2 DEF JsonKinds
<1>5. CASE s.k \in {"list", "dict"} /\ v.k = s.k /\ \A k \in Places(v) : WellTyped(s.of, Contents(v)[k], m)
  BY <1>2, <1>5, HintFacts DEF None
<1>6. CASE s.k = "enum" /\ v.k = "enum" /\ v.name = s.name /\ v.member \in Members(s.name, m)
  BY <1>6 DEF None
<1>7. CASE /\ s.k = "data" /\ v.k = "data" /\ v.name = s.name
           /\ DOMAIN v.fields = DOMAIN Class(s.name, m)
           /\ \A f \in DOMAIN v.fields : WellTyped(Class(s.name, m)[f].type, v.fields[f], m)
  <2>1. s.name \in Known(m)
    BY <1>7, HintFacts
  <2>2. \A f \in DOMAIN v.fields : Class(v.name, m)[f].type \in Hints(m)
    BY <1>7, <2>1, FieldHint
  <2>3. \A f \in DOMAIN v.fields : Nesting!Finite(v.fields[f])
    BY <1>2, <1>7 DEF Places, Contents
  <2>4. v # None
    BY <1>7 DEF None
  <2> QED BY <1>7, <2>1, <2>2, <2>3, <2>4
<1>8. CASE s.k \in Scalars /\ v.k = s.k
  BY <1>8 DEF Scalars, None
<1> QED BY <1>1, <1>3, <1>4, <1>5, <1>6, <1>7, <1>8 DEF Fits

\* to_jsonable raises on no well-typed value.
LEMMA WellTypedEncodes ==
  ASSUME NEW m \in Minors, NEW t0 \in Hints(m), NEW v0, Nesting!Finite(v0), WellTyped(t0, v0, m)
  PROVE  ~ IsError(ToJsonable(v0))
<1> DEFINE S == {n \in Nat : \A v : Nesting!Within(v, n) =>
                   \A t \in Hints(m) : WellTyped(t, v, m) => ~ IsError(ToJsonable(v))}
<1>1. 0 \in S
  BY Nesting!NotWithinZero
<1>2. ASSUME NEW n \in S PROVE n + 1 \in S
  <2> SUFFICES ASSUME NEW v, Nesting!Within(v, n + 1), NEW t \in Hints(m), WellTyped(t, v, m)
               PROVE  ~ IsError(ToJsonable(v))
    OBVIOUS
  <2> DEFINE parts == [k \in WrittenKeys(v) |-> ToJsonable(Contents(v)[k])]
  <2>1. Nesting!Finite(v)
    BY DEF Nesting!Finite
  <2>2. ToJsonable(v) = Encode(v, parts)
    BY <2>1, ToJsonableUnfold
  <2>3. \A k \in Places(v) : Nesting!Within(Contents(v)[k], n)
    BY Nesting!WithinStep DEF ContentAt
  <2>4. CASE v.k \in {"list", "dict"} /\ Bare(t).k = "any" /\ IsJson(v)
    BY <2>1, <2>4, JsonKept
  <2>5. CASE v.k \in {"list", "dict"} /\ ~ (Bare(t).k = "any" /\ IsJson(v))
    <3>1. \A k \in Places(v) : ~ IsError(ToJsonable(Contents(v)[k]))
      BY <2>1, <2>3, <2>5, WellTypedParts
    <3>2. WrittenKeys(v) = Places(v)
      BY <2>5 DEF WrittenKeys, Places
    <3>3. ~ Raises(parts)
      BY <3>1, <3>2 DEF Raises
    <3> HIDE DEF parts
    <3> QED BY <2>2, <2>5, <3>3, EncodeBranch DEF DictV, ListV, IsError
  <2>6. CASE v.k = "data"
    <3>1. \A f \in DOMAIN v.fields : ~ IsError(ToJsonable(v.fields[f]))
      <4>1. Places(v) = DOMAIN v.fields /\ Contents(v) = v.fields
        BY <2>6 DEF Places, Contents
      <4>2. \A f \in DOMAIN v.fields : Nesting!Within(v.fields[f], n)
        BY <2>3, <4>1
      <4>3. \A f \in DOMAIN v.fields : \E u \in Hints(m) : WellTyped(u, v.fields[f], m)
        BY <2>1, <2>6, WellTypedParts
      <4> QED BY <4>2, <4>3
    <3>2. WrittenKeys(v) \subseteq DOMAIN v.fields /\ Contents(v) = v.fields
      BY <2>6 DEF WrittenKeys, SetFields, Contents
    <3>3. ~ Raises(parts)
      BY <3>1, <3>2 DEF Raises
    <3> HIDE DEF parts
    <3> QED BY <2>2, <2>6, <3>3, EncodeBranch DEF DictV, IsError
  <2>7. CASE v.k = "enum"
    BY <2>2, <2>7, EncodeBranch DEF StrV, IsError
  <2>8. CASE v.k \in {"none", "str", "int", "float", "bool"}
    BY <2>2, <2>8, EncodeBranch DEF IsError
  <2> QED BY <2>1, <2>4, <2>5, <2>6, <2>7, <2>8, WellTypedParts
<1>3. \A n \in Nat : n \in S
  <2>1. S \subseteq Nat
    OBVIOUS
  <2> HIDE DEF S
  <2> QED BY <1>1, <1>2, <2>1, Nesting!NatInduct
<1> QED BY <1>3 DEF Nesting!Finite

\* The parts of a value on the wire.
WireItems(v)  == [k \in Places(v) |-> ToJsonable(Contents(v)[k])]
WireFields(v) == [f \in SetFields(v.fields) |-> ToJsonable(v.fields[f])]

\* What a well-typed value is on the wire.
LEMMA EncodedForm ==
  ASSUME NEW m \in Minors, NEW t \in Hints(m), NEW v, Nesting!Finite(v), WellTyped(t, v, m)
  PROVE  /\ v.k = "list" => ToJsonable(v) = ListV(WireItems(v))
         /\ v.k = "dict" => ToJsonable(v) = DictV(WireItems(v))
         /\ v.k = "data" => ToJsonable(v) = DictV(WireFields(v))
         /\ v.k = "enum" => ToJsonable(v) = StrV(v.member)
         /\ v.k \in {"none", "str", "int", "float", "bool"} => ToJsonable(v) = v
<1> DEFINE parts == [k \in WrittenKeys(v) |-> ToJsonable(Contents(v)[k])]
<1>1. ToJsonable(v) = Encode(v, parts)
  BY ToJsonableUnfold
<1>2. ~ IsError(ToJsonable(v))
  BY WellTypedEncodes
<1>3. ASSUME v.k = "list"
      PROVE  ToJsonable(v) = ListV(WireItems(v))
  <2>1. WrittenKeys(v) = Places(v)
    BY <1>3 DEF WrittenKeys, Places
  <2>2. ToJsonable(v) = ListV(parts)
    <3> HIDE DEF parts
    <3> QED BY <1>1, <1>2, <1>3, EncodeBranch, RaisedIsPart
  <2> QED BY <2>1, <2>2 DEF WireItems
<1>4. ASSUME v.k = "dict"
      PROVE  ToJsonable(v) = DictV(WireItems(v))
  <2>1. WrittenKeys(v) = Places(v)
    BY <1>4 DEF WrittenKeys, Places
  <2>2. ToJsonable(v) = DictV(parts)
    <3> HIDE DEF parts
    <3> QED BY <1>1, <1>2, <1>4, EncodeBranch, RaisedIsPart
  <2> QED BY <2>1, <2>2 DEF WireItems
<1>5. ASSUME v.k = "data"
      PROVE  ToJsonable(v) = DictV(WireFields(v))
  <2>1. WrittenKeys(v) = SetFields(v.fields) /\ Contents(v) = v.fields
    BY <1>5 DEF WrittenKeys, Contents
  <2>2. ToJsonable(v) = DictV(parts)
    <3> HIDE DEF parts
    <3> QED BY <1>1, <1>2, <1>5, EncodeBranch, RaisedIsPart
  <2> QED BY <2>1, <2>2 DEF WireFields
<1> HIDE DEF parts
<1>6. v.k = "enum" => ToJsonable(v) = StrV(v.member)
  BY <1>1, EncodeBranch
<1>7. v.k \in {"none", "str", "int", "float", "bool"} => ToJsonable(v) = v
  BY <1>1, EncodeBranch
<1> QED BY <1>3, <1>4, <1>5, <1>6, <1>7

-----------------------------------------------------------------------------
(***************************************************************************)
(* Two minor versions.                                                     *)
(***************************************************************************)
\* A class that both know: the fields that both declare are the same, and the others absent
\* fields of which decode to None.
LEMMA TwoVersions ==
  ASSUME NEW a \in Minors, NEW b \in Minors, NEW n \in Known(a), n \in Known(b)
  PROVE  /\ \A f \in DOMAIN Class(n, a) \cap DOMAIN Class(n, b) : Class(n, a)[f] = Class(n, b)[f]
         /\ \A f \in DOMAIN Class(n, b) \ DOMAIN Class(n, a) :
              Class(n, b)[f].type.k = "opt" /\ AbsentField(Class(n, b)[f], b) = None
<1>1. a <= b \/ b <= a
  BY DEF Minors
<1>2. CASE b <= a
  BY <1>2, CatalogueRules DEF AdditiveRule
<1>3. CASE a <= b
  <2>1. AdditiveRule(a, b) /\ DefaultRule(b)
    BY <1>3, CatalogueRules
  <2> QED BY <2>1 DEF AdditiveRule, DefaultRule
<1> QED BY <1>1, <1>2, <1>3

\* The kind of what a well-typed value is on the wire; only None is null there.
LEMMA EncodedKind ==
  ASSUME NEW m \in Minors, NEW t \in Hints(m), NEW v, Nesting!Finite(v), WellTyped(t, v, m)
  PROVE  /\ v.k \in {"list", "dict"} => ToJsonable(v).k = v.k
         /\ v.k = "enum" => ToJsonable(v) = StrV(v.member) /\ ToJsonable(v).k = "str"
         /\ v.k = "data" => ToJsonable(v).k = "dict"
         /\ v.k \notin {"list", "dict", "enum", "data"} => ToJsonable(v) = v
         /\ v # None => ToJsonable(v) # None
<1>1. \A p : ListV(p).k = "list" /\ DictV(p).k = "dict"
  BY DEF ListV, DictV
<1>2. \A x : StrV(x).k = "str"
  BY DEF StrV
<1>3. v.k \in {"none", "str", "int", "float", "bool", "list", "dict", "enum", "data"}
  BY WellTypedParts
<1>4. CASE v.k = "list"
  <2>1. ToJsonable(v) = ListV(WireItems(v))
    BY <1>4, EncodedForm
  <2> QED BY <1>1, <1>4, <2>1 DEF None
<1>5. CASE v.k = "dict"
  <2>1. ToJsonable(v) = DictV(WireItems(v))
    BY <1>5, EncodedForm
  <2> QED BY <1>1, <1>5, <2>1 DEF None
<1>6. CASE v.k = "data"
  <2>1. ToJsonable(v) = DictV(WireFields(v))
    BY <1>6, EncodedForm
  <2> QED BY <1>1, <1>6, <2>1 DEF None
<1>7. CASE v.k = "enum"
  <2>1. ToJsonable(v) = StrV(v.member)
    BY <1>7, EncodedForm
  <2> QED BY <1>2, <1>7, <2>1 DEF None
<1>8. CASE v.k \in {"none", "str", "int", "float", "bool"}
  <2>1. ToJsonable(v) = v
    BY <1>8, EncodedForm
  <2> QED BY <1>8, <2>1
<1> QED BY <1>3, <1>4, <1>5, <1>6, <1>7, <1>8

-----------------------------------------------------------------------------
(***************************************************************************)
(* What is written is read as what the reader's version can express of it. *)
(***************************************************************************)
\* The contents of the composites.
LEMMA CompositeForm ==
  ASSUME NEW parts, NEW name
  PROVE  /\ ListV(parts).k = "list" /\ Contents(ListV(parts)) = parts
         /\ Places(ListV(parts)) = DOMAIN parts
         /\ DictV(parts).k = "dict" /\ Contents(DictV(parts)) = parts /\ DictV(parts).d = parts
         /\ Places(DictV(parts)) = DOMAIN parts
         /\ DataV(name, parts).k = "data" /\ Contents(DataV(name, parts)) = parts
         /\ DataV(name, parts).name = name /\ DataV(name, parts).fields = parts
         /\ Places(DataV(name, parts)) = DOMAIN parts
<1>1. ListV(parts).k = "list" /\ Contents(ListV(parts)) = parts
  BY DEF Contents, ListV
<1>2. DictV(parts).k = "dict" /\ Contents(DictV(parts)) = parts /\ DictV(parts).d = parts
  BY DEF Contents, DictV
<1>3. /\ DataV(name, parts).k = "data" /\ Contents(DataV(name, parts)) = parts
      /\ DataV(name, parts).name = name /\ DataV(name, parts).fields = parts
  BY DEF Contents, DataV
<1> QED BY <1>1, <1>2, <1>3 DEF Places

\* What is nested in the wire form of a well-typed value.
LEMMA EncodedParts ==
  ASSUME NEW m \in Minors, NEW t \in Hints(m), NEW v, Nesting!Finite(v), WellTyped(t, v, m)
  PROVE  LET data == ToJsonable(v)
         IN  /\ v.k \in {"list", "dict"} =>
                  /\ data.k = v.k /\ Places(data) = Places(v)
                  /\ \A k \in Places(v) : Contents(data)[k] = ToJsonable(Contents(v)[k])
             /\ v.k = "data" =>
                  /\ data.k = "dict" /\ DOMAIN data.d = SetFields(v.fields)
                  /\ Places(data) = SetFields(v.fields) /\ Contents(data) = data.d
                  /\ \A f \in SetFields(v.fields) : data.d[f] = ToJsonable(v.fields[f])
<1> DEFINE data == ToJsonable(v)
           parts == WireItems(v)
           written == WireFields(v)
<1>1. DOMAIN parts = Places(v) /\ \A k \in Places(v) : parts[k] = ToJsonable(Contents(v)[k])
  BY DEF WireItems
<1>2. /\ DOMAIN written = SetFields(v.fields)
      /\ \A f \in SetFields(v.fields) : written[f] = ToJsonable(v.fields[f])
  BY DEF WireFields
<1>3. ASSUME v.k = "list" PROVE data = ListV(parts)
  BY <1>3, EncodedForm
<1>4. ASSUME v.k = "dict" PROVE data = DictV(parts)
  BY <1>4, EncodedForm
<1>5. ASSUME v.k = "data" PROVE data = DictV(written)
  BY <1>5, EncodedForm
<1> HIDE DEF parts, written
<1>6. ASSUME v.k = "data"
      PROVE  /\ data.k = "dict" /\ DOMAIN data.d = SetFields(v.fields)
             /\ Places(data) = SetFields(v.fields) /\ Contents(data) = data.d
             /\ \A f \in SetFields(v.fields) : data.d[f] = ToJsonable(v.fields[f])
  BY <1>2, <1>5, <1>6, CompositeForm
<1>7. ASSUME v.k \in {"list", "dict"}
      PROVE  /\ data.k = v.k /\ Places(data) = Places(v)
             /\ \A k \in Places(v) : Contents(data)[k] = ToJsonable(Contents(v)[k])
  BY <1>1, <1>3, <1>4, <1>7, CompositeForm
<1> QED BY <1>6, <1>7

\* None is kept.
LEMMA NoneKept ==
  Nesting!Finite(None) /\ IsJson(None) /\ \A m : Project(None, m) = None /\ ToJsonable(None) = None
<1>1. None.k = "none"
  BY DEF None
<1>2. Nesting!Finite(None) /\ Places(None) = {}
  BY <1>1, LeafWithin DEF Leaves
<1>3. \A m : Project(None, m) = None
  BY <1>1, <1>2, ProjectForm
<1>4. ToJsonable(None) = None
  BY <1>1, <1>2, ToJsonableUnfold, EncodeBranch
<1>5. IsJson(None)
  BY <1>1, <1>2, IsJsonUnfold DEF JsonKinds
<1> QED BY <1>2, <1>3, <1>4, <1>5

\* Only a field that may be None, or Any, is None.
LEMMA NoneTyped ==
  ASSUME NEW m \in Minors, NEW t \in Hints(m), WellTyped(t, None, m)
  PROVE  t.k \in {"opt", "any"}
BY NoneKept, WellTypedParts


\* None, and the scalars, decode to themselves.
LEMMA ScalarDecodes ==
  ASSUME NEW m, NEW t, NEW v, Nesting!Finite(v), ~ (t.k = "opt" /\ v = None),
         Bare(t).k \in Scalars, v.k = Bare(t).k
  PROVE  FromJsonable(t, v, m) = v
<1> DEFINE s == Bare(t)
<1>1. CASE s.k = "float"
  BY <1>1, DecodeOther DEF DecodeFloat, IsBool, IsInt
<1>2. CASE s.k = "int"
  BY <1>2, DecodeOther DEF DecodeInt, IsBool, IsInt
<1>3. CASE s.k = "bool"
  BY <1>3, DecodeOther DEF IsBool
<1>4. CASE s.k = "str"
  BY <1>4, DecodeOther
<1> QED BY <1>1, <1>2, <1>3, <1>4 DEF Scalars

\* A library reads what another wrote as what it can express of it.
LEMMA DecodedIsProjection ==
  ASSUME NEW a \in Minors, NEW b \in Minors, NEW t0 \in Hints(a) \cap Hints(b),
         NEW v0, Nesting!Finite(v0), WellTyped(t0, v0, a)
  PROVE  FromJsonable(t0, ToJsonable(v0), b) = Project(v0, b)
<1> DEFINE S == {n \in Nat : \A v : Nesting!Within(v, n) =>
                   \A t \in Hints(a) \cap Hints(b) :
                     WellTyped(t, v, a) => FromJsonable(t, ToJsonable(v), b) = Project(v, b)}
<1>1. 0 \in S
  BY Nesting!NotWithinZero
<1>2. ASSUME NEW n \in S PROVE n + 1 \in S
  <2> SUFFICES ASSUME NEW v, Nesting!Within(v, n + 1),
                      NEW t \in Hints(a) \cap Hints(b), WellTyped(t, v, a)
               PROVE  FromJsonable(t, ToJsonable(v), b) = Project(v, b)
    OBVIOUS
  <2>0. /\ t \in Hints(a) /\ t \in Hints(b) /\ n \in Nat /\ n + 1 \in Nat
        /\ \A w : Nesting!Within(w, n) =>
             \A u \in Hints(a) \cap Hints(b) :
               WellTyped(u, w, a) => FromJsonable(u, ToJsonable(w), b) = Project(w, b)
    OBVIOUS
  <2> HIDE DEF S
  <2> DEFINE s == Bare(t)
             data == ToJsonable(v)
  <2>1. Nesting!Finite(v) /\ Nesting!Finite(data)
    BY <2>0, ToJsonableFinite DEF Nesting!Finite
  <2>2. \A k \in Places(v) : Nesting!Within(Contents(v)[k], n)
    BY <2>0, Nesting!WithinStep DEF ContentAt
  <2>3. \A k \in Places(v) : Nesting!Finite(Contents(v)[k])
    BY <2>1, NestedFinite DEF ContentAt
  <2>4. \A k \in Places(v) : \A u \in Hints(a) \cap Hints(b) :
          WellTyped(u, Contents(v)[k], a) =>
            /\ FromJsonable(u, ToJsonable(Contents(v)[k]), b) = Project(Contents(v)[k], b)
            /\ ~ IsError(Project(Contents(v)[k], b))
    <3>1. SUFFICES ASSUME NEW k \in Places(v), NEW u \in Hints(a) \cap Hints(b),
                          WellTyped(u, Contents(v)[k], a)
                   PROVE  ~ IsError(Project(Contents(v)[k], b))
      BY <2>0, <2>2
    <3>2. Project(Contents(v)[k], b).k = Contents(v)[k].k
      BY <2>3, ProjectForm
    <3>3. Contents(v)[k].k # "error"
      BY <2>3, <3>1, WellTypedParts
    <3> QED BY <3>2, <3>3 DEF IsError
  <2>5. CASE t.k = "opt" /\ v = None
    BY <2>1, <2>5, NoneKept, DecodeOther
  <2>6. CASE ~ (t.k = "opt" /\ v = None)
    <3>1. Fits(s, v, a)
      BY <2>1, <2>6, WellTypedCases
    <3>2. ~ (t.k = "opt" /\ data = None)
      BY <2>1, <2>6, EncodedKind
    <3>3. CASE s.k = "any"
      <4>1. IsJson(v)
        BY <3>1, <3>3 DEF Fits, Scalars
      <4>2. data = Project(v, b)
        BY <2>1, <4>1, JsonKept
      <4>3. FromJsonable(t, data, b) = data
        BY <2>1, <3>2, <3>3, DecodeOther
      <4> QED BY <4>2, <4>3
    <3>4. CASE s.k \in {"list", "dict"}
      <4>1. v.k = s.k /\ \A k \in Places(v) : WellTyped(s.of, Contents(v)[k], a)
        BY <3>1, <3>4 DEF Fits, Scalars
      <4>2. s.of \in Hints(a) \cap Hints(b)
        BY <3>4, HintFacts
      <4> DEFINE parts == [k \in Places(data) |-> FromJsonable(s.of, Contents(data)[k], b)]
                 shown == [k \in Places(v) |-> Project(Contents(v)[k], b)]
      <4>3. /\ data.k = v.k /\ Places(data) = Places(v)
            /\ \A k \in Places(v) : Contents(data)[k] = ToJsonable(Contents(v)[k])
        BY <2>0, <2>1, <3>4, <4>1, EncodedParts
      <4>6. parts = shown
        BY <2>4, <4>1, <4>2, <4>3
      <4>7. ~ Raises(parts)
        BY <2>4, <4>1, <4>2, <4>6 DEF Raises
      <4>8. FromJsonable(t, data, b) =
              IF Raises(parts) THEN Raised(parts)
              ELSE IF data.k = "list" THEN ListV(parts) ELSE DictV(parts)
        BY <2>1, <3>4, <4>1, <4>3, DecodeElements
      <4>9. (v.k = "list" => Project(v, b) = ListV(shown)) /\ (v.k = "dict" => Project(v, b) = DictV(shown))
        BY <2>1, ProjectForm
      <4> HIDE DEF parts, shown
      <4> QED BY <3>4, <4>1, <4>3, <4>6, <4>7, <4>8, <4>9
    <3>5. CASE s.k = "enum"
      <4>1. v.k = "enum" /\ v.name = s.name /\ "unknown" \in Members(s.name, b)
        BY <3>1, <3>5, HintFacts DEF Fits, Scalars
      <4>2. data = StrV(v.member)
        BY <2>1, <4>1, EncodedForm
      <4>3. FromJsonable(t, data, b) = DecodeEnum(s.name, data, b)
        BY <2>1, <3>2, <3>5, DecodeOther
      <4>4. Project(v, b) = EnumV(v.name, IF v.member \in Members(v.name, b) THEN v.member ELSE "unknown")
        BY <2>1, <4>1, ProjectForm
      <4>5. data.k = "str" /\ data.s = v.member
        BY <4>2 DEF StrV
      <4> QED BY <4>1, <4>3, <4>4, <4>5 DEF DecodeEnum
    <3>6. CASE s.k = "data"
      <4> DEFINE name == s.name
                 kwargs == [f \in DOMAIN Class(name, b) |->
                              IF f \in DOMAIN data.d
                              THEN FromJsonable(Class(name, b)[f].type, data.d[f], b)
                              ELSE AbsentField(Class(name, b)[f], b)]
                 shown == [f \in DOMAIN Class(name, b) |->
                              IF f \in DOMAIN v.fields THEN Project(v.fields[f], b) ELSE None]
      <4>1. /\ v.k = "data" /\ v.name = name /\ DOMAIN v.fields = DOMAIN Class(name, a)
            /\ \A f \in DOMAIN v.fields : WellTyped(Class(name, a)[f].type, v.fields[f], a)
        BY <3>1, <3>6 DEF Fits, Scalars
      <4>2. name \in Known(a) /\ name \in Known(b)
        BY <3>6, HintFacts
      <4>3. Places(v) = DOMAIN v.fields /\ Contents(v) = v.fields
        BY <4>1 DEF Places, Contents
      <4>6. /\ data.k = "dict" /\ DOMAIN data.d = SetFields(v.fields)
            /\ \A f \in SetFields(v.fields) : data.d[f] = ToJsonable(v.fields[f])
        BY <2>0, <2>1, <4>1, EncodedParts
      <4>7. ASSUME NEW f \in DOMAIN Class(name, b)
            PROVE  kwargs[f] = shown[f] /\ ~ IsError(shown[f])
        <5>1. CASE f \in DOMAIN v.fields
          <6>1. /\ Class(name, b)[f] = Class(name, a)[f]
                /\ Class(name, a)[f].type \in Hints(a) \cap Hints(b)
            BY <4>1, <4>2, <5>1, TwoVersions, FieldHint
          <6>2. /\ FromJsonable(Class(name, b)[f].type, ToJsonable(v.fields[f]), b) = Project(v.fields[f], b)
                /\ ~ IsError(Project(v.fields[f], b))
            BY <2>4, <4>1, <4>3, <5>1, <6>1
          <6>3. CASE f \in SetFields(v.fields)
            BY <4>6, <5>1, <6>2, <6>3
          <6>4. CASE f \notin SetFields(v.fields)
            <7>1. v.fields[f] = None
              BY <5>1, <6>4 DEF SetFields
            <7>2. Class(name, a)[f].type.k \in {"opt", "any"}
              <8>1. /\ Nesting!Finite(v.fields[f]) /\ Class(name, a)[f].type \in Hints(a)
                    /\ WellTyped(Class(name, a)[f].type, v.fields[f], a)
                BY <2>3, <4>1, <4>3, <5>1, <6>1
              <8> QED BY <7>1, <8>1, NoneTyped
            <7>3. AbsentField(Class(name, b)[f], b) = None
              <8>1. DefaultRule(b)
                BY CatalogueRules
              <8> QED BY <4>2, <6>1, <7>2, <8>1 DEF DefaultRule
            <7>4. Project(v.fields[f], b) = None
              BY <7>1, NoneKept
            <7> QED BY <4>6, <5>1, <6>2, <6>4, <7>3, <7>4
          <6> QED BY <6>3, <6>4
        <5>2. CASE f \notin DOMAIN v.fields
          <6>1. AbsentField(Class(name, b)[f], b) = None
            BY <4>1, <4>2, <5>2, TwoVersions
          <6>2. f \notin DOMAIN data.d
            BY <4>6, <5>2 DEF SetFields
          <6> QED BY <5>2, <6>1, <6>2 DEF None, IsError
        <5> QED BY <5>1, <5>2
      <4>8. kwargs = shown
        BY <4>7
      <4>9. ~ Raises(kwargs)
        BY <4>7 DEF Raises
      <4>10. FromJsonable(t, data, b) = IF Raises(kwargs) THEN Raised(kwargs) ELSE DataV(s.name, kwargs)
        BY <2>1, <3>6, <4>6, DecodeFields
      <4>11. Project(v, b) = DataV(v.name, shown)
        BY <2>1, <4>1, ProjectForm
      <4> HIDE DEF kwargs, shown
      <4> QED BY <4>1, <4>8, <4>9, <4>10, <4>11
    <3>7. CASE s.k \in Scalars
      <4>1. v.k = s.k
        BY <3>1, <3>7 DEF Fits, Scalars
      <4>2. data = v /\ Project(v, b) = v
        BY <2>1, <3>7, <4>1, EncodedForm, ProjectForm DEF Scalars
      <4> QED BY <2>1, <3>2, <3>7, <4>1, <4>2, ScalarDecodes
    <3>8. s.k \in {"any", "list", "dict", "enum", "data", "float", "int", "bool", "str"}
      BY HintFacts
    <3> QED BY <3>3, <3>4, <3>5, <3>6, <3>7, <3>8 DEF Scalars
  <2> QED BY <2>5, <2>6
<1>3. \A n \in Nat : n \in S
  <2>1. S \subseteq Nat
    OBVIOUS
  <2> HIDE DEF S
  <2> QED BY <1>1, <1>2, <2>1, Nesting!NatInduct
<1> QED BY <1>3 DEF Nesting!Finite

\* What is nested in what a version can express of a value.
LEMMA ProjectedParts ==
  ASSUME NEW v, NEW m, Nesting!Finite(v)
  PROVE  LET w == Project(v, m)
         IN  /\ v.k \in {"list", "dict"} =>
                  /\ w.k = v.k /\ Places(w) = Places(v)
                  /\ \A k \in Places(v) : Contents(w)[k] = Project(Contents(v)[k], m)
             /\ v.k = "data" =>
                  /\ w.k = "data" /\ w.name = v.name /\ DOMAIN w.fields = DOMAIN Class(v.name, m)
                  /\ Places(w) = DOMAIN w.fields /\ Contents(w) = w.fields
                  /\ \A f \in DOMAIN w.fields :
                       w.fields[f] = IF f \in DOMAIN v.fields THEN Project(v.fields[f], m) ELSE None
             /\ v.k = "enum" =>
                  /\ w.k = "enum" /\ w.name = v.name
                  /\ w.member = IF v.member \in Members(v.name, m) THEN v.member ELSE "unknown"
             /\ v # None <=> w # None
<1> DEFINE w == Project(v, m)
           parts == [k \in Places(v) |-> Project(Contents(v)[k], m)]
           shown == [f \in DOMAIN Class(v.name, m) |->
                       IF f \in DOMAIN v.fields THEN Project(v.fields[f], m) ELSE None]
<1>1. DOMAIN parts = Places(v) /\ \A k \in Places(v) : parts[k] = Project(Contents(v)[k], m)
  OBVIOUS
<1>2. /\ DOMAIN shown = DOMAIN Class(v.name, m)
      /\ \A f \in DOMAIN shown :
           shown[f] = IF f \in DOMAIN v.fields THEN Project(v.fields[f], m) ELSE None
  OBVIOUS
<1>3. ASSUME v.k = "list" PROVE w = ListV(parts)
  BY <1>3, ProjectForm
<1>4. ASSUME v.k = "dict" PROVE w = DictV(parts)
  BY <1>4, ProjectForm
<1>5. ASSUME v.k = "data" PROVE w = DataV(v.name, shown)
  BY <1>5, ProjectForm
<1> HIDE DEF parts, shown
<1>6. ASSUME v.k = "data"
      PROVE  /\ w.k = "data" /\ w.name = v.name /\ DOMAIN w.fields = DOMAIN Class(v.name, m)
             /\ Places(w) = DOMAIN w.fields /\ Contents(w) = w.fields
             /\ \A f \in DOMAIN w.fields :
                  w.fields[f] = IF f \in DOMAIN v.fields THEN Project(v.fields[f], m) ELSE None
  BY <1>2, <1>5, <1>6, CompositeForm
<1>7. ASSUME v.k \in {"list", "dict"}
      PROVE  /\ w.k = v.k /\ Places(w) = Places(v)
             /\ \A k \in Places(v) : Contents(w)[k] = Project(Contents(v)[k], m)
  BY <1>1, <1>3, <1>4, <1>7, CompositeForm
<1>8. ASSUME v.k = "enum"
      PROVE  /\ w.k = "enum" /\ w.name = v.name
             /\ w.member = IF v.member \in Members(v.name, m) THEN v.member ELSE "unknown"
  <2>1. w = EnumV(v.name, IF v.member \in Members(v.name, m) THEN v.member ELSE "unknown")
    BY <1>8, ProjectForm
  <2> QED BY <2>1 DEF EnumV
<1>9. v # None <=> w # None
  <2>1. CASE v.k \in {"list", "dict", "data", "enum"}
    <3>1. w.k = v.k
      BY ProjectForm
    <3> QED BY <2>1, <3>1 DEF None
  <2>2. CASE v.k \notin {"list", "dict", "data", "enum"}
    <3>1. w = v
      BY <2>2, ProjectForm
    <3> QED BY <3>1
  <2> QED BY <2>1, <2>2
<1> HIDE DEF w
<1> QED BY <1>6, <1>7, <1>8, <1>9 DEF w

\* to_jsonable leaves JSON as it is.
LEMMA JsonFixed ==
  ASSUME NEW v0, Nesting!Finite(v0), IsJson(v0)
  PROVE  ToJsonable(ToJsonable(v0)) = ToJsonable(v0)
<1> DEFINE S == {n \in Nat : \A v : Nesting!Within(v, n) =>
                   (IsJson(v) => ToJsonable(ToJsonable(v)) = ToJsonable(v))}
<1>1. 0 \in S
  BY Nesting!NotWithinZero
<1>2. ASSUME NEW n \in S PROVE n + 1 \in S
  <2> SUFFICES ASSUME NEW v, Nesting!Within(v, n + 1), IsJson(v)
               PROVE  ToJsonable(ToJsonable(v)) = ToJsonable(v)
    OBVIOUS
  <2>0. /\ n \in Nat /\ n + 1 \in Nat
        /\ \A w : Nesting!Within(w, n) => (IsJson(w) => ToJsonable(ToJsonable(w)) = ToJsonable(w))
    OBVIOUS
  <2> HIDE DEF S
  <2> DEFINE u == ToJsonable(v)
  <2>1. Nesting!Finite(v) /\ Nesting!Finite(u)
    BY <2>0, ToJsonableFinite DEF Nesting!Finite
  <2>2. v.k \in JsonKinds /\ \A k \in Places(v) : IsJson(Contents(v)[k])
    BY <2>1, IsJsonUnfold
  <2>3. \A k \in Places(v) : ToJsonable(ToJsonable(Contents(v)[k])) = ToJsonable(Contents(v)[k])
    BY <2>0, <2>2, Nesting!WithinStep DEF ContentAt
  <2>4. u.k = v.k /\ u = Project(v, 0)
    BY <2>1, JsonKept
  <2>5. IsJson(u)
    BY <2>1, EncodedIsJson, JsonKept
  <2>6. ToJsonable(u) = Project(u, 0)
    BY <2>1, <2>5, JsonKept
  <2>7. \A k \in Places(v) : /\ Project(Contents(v)[k], 0) = ToJsonable(Contents(v)[k])
                             /\ Nesting!Finite(Contents(v)[k])
    BY <2>1, <2>2, NestedFinite, JsonKept DEF ContentAt
  <2>8. CASE v.k \in {"list", "dict"}
    <3>1. Places(u) = Places(v) /\ \A k \in Places(v) : Contents(u)[k] = ToJsonable(Contents(v)[k])
      BY <2>1, <2>4, <2>7, <2>8, ProjectedParts
    <3>2. \A k \in Places(u) : IsJson(Contents(u)[k]) /\ Nesting!Finite(Contents(u)[k])
      BY <2>1, <2>5, IsJsonUnfold, NestedFinite DEF ContentAt
    <3>3. \A k \in Places(u) : Project(Contents(u)[k], 0) = ToJsonable(Contents(u)[k])
      BY <3>2, JsonKept
    <3> DEFINE inner == [k \in Places(u) |-> Project(Contents(u)[k], 0)]
               outer == [k \in Places(v) |-> Project(Contents(v)[k], 0)]
    <3>4. inner = outer
      BY <2>3, <2>7, <3>1, <3>3
    <3>5. CASE v.k = "list"
      <4>1. Project(u, 0) = ListV(inner)
        BY <2>1, <2>4, <3>5, ProjectForm
      <4>2. Project(v, 0) = ListV(outer)
        BY <2>1, <3>5, ProjectForm
      <4> HIDE DEF inner, outer
      <4> QED BY <2>4, <2>6, <3>4, <4>1, <4>2
    <3>6. CASE v.k = "dict"
      <4>1. Project(u, 0) = DictV(inner)
        BY <2>1, <2>4, <3>6, ProjectForm
      <4>2. Project(v, 0) = DictV(outer)
        BY <2>1, <3>6, ProjectForm
      <4> HIDE DEF inner, outer
      <4> QED BY <2>4, <2>6, <3>4, <4>1, <4>2
    <3> QED BY <2>8, <3>5, <3>6
  <2>9. CASE v.k \notin {"list", "dict"}
    <3>1. v.k \notin {"list", "dict", "data", "enum"}
      BY <2>2, <2>9 DEF JsonKinds
    <3>2. Project(u, 0) = u
      BY <2>1, <2>4, <3>1, ProjectForm
    <3> QED BY <2>6, <3>2
  <2> QED BY <2>8, <2>9
<1>3. \A n \in Nat : n \in S
  <2>1. S \subseteq Nat
    OBVIOUS
  <2> HIDE DEF S
  <2> QED BY <1>1, <1>2, <2>1, Nesting!NatInduct
<1> QED BY <1>3 DEF Nesting!Finite

\* What a version can express of a value is of the type that the version declares.
LEMMA ProjectionTyped ==
  ASSUME NEW a \in Minors, NEW b \in Minors, NEW t0 \in Hints(a) \cap Hints(b),
         NEW v0, Nesting!Finite(v0), WellTyped(t0, v0, a)
  PROVE  WellTyped(t0, Project(v0, b), b)
<1> DEFINE S == {n \in Nat : \A v : Nesting!Within(v, n) =>
                   \A t \in Hints(a) \cap Hints(b) :
                     WellTyped(t, v, a) => WellTyped(t, Project(v, b), b)}
<1>1. 0 \in S
  BY Nesting!NotWithinZero
<1>2. ASSUME NEW n \in S PROVE n + 1 \in S
  <2> SUFFICES ASSUME NEW v, Nesting!Within(v, n + 1),
                      NEW t \in Hints(a) \cap Hints(b), WellTyped(t, v, a)
               PROVE  WellTyped(t, Project(v, b), b)
    OBVIOUS
  <2>0. /\ t \in Hints(a) /\ t \in Hints(b) /\ n \in Nat /\ n + 1 \in Nat
        /\ \A w : Nesting!Within(w, n) =>
             \A u \in Hints(a) \cap Hints(b) : WellTyped(u, w, a) => WellTyped(u, Project(w, b), b)
    OBVIOUS
  <2> HIDE DEF S
  <2> DEFINE s == Bare(t)
             w == Project(v, b)
  <2>1. Nesting!Finite(v) /\ Nesting!Finite(w)
    BY <2>0, ProjectFinite DEF Nesting!Finite
  <2>2. \A k \in Places(v) : \A u \in Hints(a) \cap Hints(b) :
          WellTyped(u, Contents(v)[k], a) => WellTyped(u, Project(Contents(v)[k], b), b)
    BY <2>0, Nesting!WithinStep DEF ContentAt
  <2>3. SUFFICES (t.k = "opt" /\ w = None) \/ Fits(s, w, b)
    BY <2>0, <2>1, WellTypedCases
  <2>4. CASE t.k = "opt" /\ v = None
    BY <2>4, NoneKept
  <2>5. CASE Fits(s, v, a) /\ s.k = "any"
    <3>1. IsJson(v)
      BY <2>5 DEF Fits, Scalars
    <3>2. IsJson(w)
      BY <2>1, <3>1, JsonKept, EncodedIsJson
    <3> QED BY <2>5, <3>2 DEF Fits
  <2>6. CASE Fits(s, v, a) /\ s.k \in {"list", "dict"}
    <3>1. v.k = s.k /\ \A k \in Places(v) : WellTyped(s.of, Contents(v)[k], a)
      BY <2>6 DEF Fits, Scalars
    <3>2. s.of \in Hints(a) \cap Hints(b)
      BY <2>0, <2>6, HintFacts
    <3>3. /\ w.k = v.k /\ Places(w) = Places(v)
          /\ \A k \in Places(v) : Contents(w)[k] = Project(Contents(v)[k], b)
      BY <2>1, <2>6, <3>1, ProjectedParts
    <3>4. \A k \in Places(w) : WellTyped(s.of, Contents(w)[k], b)
      BY <2>2, <3>1, <3>2, <3>3
    <3> QED BY <2>6, <3>1, <3>3, <3>4 DEF Fits
  <2>7. CASE Fits(s, v, a) /\ s.k = "enum"
    <3>1. v.k = "enum" /\ v.name = s.name
      BY <2>7 DEF Fits, Scalars
    <3>2. "unknown" \in Members(s.name, b)
      BY <2>0, <2>7, HintFacts
    <3>3. w.k = "enum" /\ w.name = s.name /\ w.member \in Members(s.name, b)
      BY <2>1, <3>1, <3>2, ProjectedParts
    <3> QED BY <2>7, <3>3 DEF Fits
  <2>8. CASE Fits(s, v, a) /\ s.k = "data"
    <3>1. /\ v.k = "data" /\ v.name = s.name /\ DOMAIN v.fields = DOMAIN Class(s.name, a)
          /\ \A f \in DOMAIN v.fields : WellTyped(Class(s.name, a)[f].type, v.fields[f], a)
      BY <2>8 DEF Fits, Scalars
    <3>2. s.name \in Known(a) /\ s.name \in Known(b)
      BY <2>0, <2>8, HintFacts
    <3>3. /\ w.k = "data" /\ w.name = s.name /\ DOMAIN w.fields = DOMAIN Class(s.name, b)
          /\ \A f \in DOMAIN w.fields :
               w.fields[f] = IF f \in DOMAIN v.fields THEN Project(v.fields[f], b) ELSE None
      BY <2>1, <3>1, ProjectedParts
    <3>4. Places(v) = DOMAIN v.fields /\ Contents(v) = v.fields
      BY <3>1 DEF Places, Contents
    <3>5. ASSUME NEW f \in DOMAIN w.fields PROVE WellTyped(Class(s.name, b)[f].type, w.fields[f], b)
      <4>1. CASE f \in DOMAIN v.fields
        <5>1. /\ Class(s.name, b)[f] = Class(s.name, a)[f]
              /\ Class(s.name, a)[f].type \in Hints(a) \cap Hints(b)
          BY <3>1, <3>2, <3>3, <4>1, TwoVersions, FieldHint
        <5> QED BY <2>2, <3>1, <3>3, <3>4, <4>1, <5>1
      <4>2. CASE f \notin DOMAIN v.fields
        <5>1. Class(s.name, b)[f].type.k = "opt" /\ Class(s.name, b)[f].type \in Hints(b)
          BY <3>1, <3>2, <3>3, <4>2, TwoVersions, FieldHint
        <5>2. w.fields[f] = None
          BY <3>3, <4>2
        <5> QED BY <5>1, <5>2, NoneKept, WellTypedCases
      <4> QED BY <4>1, <4>2
    <3> QED BY <2>8, <3>3, <3>5 DEF Fits
  <2>9. CASE Fits(s, v, a) /\ s.k \in Scalars
    <3>1. v.k = s.k
      BY <2>9 DEF Fits, Scalars
    <3>2. w = v
      BY <2>1, <2>9, <3>1, ProjectForm DEF Scalars
    <3> QED BY <2>9, <3>1, <3>2 DEF Fits
  <2>10. s.k \in {"any", "list", "dict", "enum", "data", "float", "int", "bool", "str"}
    BY <2>0, HintFacts
  <2>11. (t.k = "opt" /\ v = None) \/ Fits(s, v, a)
    BY <2>0, <2>1, WellTypedCases
  <2> QED BY <2>4, <2>5, <2>6, <2>7, <2>8, <2>9, <2>10, <2>11 DEF Scalars
<1>3. \A n \in Nat : n \in S
  <2>1. S \subseteq Nat
    OBVIOUS
  <2> HIDE DEF S
  <2> QED BY <1>1, <1>2, <2>1, Nesting!NatInduct
<1> QED BY <1>3 DEF Nesting!Finite

-----------------------------------------------------------------------------
(***************************************************************************)
(* Later versions write the same, and what two versions can express is     *)
(* what the older of them can.                                             *)
(***************************************************************************)
\* Two well-typed values with the same parts on the wire are the same on the wire.
LEMMA EncodedAlike ==
  ASSUME NEW a \in Minors, NEW t \in Hints(a), NEW v, Nesting!Finite(v), WellTyped(t, v, a),
         NEW b \in Minors, NEW u \in Hints(b), NEW w, Nesting!Finite(w), WellTyped(u, w, b),
         v.k = w.k
  PROVE  /\ /\ v.k \in {"list", "dict"} /\ Places(v) = Places(w)
            /\ \A k \in Places(v) : ToJsonable(Contents(v)[k]) = ToJsonable(Contents(w)[k])
            => ToJsonable(v) = ToJsonable(w)
         /\ /\ v.k = "data" /\ SetFields(v.fields) = SetFields(w.fields)
            /\ \A f \in SetFields(v.fields) : ToJsonable(v.fields[f]) = ToJsonable(w.fields[f])
            => ToJsonable(v) = ToJsonable(w)
<1>1. /\ v.k = "list" => ToJsonable(v) = ListV(WireItems(v))
      /\ v.k = "dict" => ToJsonable(v) = DictV(WireItems(v))
      /\ v.k = "data" => ToJsonable(v) = DictV(WireFields(v))
  BY EncodedForm
<1>2. /\ w.k = "list" => ToJsonable(w) = ListV(WireItems(w))
      /\ w.k = "dict" => ToJsonable(w) = DictV(WireItems(w))
      /\ w.k = "data" => ToJsonable(w) = DictV(WireFields(w))
  BY EncodedForm
<1>3. ASSUME Places(v) = Places(w),
             \A k \in Places(v) : ToJsonable(Contents(v)[k]) = ToJsonable(Contents(w)[k])
      PROVE  WireItems(v) = WireItems(w)
  BY <1>3 DEF WireItems
<1>4. ASSUME SetFields(v.fields) = SetFields(w.fields),
             \A f \in SetFields(v.fields) : ToJsonable(v.fields[f]) = ToJsonable(w.fields[f])
      PROVE  WireFields(v) = WireFields(w)
  BY <1>4 DEF WireFields
<1> QED BY <1>1, <1>2, <1>3, <1>4

\* A later version expresses all of a value, and writes it as the version that declares it does.
LEMMA LaterWritesSame ==
  ASSUME NEW a \in Minors, NEW b \in Minors, a <= b, NEW t0 \in Hints(a),
         NEW v0, Nesting!Finite(v0), WellTyped(t0, v0, a)
  PROVE  ToJsonable(Project(v0, b)) = ToJsonable(v0)
<1>0. AdditiveRule(a, b)
  BY CatalogueRules
<1> DEFINE S == {n \in Nat : \A v : Nesting!Within(v, n) =>
                   \A t \in Hints(a) :
                     WellTyped(t, v, a) => ToJsonable(Project(v, b)) = ToJsonable(v)}
<1>1. 0 \in S
  BY Nesting!NotWithinZero
<1>2. ASSUME NEW n \in S PROVE n + 1 \in S
  <2> SUFFICES ASSUME NEW v, Nesting!Within(v, n + 1), NEW t \in Hints(a), WellTyped(t, v, a)
               PROVE  ToJsonable(Project(v, b)) = ToJsonable(v)
    OBVIOUS
  <2>0. /\ n \in Nat /\ n + 1 \in Nat
        /\ \A w : Nesting!Within(w, n) =>
             \A u \in Hints(a) : WellTyped(u, w, a) => ToJsonable(Project(w, b)) = ToJsonable(w)
    OBVIOUS
  <2> HIDE DEF S
  <2> DEFINE s == Bare(t)
             w == Project(v, b)
  <2>1. Nesting!Finite(v) /\ Nesting!Finite(w)
    BY <2>0, ProjectFinite DEF Nesting!Finite
  <2>2. \A k \in Places(v) : \A u \in Hints(a) :
          WellTyped(u, Contents(v)[k], a) =>
            ToJsonable(Project(Contents(v)[k], b)) = ToJsonable(Contents(v)[k])
    BY <2>0, Nesting!WithinStep DEF ContentAt
  <2>3. t \in Hints(b) /\ WellTyped(t, w, b)
    BY <1>0, <2>1, ProjectionTyped DEF AdditiveRule
  <2>4. CASE t.k = "opt" /\ v = None
    BY <2>4, NoneKept
  <2>5. CASE Fits(s, v, a) /\ s.k = "any"
    <3>1. IsJson(v)
      BY <2>5 DEF Fits, Scalars
    <3> QED BY <2>1, <3>1, JsonKept, JsonFixed
  <2>6. CASE Fits(s, v, a) /\ s.k \in {"list", "dict"}
    <3>1. v.k = s.k /\ \A k \in Places(v) : WellTyped(s.of, Contents(v)[k], a)
      BY <2>6 DEF Fits, Scalars
    <3>2. s.of \in Hints(a)
      BY <2>6, HintFacts
    <3>3. /\ w.k = v.k /\ Places(w) = Places(v)
          /\ \A k \in Places(v) : Contents(w)[k] = Project(Contents(v)[k], b)
      BY <2>1, <2>6, <3>1, ProjectedParts
    <3>4. \A k \in Places(v) : ToJsonable(Contents(v)[k]) = ToJsonable(Contents(w)[k])
      BY <2>2, <3>1, <3>2, <3>3
    <3> HIDE DEF w, s
    <3> QED BY <2>1, <2>3, <2>6, <3>1, <3>3, <3>4, EncodedAlike DEF w
  <2>7. CASE Fits(s, v, a) /\ s.k = "enum"
    <3>1. v.k = "enum" /\ v.name = s.name /\ v.member \in Members(s.name, a)
      BY <2>7 DEF Fits, Scalars
    <3>2. v.member \in Members(s.name, b)
      <4>1. s \in Hints(a)
        BY HintFacts
      <4> QED BY <1>0, <2>7, <3>1, <4>1 DEF AdditiveRule
    <3>3. w.k = "enum" /\ w.member = v.member
      BY <2>1, <3>1, <3>2, ProjectedParts
    <3> QED BY <2>1, <2>3, <3>1, <3>3, EncodedKind
  <2>8. CASE Fits(s, v, a) /\ s.k = "data"
    <3>1. /\ v.k = "data" /\ v.name = s.name /\ DOMAIN v.fields = DOMAIN Class(s.name, a)
          /\ \A f \in DOMAIN v.fields : WellTyped(Class(s.name, a)[f].type, v.fields[f], a)
      BY <2>8 DEF Fits, Scalars
    <3>2. s.name \in Known(a) /\ DOMAIN Class(s.name, a) \subseteq DOMAIN Class(s.name, b)
      BY <1>0, <2>8, HintFacts DEF AdditiveRule
    <3>3. /\ w.k = "data" /\ DOMAIN w.fields = DOMAIN Class(s.name, b)
          /\ \A f \in DOMAIN w.fields :
               w.fields[f] = IF f \in DOMAIN v.fields THEN Project(v.fields[f], b) ELSE None
      BY <2>1, <3>1, ProjectedParts
    <3>4. \A f \in DOMAIN v.fields :
            /\ ToJsonable(Project(v.fields[f], b)) = ToJsonable(v.fields[f])
            /\ (v.fields[f] # None <=> Project(v.fields[f], b) # None)
      <4>1. Places(v) = DOMAIN v.fields /\ Contents(v) = v.fields
        BY <3>1 DEF Places, Contents
      <4>2. \A f \in DOMAIN v.fields : Class(s.name, a)[f].type \in Hints(a)
        BY <3>1, <3>2, FieldHint
      <4>3. \A f \in DOMAIN v.fields : Nesting!Finite(v.fields[f])
        BY <2>1, <4>1, NestedFinite DEF ContentAt
      <4>4. \A f \in DOMAIN v.fields : (v.fields[f] # None <=> Project(v.fields[f], b) # None)
        BY <4>3, ProjectedParts
      <4> QED BY <2>2, <3>1, <4>1, <4>2, <4>4
    <3>5. SetFields(w.fields) = SetFields(v.fields)
      BY <3>1, <3>2, <3>3, <3>4 DEF SetFields
    <3>6. \A f \in SetFields(v.fields) : ToJsonable(v.fields[f]) = ToJsonable(w.fields[f])
      <4>1. \A f \in SetFields(v.fields) : f \in DOMAIN v.fields /\ f \in DOMAIN w.fields
        BY <3>1, <3>2, <3>3 DEF SetFields
      <4> QED BY <3>3, <3>4, <4>1
    <3> HIDE DEF w, s
    <3> QED BY <2>1, <2>3, <3>1, <3>3, <3>5, <3>6, EncodedAlike DEF w
  <2>9. CASE Fits(s, v, a) /\ s.k \in Scalars
    <3>1. v.k = s.k
      BY <2>9 DEF Fits, Scalars
    <3>2. w = v
      BY <2>1, <2>9, <3>1, ProjectForm DEF Scalars
    <3> QED BY <3>2
  <2>10. s.k \in {"any", "list", "dict", "enum", "data", "float", "int", "bool", "str"}
    BY <2>0, HintFacts
  <2>11. (t.k = "opt" /\ v = None) \/ Fits(s, v, a)
    BY <2>0, <2>1, WellTypedCases
  <2> QED BY <2>4, <2>5, <2>6, <2>7, <2>8, <2>9, <2>10, <2>11 DEF Scalars
<1>3. \A n \in Nat : n \in S
  <2>1. S \subseteq Nat
    OBVIOUS
  <2> HIDE DEF S
  <2> QED BY <1>1, <1>2, <2>1, Nesting!NatInduct
<1> QED BY <1>3 DEF Nesting!Finite

\* What an earlier version can express of what a later one can is what it can express at once.
LEMMA EarlierProjectsSame ==
  ASSUME NEW a \in Minors, NEW b \in Minors, NEW c \in Minors, c <= b,
         NEW t0 \in Hints(a) \cap Hints(b) \cap Hints(c),
         NEW v0, Nesting!Finite(v0), WellTyped(t0, v0, a)
  PROVE  Project(Project(v0, b), c) = Project(v0, c)
<1>0. AdditiveRule(c, b)
  BY CatalogueRules
<1> DEFINE Shared == Hints(a) \cap Hints(b) \cap Hints(c)
           S == {n \in Nat : \A v : Nesting!Within(v, n) =>
                   \A t \in Shared : WellTyped(t, v, a) => Project(Project(v, b), c) = Project(v, c)}
<1>1. 0 \in S
  BY Nesting!NotWithinZero
<1>2. ASSUME NEW n \in S PROVE n + 1 \in S
  <2> SUFFICES ASSUME NEW v, Nesting!Within(v, n + 1), NEW t \in Shared, WellTyped(t, v, a)
               PROVE  Project(Project(v, b), c) = Project(v, c)
    OBVIOUS
  <2>0. /\ n \in Nat /\ n + 1 \in Nat /\ t \in Hints(a) /\ t \in Hints(b) /\ t \in Hints(c)
        /\ \A w : Nesting!Within(w, n) =>
             \A u \in Shared : WellTyped(u, w, a) => Project(Project(w, b), c) = Project(w, c)
    OBVIOUS
  <2> HIDE DEF S
  <2> DEFINE s == Bare(t)
             w == Project(v, b)
  <2>1. Nesting!Finite(v) /\ Nesting!Finite(w)
    BY <2>0, ProjectFinite DEF Nesting!Finite
  <2>2. \A k \in Places(v) : \A u \in Shared :
          WellTyped(u, Contents(v)[k], a) =>
            Project(Project(Contents(v)[k], b), c) = Project(Contents(v)[k], c)
    BY <2>0, Nesting!WithinStep DEF ContentAt
  <2>4. CASE t.k = "opt" /\ v = None
    BY <2>4, NoneKept
  <2>5. CASE Fits(s, v, a) /\ s.k = "any"
    <3>1. IsJson(v)
      BY <2>5 DEF Fits, Scalars
    <3>2. w = ToJsonable(v) /\ Project(v, c) = ToJsonable(v) /\ ~ IsError(ToJsonable(v))
      BY <2>1, <3>1, JsonKept
    <3>3. IsJson(w)
      BY <2>1, <3>2, EncodedIsJson
    <3>4. Project(w, c) = ToJsonable(w)
      BY <2>1, <3>3, JsonKept
    <3> QED BY <2>1, <3>1, <3>2, <3>4, JsonFixed
  <2>6. CASE Fits(s, v, a) /\ s.k \in {"list", "dict"}
    <3>1. v.k = s.k /\ \A k \in Places(v) : WellTyped(s.of, Contents(v)[k], a)
      BY <2>6 DEF Fits, Scalars
    <3>2. s.of \in Shared
      BY <2>0, <2>6, HintFacts
    <3>3. /\ w.k = v.k /\ Places(w) = Places(v)
          /\ \A k \in Places(v) : Contents(w)[k] = Project(Contents(v)[k], b)
      BY <2>1, <2>6, <3>1, ProjectedParts
    <3> DEFINE inner == [k \in Places(w) |-> Project(Contents(w)[k], c)]
               outer == [k \in Places(v) |-> Project(Contents(v)[k], c)]
    <3>4. inner = outer
      BY <2>2, <3>1, <3>2, <3>3
    <3>5. CASE v.k = "list"
      <4>1. Project(w, c) = ListV(inner)
        BY <2>1, <3>3, <3>5, ProjectForm
      <4>2. Project(v, c) = ListV(outer)
        BY <2>1, <3>5, ProjectForm
      <4> HIDE DEF inner, outer
      <4> QED BY <3>4, <4>1, <4>2
    <3>6. CASE v.k = "dict"
      <4>1. Project(w, c) = DictV(inner)
        BY <2>1, <3>3, <3>6, ProjectForm
      <4>2. Project(v, c) = DictV(outer)
        BY <2>1, <3>6, ProjectForm
      <4> HIDE DEF inner, outer
      <4> QED BY <3>4, <4>1, <4>2
    <3> QED BY <2>6, <3>1, <3>5, <3>6
  <2>7. CASE Fits(s, v, a) /\ s.k = "enum"
    <3>1. v.k = "enum" /\ v.name = s.name
      BY <2>7 DEF Fits, Scalars
    <3>2. Members(s.name, c) \subseteq Members(s.name, b) /\ "unknown" \in Members(s.name, c)
      <4>1. s \in Hints(c)
        BY <2>0, HintFacts
      <4> QED BY <1>0, <2>0, <2>7, <4>1, HintFacts DEF AdditiveRule
    <3>3. /\ w.k = "enum" /\ w.name = s.name
          /\ w.member = IF v.member \in Members(s.name, b) THEN v.member ELSE "unknown"
      BY <2>1, <3>1, ProjectedParts
    <3>4. Project(w, c) = EnumV(w.name, IF w.member \in Members(w.name, c) THEN w.member ELSE "unknown")
      BY <2>1, <3>3, ProjectForm
    <3>5. Project(v, c) = EnumV(v.name, IF v.member \in Members(v.name, c) THEN v.member ELSE "unknown")
      BY <2>1, <3>1, ProjectForm
    <3> QED BY <3>1, <3>2, <3>3, <3>4, <3>5
  <2>8. CASE Fits(s, v, a) /\ s.k = "data"
    <3>1. /\ v.k = "data" /\ v.name = s.name /\ DOMAIN v.fields = DOMAIN Class(s.name, a)
          /\ \A f \in DOMAIN v.fields : WellTyped(Class(s.name, a)[f].type, v.fields[f], a)
      BY <2>8 DEF Fits, Scalars
    <3>2. /\ s.name \in Known(a) /\ s.name \in Known(b) /\ s.name \in Known(c)
          /\ DOMAIN Class(s.name, c) \subseteq DOMAIN Class(s.name, b)
      BY <1>0, <2>0, <2>8, HintFacts DEF AdditiveRule
    <3>3. /\ w.k = "data" /\ w.name = s.name /\ DOMAIN w.fields = DOMAIN Class(s.name, b)
          /\ \A f \in DOMAIN w.fields :
               w.fields[f] = IF f \in DOMAIN v.fields THEN Project(v.fields[f], b) ELSE None
      BY <2>1, <3>1, ProjectedParts
    <3>4. \A f \in DOMAIN v.fields \cap DOMAIN Class(s.name, c) :
            Project(Project(v.fields[f], b), c) = Project(v.fields[f], c)
      <4>1. Places(v) = DOMAIN v.fields /\ Contents(v) = v.fields
        BY <3>1 DEF Places, Contents
      <4>2. \A f \in DOMAIN v.fields \cap DOMAIN Class(s.name, c) : Class(s.name, a)[f].type \in Shared
        <5>1. SUFFICES ASSUME NEW f \in DOMAIN v.fields \cap DOMAIN Class(s.name, c)
                       PROVE  Class(s.name, a)[f].type \in Shared
          OBVIOUS
        <5>2. Class(s.name, b)[f] = Class(s.name, a)[f] /\ Class(s.name, c)[f] = Class(s.name, a)[f]
          BY <3>1, <3>2, TwoVersions
        <5> QED BY <3>1, <3>2, <5>2, FieldHint
      <4> QED BY <2>2, <3>1, <4>1, <4>2
    <3> DEFINE inner == [f \in DOMAIN Class(w.name, c) |->
                           IF f \in DOMAIN w.fields THEN Project(w.fields[f], c) ELSE None]
               outer == [f \in DOMAIN Class(v.name, c) |->
                           IF f \in DOMAIN v.fields THEN Project(v.fields[f], c) ELSE None]
    <3>6. inner = outer
      <4>1. \A f \in DOMAIN Class(s.name, c) : inner[f] = outer[f]
        BY <3>1, <3>2, <3>3, <3>4, NoneKept
      <4> QED BY <3>1, <3>3, <4>1
    <3>7. Project(w, c) = DataV(w.name, inner)
      BY <2>1, <3>3, ProjectForm
    <3>8. Project(v, c) = DataV(v.name, outer)
      BY <2>1, <3>1, ProjectForm
    <3> HIDE DEF inner, outer
    <3> QED BY <3>1, <3>3, <3>6, <3>7, <3>8
  <2>9. CASE Fits(s, v, a) /\ s.k \in Scalars
    <3>1. v.k = s.k
      BY <2>9 DEF Fits, Scalars
    <3>2. w = v
      BY <2>1, <2>9, <3>1, ProjectForm DEF Scalars
    <3> QED BY <3>2
  <2>10. s.k \in {"any", "list", "dict", "enum", "data", "float", "int", "bool", "str"}
    BY <2>0, HintFacts
  <2>11. (t.k = "opt" /\ v = None) \/ Fits(s, v, a)
    BY <2>0, <2>1, WellTypedCases
  <2> QED BY <2>4, <2>5, <2>6, <2>7, <2>8, <2>9, <2>10, <2>11 DEF Scalars
<1>3. \A n \in Nat : n \in S
  <2>1. S \subseteq Nat
    OBVIOUS
  <2> HIDE DEF S
  <2> QED BY <1>1, <1>2, <2>1, Nesting!NatInduct
<1> QED BY <1>3 DEF Nesting!Finite

-----------------------------------------------------------------------------
(***************************************************************************)
(* What is decoded has the declared type.                                  *)
(***************************************************************************)
\* What the constructor of class n gets for field f.
FieldRead(n, data, f, m) ==
  IF f \in DOMAIN data.d THEN FromJsonable(Class(n, m)[f].type, data.d[f], m)
  ELSE AbsentField(Class(n, m)[f], m)

\* from_jsonable of a composite raises exactly if a part does, and otherwise holds the parts.
LEMMA DecodedParts ==
  ASSUME NEW m, NEW t, NEW data, Nesting!Finite(data)
  PROVE  LET s == Bare(t)
             result == FromJsonable(t, data, m)
         IN  /\ s.k \in {"list", "dict"} /\ data.k = s.k =>
                  IF \A k \in Places(data) : ~ IsError(FromJsonable(s.of, Contents(data)[k], m))
                  THEN /\ result.k = s.k /\ Places(result) = Places(data)
                       /\ \A k \in Places(data) :
                            Contents(result)[k] = FromJsonable(s.of, Contents(data)[k], m)
                  ELSE IsError(result)
             /\ s.k = "data" /\ data.k = "dict" =>
                  IF \A f \in DOMAIN Class(s.name, m) : ~ IsError(FieldRead(s.name, data, f, m))
                  THEN /\ result.k = "data" /\ result.name = s.name
                       /\ DOMAIN result.fields = DOMAIN Class(s.name, m)
                       /\ \A f \in DOMAIN result.fields :
                            result.fields[f] = FieldRead(s.name, data, f, m)
                  ELSE IsError(result)
<1> DEFINE s == Bare(t)
           result == FromJsonable(t, data, m)
           parts == [k \in Places(data) |-> FromJsonable(s.of, Contents(data)[k], m)]
           class  == Class(s.name, m)
           kwargs == [f \in DOMAIN class |->
                        IF f \in DOMAIN data.d THEN FromJsonable(class[f].type, data.d[f], m)
                        ELSE AbsentField(class[f], m)]
<1>1. /\ DOMAIN parts = Places(data)
      /\ \A k \in Places(data) : parts[k] = FromJsonable(s.of, Contents(data)[k], m)
  OBVIOUS
<1>2. DOMAIN kwargs = DOMAIN class /\ \A f \in DOMAIN class : kwargs[f] = FieldRead(s.name, data, f, m)
  BY DEF FieldRead
<1>3. s.k \in {"list", "dict"} /\ data.k = s.k =>
        result = IF Raises(parts) THEN Raised(parts)
                 ELSE IF data.k = "list" THEN ListV(parts) ELSE DictV(parts)
  BY DecodeElements
<1>4. s.k = "data" /\ data.k = "dict" =>
        result = IF Raises(kwargs) THEN Raised(kwargs) ELSE DataV(s.name, kwargs)
  BY DecodeFields
<1> HIDE DEF parts, kwargs, result
<1>5. Raises(parts) <=> \E k \in Places(data) : IsError(FromJsonable(s.of, Contents(data)[k], m))
  BY <1>1 DEF Raises
<1>6. Raises(kwargs) <=> \E f \in DOMAIN class : IsError(FieldRead(s.name, data, f, m))
  BY <1>2 DEF Raises
<1>7. ASSUME s.k \in {"list", "dict"} /\ data.k = s.k, ~ Raises(parts)
      PROVE  /\ result.k = s.k /\ Places(result) = Places(data)
             /\ \A k \in Places(data) : Contents(result)[k] = FromJsonable(s.of, Contents(data)[k], m)
  BY <1>1, <1>3, <1>7, CompositeForm
<1>8. ASSUME s.k = "data" /\ data.k = "dict", ~ Raises(kwargs)
      PROVE  /\ result.k = "data" /\ result.name = s.name /\ DOMAIN result.fields = DOMAIN class
             /\ \A f \in DOMAIN result.fields : result.fields[f] = FieldRead(s.name, data, f, m)
  BY <1>2, <1>4, <1>8, CompositeForm
<1>9. ASSUME s.k \in {"list", "dict"} /\ data.k = s.k, Raises(parts) PROVE IsError(result)
  BY <1>3, <1>9, RaisedIsPart
<1>10. ASSUME s.k = "data" /\ data.k = "dict", Raises(kwargs) PROVE IsError(result)
  BY <1>4, <1>10, RaisedIsPart
<1> QED BY <1>5, <1>6, <1>7, <1>8, <1>9, <1>10 DEF result

\* A field that is absent is of its type, unless it is required.
LEMMA AbsentTyped ==
  ASSUME NEW m \in Minors, NEW n \in Known(m), NEW f \in DOMAIN Class(n, m)
  PROVE  LET field == Class(n, m)[f]
             absent == AbsentField(field, m)
         IN  /\ IsRequired(field) => IsError(absent) /\ field.type.k \notin {"opt", "any"}
             /\ ~ IsRequired(field) => WellTyped(field.type, absent, m) /\ ~ IsError(absent)
<1> DEFINE field == Class(n, m)[f]
           absent == AbsentField(field, m)
<1>1. field.type \in Hints(m)
  BY FieldHint
<1>2. /\ field.default # << >> =>
           WellTyped(field.type, DefaultOf(field, m), m) /\ Shallow(DefaultOf(field, m))
      /\ field.type.k \in {"opt", "any"} => absent = None
  <2>1. DefaultRule(m)
    BY CatalogueRules
  <2> QED BY <2>1 DEF DefaultRule
<1>3. CASE IsRequired(field)
  <2>1. absent = ContractError
    BY <1>3 DEF IsRequired, AbsentField
  <2>2. IsError(absent) /\ absent # None
    BY <2>1 DEF IsError, ContractError, ErrorV, None
  <2> QED BY <1>2, <1>3, <2>2
<1>4. CASE field.default # << >>
  <2>1. absent = DefaultOf(field, m)
    BY <1>4 DEF AbsentField
  <2>2. Nesting!Finite(absent) /\ WellTyped(field.type, absent, m)
    BY <1>2, <1>4, <2>1, ShallowWithin
  <2>3. absent.k # "error"
    BY <1>1, <2>2, WellTypedParts
  <2>4. ~ IsRequired(field)
    BY <1>4 DEF IsRequired
  <2> QED BY <2>2, <2>3, <2>4 DEF IsError
<1>5. CASE field.default = << >> /\ field.type.k = "opt"
  <2>1. absent = None /\ ~ IsRequired(field)
    BY <1>2, <1>5 DEF IsRequired
  <2>2. WellTyped(field.type, None, m)
    BY <1>1, <1>5, NoneKept, WellTypedCases
  <2> QED BY <2>1, <2>2 DEF IsError, None
<1> QED BY <1>3, <1>4, <1>5 DEF IsRequired

\* What from_jsonable returns is of the type it was asked for.
LEMMA DecodedTyped ==
  ASSUME NEW m \in Minors, NEW t0 \in Hints(m), NEW v0, Nesting!Finite(v0), IsJson(v0),
         ~ IsError(FromJsonable(t0, v0, m))
  PROVE  WellTyped(t0, FromJsonable(t0, v0, m), m)
<1> DEFINE P(v, t) == ~ IsError(FromJsonable(t, v, m)) => WellTyped(t, FromJsonable(t, v, m), m)
           S == {n \in Nat : \A v : Nesting!Within(v, n) => (IsJson(v) => \A t \in Hints(m) : P(v, t))}
<1>1. 0 \in S
  BY Nesting!NotWithinZero
<1>2. ASSUME NEW n \in S PROVE n + 1 \in S
  <2> SUFFICES ASSUME NEW v, Nesting!Within(v, n + 1), IsJson(v), NEW t \in Hints(m),
                      ~ IsError(FromJsonable(t, v, m))
               PROVE  WellTyped(t, FromJsonable(t, v, m), m)
    OBVIOUS
  <2>0. /\ n \in Nat /\ n + 1 \in Nat
        /\ \A w : Nesting!Within(w, n) => (IsJson(w) => \A u \in Hints(m) : P(w, u))
    OBVIOUS
  <2> HIDE DEF S
  <2> DEFINE s == Bare(t)
             w == FromJsonable(t, v, m)
  <2>1. Nesting!Finite(v)
    BY <2>0 DEF Nesting!Finite
  <2>2. Nesting!Finite(w)
    BY <2>1, FromJsonableFinite
  <2>3. \A k \in Places(v) : \A u \in Hints(m) : P(Contents(v)[k], u)
    BY <2>0, <2>1, IsJsonUnfold, Nesting!WithinStep DEF ContentAt
  <2> HIDE DEF w
  <2>4. SUFFICES (t.k = "opt" /\ w = None) \/ Fits(s, w, m)
    BY <2>2, WellTypedCases DEF w
  <2>5. ~ IsError(w)
    BY DEF w
  <2>6. CASE t.k = "opt" /\ v = None
    BY <2>1, <2>6, DecodeOther DEF w
  <2>7. CASE ~ (t.k = "opt" /\ v = None) /\ s.k = "any"
    BY <2>1, <2>7, DecodeOther DEF w, Fits
  <2>8. CASE ~ (t.k = "opt" /\ v = None) /\ s.k \in {"list", "dict"}
    <3>1. v.k = s.k
      BY <2>1, <2>5, <2>8, DecodeOther DEF w, IsError, ContractError, ErrorV
    <3>2. /\ w.k = s.k /\ Places(w) = Places(v)
          /\ \A k \in Places(v) : ~ IsError(FromJsonable(s.of, Contents(v)[k], m))
          /\ \A k \in Places(v) : Contents(w)[k] = FromJsonable(s.of, Contents(v)[k], m)
      BY <2>1, <2>5, <2>8, <3>1, DecodedParts DEF w
    <3>3. s.of \in Hints(m)
      BY <2>8, HintFacts
    <3>4. \A k \in Places(w) : WellTyped(s.of, Contents(w)[k], m)
      BY <2>3, <3>2, <3>3
    <3> QED BY <2>8, <3>2, <3>4 DEF Fits
  <2>9. CASE ~ (t.k = "opt" /\ v = None) /\ s.k = "enum"
    <3>1. w = DecodeEnum(s.name, v, m)
      BY <2>1, <2>9, DecodeOther DEF w
    <3>2. "unknown" \in Members(s.name, m)
      BY <2>9, HintFacts
    <3>3. w.k = "enum" /\ w.name = s.name /\ w.member \in Members(s.name, m)
      BY <3>1, <3>2 DEF DecodeEnum, EnumV
    <3> QED BY <2>9, <3>3 DEF Fits
  <2>10. CASE ~ (t.k = "opt" /\ v = None) /\ s.k = "data"
    <3>1. v.k = "dict"
      BY <2>1, <2>5, <2>10, DecodeOther DEF w, IsError, ContractError, ErrorV
    <3>2. /\ w.k = "data" /\ w.name = s.name /\ DOMAIN w.fields = DOMAIN Class(s.name, m)
          /\ \A f \in DOMAIN Class(s.name, m) : ~ IsError(FieldRead(s.name, v, f, m))
          /\ \A f \in DOMAIN w.fields : w.fields[f] = FieldRead(s.name, v, f, m)
      BY <2>1, <2>5, <2>10, <3>1, DecodedParts DEF w
    <3>3. s.name \in Known(m)
      BY <2>10, HintFacts
    <3>4. ASSUME NEW f \in DOMAIN w.fields PROVE WellTyped(Class(s.name, m)[f].type, w.fields[f], m)
      <4>1. CASE f \in DOMAIN v.d
        <5>1. Class(s.name, m)[f].type \in Hints(m)
          BY <3>2, <3>3, FieldHint
        <5>2. f \in Places(v) /\ Contents(v) = v.d
          BY <3>1, <4>1 DEF Places, Contents
        <5>3. w.fields[f] = FromJsonable(Class(s.name, m)[f].type, Contents(v)[f], m)
          BY <3>2, <4>1, <5>2 DEF FieldRead
        <5> QED BY <2>3, <3>2, <5>1, <5>2, <5>3
      <4>2. CASE f \notin DOMAIN v.d
        <5>1. w.fields[f] = AbsentField(Class(s.name, m)[f], m) /\ ~ IsError(w.fields[f])
          BY <3>2, <4>2 DEF FieldRead
        <5> QED BY <3>2, <3>3, <5>1, AbsentTyped
      <4> QED BY <4>1, <4>2
    <3> QED BY <2>10, <3>2, <3>4 DEF Fits
  <2>11. CASE ~ (t.k = "opt" /\ v = None) /\ s.k \in Scalars
    <3>1. w.k = s.k
      <4>1. CASE s.k = "float"
        BY <2>1, <2>5, <2>11, <4>1, DecodeOther DEF DecodeFloat, FloatV, w, IsError, ContractError, OverflowError, ErrorV
      <4>2. CASE s.k = "int"
        BY <2>1, <2>5, <2>11, <4>2, DecodeOther DEF DecodeInt, IsInt, IsBool, w, IsError, ContractError, ErrorV
      <4>3. CASE s.k = "bool"
        BY <2>1, <2>5, <2>11, <4>3, DecodeOther DEF IsBool, w, IsError, ContractError, ErrorV
      <4>4. CASE s.k = "str"
        BY <2>1, <2>5, <2>11, <4>4, DecodeOther DEF w, IsError, ContractError, ErrorV
      <4> QED BY <2>11, <4>1, <4>2, <4>3, <4>4 DEF Scalars
    <3> QED BY <2>11, <3>1 DEF Fits
  <2>12. s.k \in {"any", "list", "dict", "enum", "data", "float", "int", "bool", "str"}
    BY HintFacts
  <2> QED BY <2>6, <2>7, <2>8, <2>9, <2>10, <2>11, <2>12 DEF Scalars
<1>3. \A n \in Nat : n \in S
  <2>1. S \subseteq Nat
    OBVIOUS
  <2> HIDE DEF S
  <2> QED BY <1>1, <1>2, <2>1, Nesting!NatInduct
<1> QED BY <1>3 DEF Nesting!Finite

-----------------------------------------------------------------------------
(***************************************************************************)
(* The schemas and the codec agree.                                        *)
(***************************************************************************)
\* What a schema asks of the data itself, branch by branch.
LEMMA ValidatesBranch ==
  ASSUME NEW s, NEW data, NEW m, NEW exact
  PROVE  LET here == ValidatesHere(s, data, m, exact)
         IN  /\ s.k = "any" => here
             /\ s.k \in {"list", "dict", "bool", "str"} => (here <=> data.k = s.k)
             /\ s.k = "enum" => (here <=> data.k = "str" /\ data.s \in Members(s.name, m))
             /\ s.k = "data" => (here <=> ValidatesData(s.name, data, m))
             /\ s.k = "int" => (here <=> data.k = "int" \/ (~exact /\ data.k = "float"))
             /\ s.k = "float" =>
                  (here <=> data.k = "float" \/ (data.k = "int" /\ (exact => FitsFloat(data.n))))
<1> DEFINE here == ValidatesHere(s, data, m, exact)
<1>1. s.k = "any" => here
  BY DEF ValidatesHere
<1>2. ASSUME s.k = "list" PROVE here <=> data.k = s.k
  BY <1>2 DEF ValidatesHere
<1>3. ASSUME s.k = "dict" PROVE here <=> data.k = s.k
  BY <1>3 DEF ValidatesHere
<1>4. ASSUME s.k = "bool" PROVE here <=> data.k = s.k
  BY <1>4 DEF ValidatesHere
<1>5. ASSUME s.k = "str" PROVE here <=> data.k = s.k
  BY <1>5 DEF ValidatesHere
<1>6. ASSUME s.k = "enum" PROVE here <=> data.k = "str" /\ data.s \in Members(s.name, m)
  BY <1>6 DEF ValidatesHere
<1>7. ASSUME s.k = "data" PROVE here <=> ValidatesData(s.name, data, m)
  BY <1>7 DEF ValidatesHere
<1>8. ASSUME s.k = "int" PROVE here <=> data.k = "int" \/ (~exact /\ data.k = "float")
  BY <1>8 DEF ValidatesHere
<1>9. ASSUME s.k = "float"
      PROVE  here <=> data.k = "float" \/ (data.k = "int" /\ (exact => FitsFloat(data.n)))
  BY <1>9 DEF ValidatesHere
<1> HIDE DEF here
<1> QED BY <1>1, <1>2, <1>3, <1>4, <1>5, <1>6, <1>7, <1>8, <1>9 DEF here

\* Where a type leads into data, branch by branch.
LEMMA ReadKeysBranch ==
  ASSUME NEW m, NEW t, NEW data
  PROVE  LET s == Bare(t)
             keys == ReadKeys(Typed(t, data, m))
         IN  /\ s.k \notin {"list", "dict", "data"} => keys = {}
             /\ s.k \in {"list", "dict"} /\ data.k = s.k =>
                  keys = Places(data) /\ \A k : HintAt(s, k, m) = s.of
             /\ s.k = "data" /\ data.k = "dict" =>
                  /\ keys = DOMAIN data.d \cap DOMAIN Class(s.name, m) /\ Contents(data) = data.d
                  /\ Places(data) = DOMAIN data.d
                  /\ \A k : HintAt(s, k, m) = Class(s.name, m)[k].type
<1> DEFINE s == Bare(t)
           keys == ReadKeys(Typed(t, data, m))
<1>1. s.k \notin {"list", "dict", "data"} => keys = {}
  BY DEF ReadKeys, Typed
<1>2. ASSUME s.k \in {"list", "dict"} /\ data.k = s.k
      PROVE  keys = Places(data) /\ \A k : HintAt(s, k, m) = s.of
  BY <1>2 DEF ReadKeys, Typed, Places, HintAt
<1>3. ASSUME s.k = "data" /\ data.k = "dict"
      PROVE  /\ keys = DOMAIN data.d \cap DOMAIN Class(s.name, m) /\ Contents(data) = data.d
             /\ Places(data) = DOMAIN data.d
             /\ \A k : HintAt(s, k, m) = Class(s.name, m)[k].type
  BY <1>3 DEF ReadKeys, Typed, Contents, Places, HintAt
<1> QED BY <1>1, <1>2, <1>3

\* What a well-typed value is on the wire validates against the schema of its type.
LEMMA EncodedValidates ==
  ASSUME NEW exact, NEW m \in Minors, NEW t0 \in Hints(m), NEW v0, Nesting!Finite(v0), WellTyped(t0, v0, m),
         ~ (t0.k = "opt" /\ v0 = None)
  PROVE  Validates(t0, ToJsonable(v0), m, exact)
<1> DEFINE P(v, t) == WellTyped(t, v, m) /\ ~ (t.k = "opt" /\ v = None) =>
                        Validates(t, ToJsonable(v), m, exact)
           S == {n \in Nat : \A v : Nesting!Within(v, n) => \A t \in Hints(m) : P(v, t)}
<1>1. 0 \in S
  BY Nesting!NotWithinZero
<1>2. ASSUME NEW n \in S PROVE n + 1 \in S
  <2> SUFFICES ASSUME NEW v, Nesting!Within(v, n + 1), NEW t \in Hints(m),
                      WellTyped(t, v, m), ~ (t.k = "opt" /\ v = None)
               PROVE  Validates(t, ToJsonable(v), m, exact)
    OBVIOUS
  <2>0. /\ n \in Nat /\ n + 1 \in Nat
        /\ \A w : Nesting!Within(w, n) => \A u \in Hints(m) : P(w, u)
    OBVIOUS
  <2> HIDE DEF S
  <2> DEFINE s == Bare(t)
             data == ToJsonable(v)
             keys == ReadKeys(Typed(t, data, m))
  <2>1. Nesting!Finite(v) /\ Nesting!Finite(data)
    BY <2>0, ToJsonableFinite DEF Nesting!Finite
  <2>2. \A k \in Places(v) : \A u \in Hints(m) : P(Contents(v)[k], u)
    BY <2>0, Nesting!WithinStep DEF ContentAt
  <2>3. SUFFICES /\ ValidatesHere(s, data, m, exact)
                 /\ \A k \in keys : Validates(HintAt(s, k, m), Contents(data)[k], m, exact)
    BY <2>1, ValidatesUnfold
  <2>4. Fits(s, v, m)
    BY <2>1, WellTypedCases
  <2>5. CASE s.k = "any"
    BY <2>5, ValidatesBranch, ReadKeysBranch
  <2>6. CASE s.k \in {"list", "dict"}
    <3>1. v.k = s.k /\ \A k \in Places(v) : WellTyped(s.of, Contents(v)[k], m)
      BY <2>4, <2>6 DEF Fits, Scalars
    <3>2. /\ data.k = v.k /\ Places(data) = Places(v)
          /\ \A k \in Places(v) : Contents(data)[k] = ToJsonable(Contents(v)[k])
      BY <2>1, <2>6, <3>1, EncodedParts
    <3>3. s.of \in Hints(m) /\ s.of.k # "opt"
      BY <2>6, HintFacts
    <3>4. keys = Places(data) /\ \A k : HintAt(s, k, m) = s.of
      BY <2>6, <3>1, <3>2, ReadKeysBranch
    <3>5. ValidatesHere(s, data, m, exact)
      BY <2>6, <3>1, <3>2, ValidatesBranch
    <3> QED BY <2>2, <3>1, <3>2, <3>3, <3>4, <3>5
  <2>7. CASE s.k = "enum"
    <3>1. v.k = "enum" /\ v.member \in Members(s.name, m)
      BY <2>4, <2>7 DEF Fits, Scalars
    <3>2. data.k = "str" /\ data.s = v.member
      BY <2>1, <3>1, EncodedKind DEF StrV
    <3> QED BY <2>7, <3>1, <3>2, ValidatesBranch, ReadKeysBranch
  <2>8. CASE s.k = "data"
    <3>1. /\ v.k = "data" /\ DOMAIN v.fields = DOMAIN Class(s.name, m)
          /\ \A f \in DOMAIN v.fields : WellTyped(Class(s.name, m)[f].type, v.fields[f], m)
      BY <2>4, <2>8 DEF Fits, Scalars
    <3>2. /\ data.k = "dict" /\ DOMAIN data.d = SetFields(v.fields)
          /\ \A f \in SetFields(v.fields) : data.d[f] = ToJsonable(v.fields[f])
      BY <2>1, <3>1, EncodedParts
    <3>3. s.name \in Known(m)
      BY <2>8, HintFacts
    <3>4. \A f \in DOMAIN v.fields : Class(s.name, m)[f].type \in Hints(m)
      BY <3>1, <3>3, FieldHint
    <3>5. /\ keys = DOMAIN data.d \cap DOMAIN Class(s.name, m) /\ Contents(data) = data.d
          /\ \A k : HintAt(s, k, m) = Class(s.name, m)[k].type
      <4>1. data.k = "dict"
        BY <3>2
      <4> HIDE DEF data
      <4> QED BY <2>8, <4>1, ReadKeysBranch
    <3>6. ASSUME NEW f \in DOMAIN Class(s.name, m), IsRequired(Class(s.name, m)[f])
          PROVE  f \in DOMAIN data.d
      <4>1. Class(s.name, m)[f].type.k \notin {"opt", "any"}
        BY <3>3, <3>6, AbsentTyped
      <4>2. ASSUME v.fields[f] = None PROVE FALSE
        <5>1. WellTyped(Class(s.name, m)[f].type, None, m)
          BY <3>1, <4>2
        <5> QED BY <3>1, <3>4, <4>1, <5>1, NoneTyped
      <4> QED BY <3>1, <3>2, <4>2 DEF SetFields
    <3>7. ValidatesHere(s, data, m, exact)
      BY <2>8, <3>2, <3>6, ValidatesBranch DEF ValidatesData
    <3>8. ASSUME NEW k \in keys PROVE Validates(HintAt(s, k, m), Contents(data)[k], m, exact)
      <4>1. k \in SetFields(v.fields) /\ k \in DOMAIN v.fields /\ v.fields[k] # None
        BY <3>2, <3>5, <3>8 DEF SetFields
      <4>2. Places(v) = DOMAIN v.fields /\ Contents(v) = v.fields
        BY <3>1 DEF Places, Contents
      <4>3. P(v.fields[k], Class(s.name, m)[k].type)
        BY <2>2, <3>4, <4>1, <4>2
      <4>4. Validates(Class(s.name, m)[k].type, ToJsonable(v.fields[k]), m, exact)
        BY <3>1, <4>1, <4>3
      <4> QED BY <3>2, <3>5, <4>1, <4>4
    <3> QED BY <3>7, <3>8
  <2>9. CASE s.k \in Scalars
    <3>1. v.k = s.k
      BY <2>4, <2>9 DEF Fits, Scalars
    <3>2. data = v
      BY <2>1, <2>9, <3>1, EncodedKind DEF Scalars
    <3> QED BY <2>9, <3>1, <3>2, ValidatesBranch, ReadKeysBranch DEF Scalars
  <2>10. s.k \in {"any", "list", "dict", "enum", "data", "float", "int", "bool", "str"}
    BY HintFacts
  <2> QED BY <2>5, <2>6, <2>7, <2>8, <2>9, <2>10 DEF Scalars
<1>3. \A n \in Nat : n \in S
  <2>1. S \subseteq Nat
    OBVIOUS
  <2> HIDE DEF S
  <2> QED BY <1>1, <1>2, <2>1, Nesting!NatInduct
<1> QED BY <1>3 DEF Nesting!Finite

\* JSON that validates, with exact numbers, is decoded.
LEMMA ValidDecodes ==
  ASSUME NEW m \in Minors, NEW t0 \in Hints(m), NEW v0, Nesting!Finite(v0), IsJson(v0),
         Validates(t0, v0, m, TRUE)
  PROVE  ~ IsError(FromJsonable(t0, v0, m))
<1> DEFINE Valid(v, t) == Validates(t, v, m, TRUE)
           P(v, t) == Valid(v, t) => ~ IsError(FromJsonable(t, v, m))
           S == {n \in Nat : \A v : Nesting!Within(v, n) => (IsJson(v) => \A t \in Hints(m) : P(v, t))}
<1> HIDE DEF Valid
<1>1. 0 \in S
  BY Nesting!NotWithinZero
<1>2. ASSUME NEW n \in S PROVE n + 1 \in S
  <2> SUFFICES ASSUME NEW v, Nesting!Within(v, n + 1), IsJson(v), NEW t \in Hints(m),
                      Valid(v, t)
               PROVE  ~ IsError(FromJsonable(t, v, m))
    OBVIOUS
  <2>0. /\ n \in Nat /\ n + 1 \in Nat
        /\ \A w : Nesting!Within(w, n) => (IsJson(w) => \A u \in Hints(m) : P(w, u))
    OBVIOUS
  <2> HIDE DEF S
  <2> DEFINE s == Bare(t)
             w == FromJsonable(t, v, m)
             keys == ReadKeys(Typed(t, v, m))
  <2>1. Nesting!Finite(v)
    BY <2>0 DEF Nesting!Finite
  <2>2. \A k \in Places(v) : \A u \in Hints(m) : P(Contents(v)[k], u)
    BY <2>0, <2>1, IsJsonUnfold, Nesting!WithinStep DEF ContentAt
  <2>3. /\ ValidatesHere(s, v, m, TRUE)
        /\ \A k \in keys : Valid(Contents(v)[k], HintAt(s, k, m))
    BY <2>1, ValidatesUnfold DEF Valid
  <2>4. \A k \in keys : HintAt(s, k, m) \in Hints(m) /\ k \in Places(v)
    BY PartHint
  <2>5. \A k \in keys : ~ IsError(FromJsonable(HintAt(s, k, m), Contents(v)[k], m))
    BY <2>2, <2>3, <2>4
  <2>6. CASE t.k = "opt" /\ v = None
    BY <2>1, <2>6, DecodeOther DEF IsError, None
  <2>7. CASE ~ (t.k = "opt" /\ v = None) /\ s.k = "any"
    <3>1. v.k \in JsonKinds
      BY <2>1, IsJsonUnfold
    <3> QED BY <2>1, <2>7, <3>1, DecodeOther DEF IsError, JsonKinds
  <2>8. CASE ~ (t.k = "opt" /\ v = None) /\ s.k \in {"list", "dict"}
    <3>1. v.k = s.k
      BY <2>3, <2>8, ValidatesBranch
    <3>2. keys = Places(v) /\ \A k : HintAt(s, k, m) = s.of
      BY <2>8, <3>1, ReadKeysBranch
    <3>3. w.k = s.k
      BY <2>1, <2>5, <2>8, <3>1, <3>2, DecodedParts
    <3> QED BY <2>8, <3>3 DEF IsError
  <2>9. CASE ~ (t.k = "opt" /\ v = None) /\ s.k = "enum"
    <3>1. w = DecodeEnum(s.name, v, m) /\ "unknown" \in Members(s.name, m)
      BY <2>1, <2>9, DecodeOther, HintFacts
    <3> QED BY <3>1 DEF DecodeEnum, EnumV, IsError
  <2>10. CASE ~ (t.k = "opt" /\ v = None) /\ s.k = "data"
    <3>1. ValidatesData(s.name, v, m) /\ v.k = "dict"
      BY <2>3, <2>10, ValidatesBranch DEF ValidatesData
    <3>2. /\ keys = DOMAIN v.d \cap DOMAIN Class(s.name, m) /\ Contents(v) = v.d
          /\ \A k : HintAt(s, k, m) = Class(s.name, m)[k].type
      BY <2>10, <3>1, ReadKeysBranch
    <3>3. s.name \in Known(m)
      BY <2>10, HintFacts
    <3>4. \A f \in DOMAIN Class(s.name, m) : ~ IsError(FieldRead(s.name, v, f, m))
      <4>1. SUFFICES ASSUME NEW f \in DOMAIN Class(s.name, m)
                     PROVE  ~ IsError(FieldRead(s.name, v, f, m))
        OBVIOUS
      <4>2. CASE f \in DOMAIN v.d
        BY <2>5, <3>2, <4>2 DEF FieldRead
      <4>3. CASE f \notin DOMAIN v.d
        <5>1. ~ IsRequired(Class(s.name, m)[f])
          BY <3>1, <4>3 DEF ValidatesData
        <5>2. ~ IsError(AbsentField(Class(s.name, m)[f], m))
          BY <3>3, <5>1, AbsentTyped
        <5> QED BY <4>3, <5>2 DEF FieldRead
      <4> QED BY <4>2, <4>3
    <3>5. w.k = "data"
      BY <2>1, <2>10, <3>1, <3>4, DecodedParts
    <3> QED BY <3>5 DEF IsError
  <2>11. CASE ~ (t.k = "opt" /\ v = None) /\ s.k \in Scalars
    <3>1. CASE s.k = "float"
      <4>1. v.k = "float" \/ (v.k = "int" /\ FitsFloat(v.n))
        BY <2>3, <3>1, ValidatesBranch
      <4>2. w = DecodeFloat(v)
        BY <2>1, <2>11, <3>1, DecodeOther
      <4> QED BY <4>1, <4>2 DEF DecodeFloat, FloatV, IsInt, IsBool, IsError
    <3>2. CASE s.k \in {"int", "bool", "str"}
      <4>1. v.k = s.k
        BY <2>3, <3>2, ValidatesBranch
      <4>2. w = v
        BY <2>1, <2>11, <3>2, <4>1, ScalarDecodes
      <4> QED BY <3>2, <4>1, <4>2 DEF IsError
    <3> QED BY <2>11, <3>1, <3>2 DEF Scalars
  <2>12. s.k \in {"any", "list", "dict", "enum", "data", "float", "int", "bool", "str"}
    BY HintFacts
  <2> QED BY <2>6, <2>7, <2>8, <2>9, <2>10, <2>11, <2>12 DEF Scalars
<1>3. \A n \in Nat : n \in S
  <2>1. S \subseteq Nat
    OBVIOUS
  <2> HIDE DEF S
  <2> QED BY <1>1, <1>2, <2>1, Nesting!NatInduct
<1> QED BY <1>3 DEF Nesting!Finite, Valid

-----------------------------------------------------------------------------
(***************************************************************************)
(* The version that an artifact states travels with it.                    *)
(***************************************************************************)
\* A well-typed object, field by field.
LEMMA TypedObject ==
  ASSUME NEW m \in Minors, NEW n \in Known(m), NEW w, Nesting!Finite(w), WellTyped(Data(n), w, m)
  PROVE  /\ w.k = "data" /\ w.name = n /\ DOMAIN w.fields = DOMAIN Class(n, m)
         /\ \A f \in DOMAIN Class(n, m) : /\ Class(n, m)[f].type \in Hints(m)
                                          /\ WellTyped(Class(n, m)[f].type, w.fields[f], m)
                                          /\ Nesting!Finite(w.fields[f])
<1>1. Data(n) \in Hints(m) /\ Data(n).k = "data" /\ Data(n).name = n /\ Bare(Data(n)) = Data(n)
  BY DataHint
<1>2. Fits(Data(n), w, m)
  BY <1>1, WellTypedCases
<1>3. /\ w.k = "data" /\ w.name = n /\ DOMAIN w.fields = DOMAIN Class(n, m)
      /\ \A f \in DOMAIN w.fields : WellTyped(Class(n, m)[f].type, w.fields[f], m)
  BY <1>1, <1>2 DEF Fits, Scalars
<1>4. Places(w) = DOMAIN w.fields /\ Contents(w) = w.fields
  BY <1>3 DEF Places, Contents
<1>5. \A f \in DOMAIN w.fields : Nesting!Finite(w.fields[f])
  BY <1>4, NestedFinite DEF ContentAt
<1>6. \A f \in DOMAIN Class(n, m) : Class(n, m)[f].type \in Hints(m)
  BY FieldHint
<1> QED BY <1>3, <1>5, <1>6

\* A well-typed scalar.
LEMMA TypedScalar ==
  ASSUME NEW m \in Minors, NEW t \in Hints(m), t.k \in Scalars, NEW v, Nesting!Finite(v), WellTyped(t, v, m)
  PROVE  v.k = t.k /\ v # None /\ ToJsonable(v) = v /\ \A b : Project(v, b) = v
<1>1. Bare(t) = t
  BY DEF Bare, Scalars
<1>2. Fits(t, v, m)
  BY <1>1, WellTypedCases DEF Scalars
<1>3. v.k = t.k
  BY <1>2 DEF Fits, Scalars
<1>4. v # None
  BY <1>3 DEF None, Scalars
<1>5. ToJsonable(v) = v
  BY <1>3, EncodedKind DEF Scalars
<1>6. \A b : Project(v, b) = v
  BY <1>3, ProjectForm DEF Scalars
<1> QED BY <1>3, <1>4, <1>5, <1>6

\* The rules on versions, for one artifact type.
LEMMA VersionFields ==
  ASSUME NEW m \in Minors, NEW n \in Known(m), n \in ARTIFACT_TYPES
  PROVE  /\ schema_major(StrV(SCHEMA_VERSION[m])) = IntV(1)
         /\ HasEnvelope(n) =>
              /\ "meta" \in DOMAIN Class(n, m) /\ "schema_version" \notin DOMAIN Class(n, m)
              /\ Class(n, m)["meta"].type = Data("ArtifactMeta") /\ IsRequired(Class(n, m)["meta"])
              /\ "ArtifactMeta" \in Known(m)
              /\ "schema_version" \in DOMAIN Class("ArtifactMeta", m)
              /\ Class("ArtifactMeta", m)["schema_version"].type = Str
              /\ IsRequired(Class("ArtifactMeta", m)["schema_version"])
         /\ ~ HasEnvelope(n) =>
              /\ "meta" \notin DOMAIN Class(n, m) /\ "schema_version" \in DOMAIN Class(n, m)
              /\ Class(n, m)["schema_version"].type = Str /\ IsRequired(Class(n, m)["schema_version"])
<1>1. VersionRule(m)
  BY CatalogueRules
<1>2. schema_major(StrV(SCHEMA_VERSION[m])) = IntV(1)
  BY <1>1 DEF VersionRule
<1>3. \A name : /\ Field(Data(name), << >>).type = Data(name) /\ IsRequired(Field(Data(name), << >>))
                /\ Field(Str, << >>).type = Str /\ IsRequired(Field(Str, << >>))
  BY DEF Field, IsRequired, Data, Str
<1>4. ASSUME HasEnvelope(n)
      PROVE  /\ "meta" \in DOMAIN Class(n, m) /\ "schema_version" \notin DOMAIN Class(n, m)
             /\ Class(n, m)["meta"] = Field(Data("ArtifactMeta"), << >>)
  BY <1>1, <1>4 DEF VersionRule
<1>5. ASSUME ~ HasEnvelope(n)
      PROVE  /\ "meta" \notin DOMAIN Class(n, m) /\ "schema_version" \in DOMAIN Class(n, m)
             /\ Class(n, m)["schema_version"] = Field(Str, << >>)
  BY <1>1, <1>5 DEF VersionRule
<1>6. /\ "schema_version" \in DOMAIN Class("ArtifactMeta", m)
      /\ Class("ArtifactMeta", m)["schema_version"] = Field(Str, << >>)
  BY <1>1 DEF VersionRule
<1>7. ASSUME HasEnvelope(n) PROVE "ArtifactMeta" \in Known(m)
  <2>1. Data("ArtifactMeta") \in Hints(m)
    BY <1>3, <1>4, <1>7, FieldHint
  <2>2. /\ Bare(Data("ArtifactMeta")) = Data("ArtifactMeta")
        /\ Data("ArtifactMeta").k = "data" /\ Data("ArtifactMeta").name = "ArtifactMeta"
    BY DEF Bare, Data
  <2> QED BY <2>1, <2>2, HintFacts
<1> QED BY <1>2, <1>3, <1>4, <1>5, <1>6, <1>7

\* The version that an artifact's payload states as its own.
Stated(n, data) ==
  IF HasEnvelope(n) THEN data.d["meta"].d["schema_version"] ELSE data.d["schema_version"]

\* An artifact's own version is what declared_schema_version finds in its payload.
LEMMA StampCarried ==
  ASSUME NEW m \in Minors, NEW n \in Known(m), n \in ARTIFACT_TYPES,
         NEW w, Nesting!Finite(w), WellTyped(Data(n), w, m)
  PROVE  LET data == ToJsonable(w)
         IN  /\ declared_schema_version(data) = Stamp(n, w) /\ Stated(n, data) = Stamp(n, w)
             /\ Stamp(n, w).k = "str" /\ ~ Shadowed(n, data) /\ data.k = "dict"
             /\ \A b \in Minors : n \in Known(b) => Stamp(n, Project(w, b)) = Stamp(n, w)
<1> DEFINE data == ToJsonable(w)
<1>1. /\ w.k = "data" /\ w.name = n /\ DOMAIN w.fields = DOMAIN Class(n, m)
      /\ \A f \in DOMAIN Class(n, m) : /\ Class(n, m)[f].type \in Hints(m)
                                       /\ WellTyped(Class(n, m)[f].type, w.fields[f], m)
                                       /\ Nesting!Finite(w.fields[f])
  BY TypedObject
<1>2. /\ data.k = "dict" /\ DOMAIN data.d = SetFields(w.fields)
      /\ \A f \in SetFields(w.fields) : data.d[f] = ToJsonable(w.fields[f])
  <2>1. Data(n) \in Hints(m)
    BY DataHint
  <2> QED BY <1>1, <2>1, EncodedParts
<1>3. SetFields(w.fields) \subseteq DOMAIN Class(n, m)
  BY <1>1 DEF SetFields
<1>4. \A b \in Minors : /\ DOMAIN Project(w, b).fields = DOMAIN Class(n, b)
                        /\ \A f \in DOMAIN Class(n, b) \cap DOMAIN Class(n, m) :
                             Project(w, b).fields[f] = Project(w.fields[f], b)
  BY <1>1, ProjectedParts
<1>5. Str.k = "str" /\ "str" \in Scalars
  BY DEF Str, Scalars
<1> HIDE DEF data
<1>6. CASE ~ HasEnvelope(n)
  <2> DEFINE f == "schema_version"
  <2>1. "meta" \notin DOMAIN Class(n, m) /\ f \in DOMAIN Class(n, m) /\ Class(n, m)[f].type = Str
    BY <1>6, VersionFields
  <2>2. /\ w.fields[f].k = "str" /\ w.fields[f] # None /\ ToJsonable(w.fields[f]) = w.fields[f]
        /\ \A b : Project(w.fields[f], b) = w.fields[f]
    BY <1>1, <1>5, <2>1, TypedScalar
  <2>3. f \in SetFields(w.fields) /\ "meta" \notin SetFields(w.fields)
    BY <1>1, <2>1, <2>2 DEF SetFields
  <2>4. data.d[f] = w.fields[f] /\ HasKey(data, f) /\ ~ HasKey(data, "meta")
    BY <1>2, <2>2, <2>3 DEF HasKey
  <2>5. \A b \in Minors : n \in Known(b) => f \in DOMAIN Class(n, b)
    BY <1>6, VersionFields
  <2>6. \A b \in Minors : n \in Known(b) => Project(w, b).fields[f] = w.fields[f]
    BY <1>4, <2>1, <2>2, <2>5
  <2>7. Stamp(n, w) = w.fields[f] /\ \A b : Stamp(n, Project(w, b)) = Project(w, b).fields[f]
    BY <1>6 DEF Stamp
  <2>8. declared_schema_version(data) = w.fields[f] /\ Stated(n, data) = w.fields[f]
    BY <1>6, <2>4 DEF declared_schema_version, Stated
  <2>9. ~ Shadowed(n, data)
    BY <1>6, <2>4 DEF Shadowed
  <2> QED BY <1>2, <2>2, <2>6, <2>7, <2>8, <2>9 DEF data
<1>7. CASE HasEnvelope(n)
  <2> DEFINE f == "schema_version"
             e == w.fields["meta"]
  <2>1. /\ f \notin DOMAIN Class(n, m) /\ "meta" \in DOMAIN Class(n, m)
        /\ Class(n, m)["meta"].type = Data("ArtifactMeta") /\ "ArtifactMeta" \in Known(m)
        /\ f \in DOMAIN Class("ArtifactMeta", m) /\ Class("ArtifactMeta", m)[f].type = Str
    BY <1>7, VersionFields
  <2>2. Nesting!Finite(e) /\ WellTyped(Data("ArtifactMeta"), e, m) /\ Data("ArtifactMeta") \in Hints(m)
    BY <1>1, <2>1
  <2> HIDE DEF e
  <2>3. /\ e.k = "data" /\ e.name = "ArtifactMeta" /\ DOMAIN e.fields = DOMAIN Class("ArtifactMeta", m)
        /\ Str \in Hints(m) /\ WellTyped(Str, e.fields[f], m) /\ Nesting!Finite(e.fields[f])
    BY <2>1, <2>2, TypedObject
  <2>4. /\ e.fields[f].k = "str" /\ e.fields[f] # None /\ ToJsonable(e.fields[f]) = e.fields[f]
        /\ \A b : Project(e.fields[f], b) = e.fields[f]
    BY <1>5, <2>3, TypedScalar
  <2>5. "meta" \in SetFields(w.fields) /\ f \notin SetFields(w.fields) /\ f \in SetFields(e.fields)
    BY <1>1, <2>1, <2>3, <2>4 DEF SetFields, None, e
  <2>6. /\ ToJsonable(e).k = "dict" /\ DOMAIN ToJsonable(e).d = SetFields(e.fields)
        /\ ToJsonable(e).d[f] = e.fields[f]
    BY <2>2, <2>3, <2>4, <2>5, EncodedParts
  <2>7. data.d["meta"] = ToJsonable(e) /\ HasKey(data, "meta") /\ ~ HasKey(data, f)
    BY <1>2, <2>5 DEF HasKey, e
  <2>8. HasKey(data.d["meta"], f)
    BY <2>5, <2>6, <2>7 DEF HasKey
  <2>9. ASSUME NEW b \in Minors, n \in Known(b) PROVE Project(w, b).fields["meta"].fields[f] = e.fields[f]
    <3>1. /\ "meta" \in DOMAIN Class(n, b) /\ "ArtifactMeta" \in Known(b)
          /\ f \in DOMAIN Class("ArtifactMeta", b)
      BY <1>7, <2>9, VersionFields
    <3>2. Project(w, b).fields["meta"] = Project(e, b)
      BY <1>4, <2>1, <3>1 DEF e
    <3>3. Project(e, b).fields[f] = Project(e.fields[f], b)
      BY <2>1, <2>2, <2>3, <3>1, ProjectedParts
    <3> QED BY <2>4, <3>2, <3>3
  <2>10. /\ Stamp(n, w) = e.fields[f]
         /\ \A b : Stamp(n, Project(w, b)) = Project(w, b).fields["meta"].fields[f]
    BY <1>7 DEF Stamp, e
  <2>11. declared_schema_version(data) = e.fields[f] /\ Stated(n, data) = e.fields[f]
    BY <1>7, <2>6, <2>7, <2>8 DEF declared_schema_version, Stated
  <2>12. ~ Shadowed(n, data)
    BY <1>7, <2>7 DEF Shadowed
  <2> QED BY <1>2, <2>4, <2>9, <2>10, <2>11, <2>12 DEF data
<1> QED BY <1>6, <1>7

-----------------------------------------------------------------------------
(***************************************************************************)
(* What a consumer makes of an artifact, and of keys that it does not      *)
(* know.                                                                   *)
(***************************************************************************)
\* parse_artifact of a payload whose version is spoken is from_jsonable.
LEMMA ParseSpoken ==
  ASSUME NEW m \in Minors, NEW n \in Known(m), n \in ARTIFACT_TYPES, NEW data,
         declared_schema_version(data).k = "str", SpokenMajor(declared_schema_version(data))
  PROVE  parse_artifact(n, data, m) = FromJsonable(Data(n), data, m)
<1>1. schema_major(StrV(SCHEMA_VERSION[m])) = IntV(1)
  BY VersionFields
<1>2. ~ IsError(IntV(1)) /\ ~ IsError(declared_schema_version(data))
  BY DEF IsError, IntV
<1> QED BY <1>1, <1>2 DEF parse_artifact, Speaks, SpokenMajor

\* Every version that knows its type reads an artifact as what it can express of it.
LEMMA GoodIsRead ==
  ASSUME NEW a \in Minors, NEW b \in Minors, NEW n \in Known(b), NEW w, Good(n, w, a)
  PROVE  /\ parse_artifact(n, ToJsonable(w), b) = Project(w, b)
         /\ Good(n, Project(w, b), b) /\ ~ IsError(Project(w, b))
<1>1. /\ n \in ARTIFACT_TYPES /\ n \in Known(a) /\ Nesting!Finite(w) /\ WellTyped(Data(n), w, a)
      /\ SpokenMajor(Stamp(n, w))
  BY DEF Good
<1>2. /\ declared_schema_version(ToJsonable(w)) = Stamp(n, w) /\ Stamp(n, w).k = "str"
      /\ Stamp(n, Project(w, b)) = Stamp(n, w)
  BY <1>1, StampCarried
<1>3. Data(n) \in Hints(a) /\ Data(n) \in Hints(b)
  BY <1>1, DataHint
<1>4. parse_artifact(n, ToJsonable(w), b) = FromJsonable(Data(n), ToJsonable(w), b)
  BY <1>1, <1>2, ParseSpoken
<1>5. FromJsonable(Data(n), ToJsonable(w), b) = Project(w, b)
  BY <1>1, <1>3, DecodedIsProjection
<1>6. Nesting!Finite(Project(w, b)) /\ WellTyped(Data(n), Project(w, b), b)
  BY <1>1, <1>3, ProjectFinite, ProjectionTyped
<1>7. Project(w, b).k = "data"
  BY <1>6, TypedObject
<1> QED BY <1>1, <1>2, <1>4, <1>5, <1>6, <1>7 DEF Good, IsError

\* Passing an artifact on: what is written, and by which version it can be read.
LEMMA GoodIsPassedOn ==
  ASSUME NEW a \in Minors, NEW b \in Minors, NEW n \in Known(b), NEW w, Good(n, w, a), a <= b
  PROVE  ToJsonable(Project(w, b)) = ToJsonable(w)
<1>1. n \in Known(a) /\ Nesting!Finite(w) /\ WellTyped(Data(n), w, a)
  BY DEF Good
<1>2. Data(n) \in Hints(a)
  BY <1>1, DataHint
<1> QED BY <1>1, <1>2, LaterWritesSame

\* A payload that a consumer accepts states its own version, of this major, and becomes an artifact.
LEMMA AcceptedIsGood ==
  ASSUME NEW m \in Minors, NEW n \in Known(m), n \in ARTIFACT_TYPES, NEW data, Nesting!Finite(data),
         IsJson(data), ~ Shadowed(n, data), ~ IsError(parse_artifact(n, data, m))
  PROVE  Good(n, parse_artifact(n, data, m), m) /\ SpokenMajor(Stated(n, data))
<1> DEFINE version == declared_schema_version(data)
           w == FromJsonable(Data(n), data, m)
<1>1. parse_artifact(n, data, m) = w /\ ~ IsError(w) /\ SpokenMajor(version)
  <2>1. schema_major(StrV(SCHEMA_VERSION[m])) = IntV(1)
    BY VersionFields
  <2>2. IsError(IncompatibleSchemaVersion)
    BY DEF IsError, IncompatibleSchemaVersion, ErrorV
  <2> HIDE DEF version, w
  <2> QED BY <2>1, <2>2 DEF parse_artifact, Speaks, SpokenMajor, version, w
<1>2. Data(n) \in Hints(m) /\ Data(n).k = "data" /\ Data(n).name = n /\ Bare(Data(n)) = Data(n)
  BY DataHint
<1>3. Nesting!Finite(w) /\ WellTyped(Data(n), w, m)
  BY <1>1, <1>2, FromJsonableFinite, DecodedTyped
<1>4. data.k = "dict"
  BY <1>1, <1>2, DecodeOther DEF IsError, ContractError, ErrorV
<1>5. /\ \A f \in DOMAIN Class(n, m) : ~ IsError(FieldRead(n, data, f, m))
      /\ \A f \in DOMAIN Class(n, m) : w.fields[f] = FieldRead(n, data, f, m)
  BY <1>1, <1>2, <1>4, DecodedParts
<1>6. \A f \in DOMAIN Class(n, m) : IsRequired(Class(n, m)[f]) => f \in DOMAIN data.d
  BY <1>5, AbsentTyped DEF FieldRead
<1>7. Str.k = "str" /\ Bare(Str) = Str
  BY DEF Str, Bare
<1>8. \A k \in DOMAIN data.d : Nesting!Finite(data.d[k])
  BY <1>4, NestedFinite DEF Places, Contents, ContentAt
<1> HIDE DEF w
<1>9. CASE ~ HasEnvelope(n)
  <2> DEFINE f == "schema_version"
  <2>1. f \in DOMAIN Class(n, m) /\ Class(n, m)[f].type = Str /\ IsRequired(Class(n, m)[f])
    BY <1>9, VersionFields
  <2>2. f \in DOMAIN data.d
    BY <1>6, <2>1
  <2>3. ~ HasKey(data, "meta")
    BY <1>9 DEF Shadowed
  <2>4. version = data.d[f] /\ Stated(n, data) = data.d[f]
    BY <1>4, <1>9, <2>2, <2>3 DEF declared_schema_version, HasKey, Stated
  <2>5. w.fields[f] = FromJsonable(Str, data.d[f], m) /\ ~ IsError(w.fields[f])
    BY <1>5, <2>1, <2>2 DEF FieldRead
  <2>6. w.fields[f] = data.d[f]
    BY <1>7, <1>8, <2>2, <2>5, DecodeOther DEF IsError, ContractError, ErrorV
  <2>7. Stamp(n, w) = w.fields[f]
    BY <1>9 DEF Stamp
  <2> QED BY <1>1, <1>3, <2>4, <2>6, <2>7 DEF Good
<1>10. CASE HasEnvelope(n)
  <2> DEFINE f == "schema_version"
             d == data.d["meta"]
             e == w.fields["meta"]
             M == "ArtifactMeta"
  <2>1. /\ "meta" \in DOMAIN Class(n, m) /\ IsRequired(Class(n, m)["meta"])
        /\ Class(n, m)["meta"].type = Data(M) /\ M \in Known(m)
        /\ f \in DOMAIN Class(M, m) /\ Class(M, m)[f].type = Str /\ IsRequired(Class(M, m)[f])
    BY <1>10, VersionFields
  <2>2. "meta" \in DOMAIN data.d
    BY <1>6, <2>1
  <2>3. e = FromJsonable(Data(M), d, m) /\ ~ IsError(e)
    BY <1>5, <2>1, <2>2 DEF FieldRead
  <2>4. Data(M) \in Hints(m) /\ Data(M).k = "data" /\ Data(M).name = M /\ Bare(Data(M)) = Data(M)
    BY <2>1, DataHint
  <2>5. Nesting!Finite(d)
    BY <1>8, <2>2
  <2> HIDE DEF d, e
  <2>6. d.k = "dict"
    BY <2>3, <2>4, <2>5, DecodeOther DEF IsError, ContractError, ErrorV
  <2>7. ~ IsError(FieldRead(M, d, f, m)) /\ e.fields[f] = FieldRead(M, d, f, m)
    BY <2>1, <2>3, <2>4, <2>5, <2>6, DecodedParts
  <2>8. f \in DOMAIN d.d
    BY <2>1, <2>7, AbsentTyped DEF FieldRead
  <2>9. e.fields[f] = FromJsonable(Str, d.d[f], m) /\ ~ IsError(e.fields[f])
    BY <2>1, <2>7, <2>8 DEF FieldRead
  <2>10. Nesting!Finite(d.d[f])
    BY <2>5, <2>6, <2>8, NestedFinite DEF Places, Contents, ContentAt
  <2>11. e.fields[f] = d.d[f]
    BY <1>7, <2>9, <2>10, DecodeOther DEF IsError, ContractError, ErrorV
  <2>12. version = d.d[f] /\ Stated(n, data) = d.d[f]
    BY <1>4, <1>10, <2>2, <2>6, <2>8 DEF declared_schema_version, HasKey, Stated, d
  <2>13. Stamp(n, w) = e.fields[f]
    BY <1>10 DEF Stamp, e
  <2> QED BY <1>1, <1>3, <2>11, <2>12, <2>13 DEF Good
<1> QED BY <1>9, <1>10

\* Fields that the type does not declare make no difference.
LEMMA UndeclaredIgnored ==
  ASSUME NEW m \in Minors, NEW n \in Known(m), n \in ARTIFACT_TYPES, NEW data, Nesting!Finite(data),
         data.k = "dict", ~ Shadowed(n, data)
  PROVE  LET declared == DictV([key \in DOMAIN data.d \cap DOMAIN Class(n, m) |-> data.d[key]])
         IN  parse_artifact(n, data, m) = parse_artifact(n, declared, m)
<1> DEFINE kept == [key \in DOMAIN data.d \cap DOMAIN Class(n, m) |-> data.d[key]]
           declared == DictV(kept)
<1>1. /\ DOMAIN kept = DOMAIN data.d \cap DOMAIN Class(n, m)
      /\ \A key \in DOMAIN kept : kept[key] = data.d[key]
  OBVIOUS
<1> HIDE DEF kept
<1>2. declared.k = "dict" /\ declared.d = kept
  BY CompositeForm
<1>3. Nesting!Finite(declared)
  <2>1. PICK i \in Nat : Nesting!Within(data, i)
    BY DEF Nesting!Finite
  <2>2. i # 0 /\ i - 1 \in Nat /\ (i - 1) + 1 = i
    BY <2>1, Nesting!NotWithinZero
  <2>3. \A key \in Places(data) : Nesting!Within(ContentAt(data, key), i - 1)
    BY <2>1, <2>2, Nesting!WithinStep
  <2>4. \A key \in DOMAIN kept : Nesting!Within(kept[key], i - 1)
    BY <1>1, <2>3 DEF Places, ContentAt, Contents
  <2>5. Nesting!Within(declared, i)
    BY <2>2, <2>4, CompositeWithin
  <2> QED BY <2>5 DEF Nesting!Finite
<1> DEFINE class == Class(n, m)
           Read(payload) == [f \in DOMAIN class |->
                              IF f \in DOMAIN payload.d THEN FromJsonable(class[f].type, payload.d[f], m)
                              ELSE AbsentField(class[f], m)]
<1>4. Read(data) = Read(declared)
  BY <1>1, <1>2
<1>5. Bare(Data(n)) = Data(n) /\ Data(n).k = "data" /\ Data(n).name = n
  BY DEF Bare, Data
<1>6. FromJsonable(Data(n), data, m) = FromJsonable(Data(n), declared, m)
  <2>1. FromJsonable(Data(n), data, m) =
          IF Raises(Read(data)) THEN Raised(Read(data)) ELSE DataV(n, Read(data))
    BY <1>5, DecodeFields
  <2>2. FromJsonable(Data(n), declared, m) =
          IF Raises(Read(declared)) THEN Raised(Read(declared)) ELSE DataV(n, Read(declared))
    <3> HIDE DEF declared
    <3> QED BY <1>2, <1>3, <1>5, DecodeFields
  <2> HIDE DEF Read, declared
  <2> QED BY <1>4, <2>1, <2>2
<1>7. declared_schema_version(data) = declared_schema_version(declared)
  <2> HIDE DEF declared
  <2>1. CASE HasEnvelope(n)
    <3>1. "meta" \in DOMAIN Class(n, m)
      BY <2>1, VersionFields
    <3>2. ~ HasKey(data, "schema_version")
      BY <2>1 DEF Shadowed
    <3>3. ~ HasKey(declared, "schema_version") /\ (HasKey(data, "meta") <=> HasKey(declared, "meta"))
          /\ (HasKey(data, "meta") => declared.d["meta"] = data.d["meta"])
      BY <1>1, <1>2, <3>1, <3>2 DEF HasKey
    <3> QED BY <3>2, <3>3 DEF declared_schema_version
  <2>2. CASE ~ HasEnvelope(n)
    <3>1. "schema_version" \in DOMAIN Class(n, m)
      BY <2>2, VersionFields
    <3>2. ~ HasKey(data, "meta")
      BY <2>2 DEF Shadowed
    <3>3. ~ HasKey(declared, "meta") /\ (HasKey(data, "schema_version") <=> HasKey(declared, "schema_version"))
          /\ (HasKey(data, "schema_version") => declared.d["schema_version"] = data.d["schema_version"])
      BY <1>1, <1>2, <3>1, <3>2 DEF HasKey
    <3> QED BY <3>2, <3>3 DEF declared_schema_version
  <2> QED BY <2>1, <2>2
<1> HIDE DEF declared
<1> QED BY <1>6, <1>7 DEF parse_artifact, declared, kept

-----------------------------------------------------------------------------
(***************************************************************************)
(* What is raised.                                                         *)
(***************************************************************************)
\* to_jsonable raises a ContractError if anything.
LEMMA EncodeRaises ==
  ASSUME NEW v0, Nesting!Finite(v0), IsError(ToJsonable(v0))
  PROVE  ToJsonable(v0) = ContractError
<1> DEFINE P(v) == IsError(ToJsonable(v)) => ToJsonable(v) = ContractError
           S == {n \in Nat : \A v : Nesting!Within(v, n) => P(v)}
<1>1. 0 \in S
  BY Nesting!NotWithinZero
<1>2. ASSUME NEW n \in S PROVE n + 1 \in S
  <2> SUFFICES ASSUME NEW v, Nesting!Within(v, n + 1), IsError(ToJsonable(v))
               PROVE  ToJsonable(v) = ContractError
    OBVIOUS
  <2> DEFINE parts == [k \in WrittenKeys(v) |-> ToJsonable(Contents(v)[k])]
             result == ToJsonable(v)
  <2>1. result = Encode(v, parts)
    BY ToJsonableUnfold DEF Nesting!Finite
  <2>2. \A k \in DOMAIN parts : IsError(parts[k]) => parts[k] = ContractError
    <3>1. WrittenKeys(v) \subseteq Places(v)
      BY DEF WrittenKeys, Places, SetFields, Contents
    <3>2. \A k \in Places(v) : Nesting!Within(Contents(v)[k], n)
      BY Nesting!WithinStep DEF ContentAt
    <3> QED BY <3>1, <3>2
  <2> HIDE DEF parts, S
  <2>3. CASE result \in {DictV(parts), ListV(parts)}
    <3>1. result.k # "error"
      BY <2>3, CompositeForm
    <3> QED BY <3>1 DEF IsError
  <2>4. CASE Raises(parts) /\ result = Raised(parts)
    BY <2>2, <2>4, RaisedIsPart
  <2>5. CASE result.k \in {"none", "str", "int", "float", "bool"}
    BY <2>5 DEF IsError
  <2>6. \/ result \in {DictV(parts), ListV(parts)}
        \/ Raises(parts) /\ result = Raised(parts)
        \/ result.k \in {"none", "str", "int", "float", "bool"}
        \/ result = ContractError
    BY <2>1 DEF Encode, StrV
  <2> QED BY <2>3, <2>4, <2>5, <2>6
<1>3. \A n \in Nat : n \in S
  <2>1. S \subseteq Nat
    OBVIOUS
  <2> HIDE DEF S
  <2> QED BY <1>1, <1>2, <2>1, Nesting!NatInduct
<1> QED BY <1>3 DEF Nesting!Finite

\* Of JSON, from_jsonable raises a ContractError or, for an int too large for a float, an
\* OverflowError.
LEMMA DecodeRaises ==
  ASSUME NEW m \in Minors, NEW t0 \in Hints(m), NEW v0, Nesting!Finite(v0), IsJson(v0),
         IsError(FromJsonable(t0, v0, m))
  PROVE  FromJsonable(t0, v0, m) \in {ContractError, OverflowError}
<1> DEFINE P(v, t) == IsError(FromJsonable(t, v, m)) =>
                        FromJsonable(t, v, m) \in {ContractError, OverflowError}
           S == {n \in Nat : \A v : Nesting!Within(v, n) => (IsJson(v) => \A t \in Hints(m) : P(v, t))}
<1>1. 0 \in S
  BY Nesting!NotWithinZero
<1>2. ASSUME NEW n \in S PROVE n + 1 \in S
  <2> SUFFICES ASSUME NEW v, Nesting!Within(v, n + 1), IsJson(v), NEW t \in Hints(m),
                      IsError(FromJsonable(t, v, m))
               PROVE  FromJsonable(t, v, m) \in {ContractError, OverflowError}
    OBVIOUS
  <2>0. /\ n \in Nat /\ n + 1 \in Nat
        /\ \A w : Nesting!Within(w, n) => (IsJson(w) => \A u \in Hints(m) : P(w, u))
    OBVIOUS
  <2> HIDE DEF S
  <2> DEFINE s == Bare(t)
             w == FromJsonable(t, v, m)
  <2>1. Nesting!Finite(v)
    BY <2>0 DEF Nesting!Finite
  <2>2. \A k \in Places(v) : \A u \in Hints(m) : P(Contents(v)[k], u)
    BY <2>0, <2>1, IsJsonUnfold, Nesting!WithinStep DEF ContentAt
  <2>3. ~ (t.k = "opt" /\ v = None)
    BY <2>1, DecodeOther DEF IsError, None
  <2>4. CASE s.k = "any"
    <3>1. v.k \in JsonKinds
      BY <2>1, IsJsonUnfold
    <3> QED BY <2>1, <2>3, <2>4, <3>1, DecodeOther DEF IsError, JsonKinds
  <2>5. CASE s.k \in {"list", "dict"} /\ v.k = s.k
    <3> DEFINE parts == [k \in Places(v) |-> FromJsonable(s.of, Contents(v)[k], m)]
    <3>1. w = IF Raises(parts) THEN Raised(parts) ELSE IF v.k = "list" THEN ListV(parts) ELSE DictV(parts)
      BY <2>1, <2>5, DecodeElements
    <3>2. s.of \in Hints(m)
      BY <2>5, HintFacts
    <3>3. \A k \in DOMAIN parts : IsError(parts[k]) => parts[k] \in {ContractError, OverflowError}
      BY <2>2, <3>2
    <3> HIDE DEF parts
    <3>4. CASE Raises(parts)
      BY <3>1, <3>3, <3>4, RaisedIsPart
    <3>5. CASE ~ Raises(parts)
      <4>1. w.k # "error"
        BY <3>1, <3>5, CompositeForm
      <4> QED BY <4>1 DEF IsError
    <3> QED BY <3>4, <3>5
  <2>6. CASE s.k = "data" /\ v.k = "dict"
    <3> DEFINE class == Class(s.name, m)
               kwargs == [f \in DOMAIN class |->
                            IF f \in DOMAIN v.d THEN FromJsonable(class[f].type, v.d[f], m)
                            ELSE AbsentField(class[f], m)]
    <3>1. w = IF Raises(kwargs) THEN Raised(kwargs) ELSE DataV(s.name, kwargs)
      BY <2>1, <2>6, DecodeFields
    <3>2. s.name \in Known(m)
      BY <2>6, HintFacts
    <3>3. ASSUME NEW f \in DOMAIN class, IsError(kwargs[f])
          PROVE  kwargs[f] \in {ContractError, OverflowError}
      <4>1. CASE f \in DOMAIN v.d
        <5>1. class[f].type \in Hints(m)
          BY <3>2, FieldHint
        <5>2. f \in Places(v) /\ Contents(v) = v.d
          BY <2>6, <4>1 DEF Places, Contents
        <5> QED BY <2>2, <3>3, <4>1, <5>1, <5>2
      <4>2. CASE f \notin DOMAIN v.d
        <5>1. kwargs[f] = AbsentField(class[f], m)
          BY <4>2
        <5>2. IsRequired(class[f])
          BY <3>2, <3>3, <5>1, AbsentTyped
        <5> QED BY <5>1, <5>2 DEF AbsentField, IsRequired
      <4> QED BY <4>1, <4>2
    <3>4. \A f \in DOMAIN kwargs : IsError(kwargs[f]) => kwargs[f] \in {ContractError, OverflowError}
      BY <3>3
    <3> HIDE DEF kwargs
    <3>5. CASE Raises(kwargs)
      BY <3>1, <3>4, <3>5, RaisedIsPart
    <3>6. CASE ~ Raises(kwargs)
      <4>1. w.k # "error"
        BY <3>1, <3>6, CompositeForm
      <4> QED BY <4>1 DEF IsError
    <3> QED BY <3>5, <3>6
  <2>7. CASE s.k \in {"list", "dict"} /\ v.k # s.k
    BY <2>1, <2>3, <2>7, DecodeOther
  <2>8. CASE s.k = "data" /\ v.k # "dict"
    BY <2>1, <2>3, <2>8, DecodeOther
  <2>9. CASE s.k = "enum"
    BY <2>1, <2>3, <2>9, DecodeOther DEF DecodeEnum, EnumV, IsError
  <2>10. CASE s.k = "float"
    BY <2>1, <2>3, <2>10, DecodeOther DEF DecodeFloat, FloatV, IsError
  <2>11. CASE s.k = "int"
    BY <2>1, <2>3, <2>11, DecodeOther DEF DecodeInt, IsInt, IsError
  <2>12. CASE s.k \in {"bool", "str"}
    BY <2>1, <2>3, <2>12, DecodeOther DEF IsBool, IsError
  <2>13. s.k \in {"any", "list", "dict", "enum", "data", "float", "int", "bool", "str"}
    BY HintFacts
  <2> QED BY <2>4, <2>5, <2>6, <2>7, <2>8, <2>9, <2>10, <2>11, <2>12, <2>13
<1>3. \A n \in Nat : n \in S
  <2>1. S \subseteq Nat
    OBVIOUS
  <2> HIDE DEF S
  <2> QED BY <1>1, <1>2, <2>1, Nesting!NatInduct
<1> QED BY <1>3 DEF Nesting!Finite

\* parse_artifact of JSON raises one of the errors that the library documents, or an OverflowError.
LEMMA ParseRaises ==
  ASSUME NEW m \in Minors, NEW n \in Known(m), NEW data, Nesting!Finite(data), IsJson(data),
         IsError(parse_artifact(n, data, m))
  PROVE  parse_artifact(n, data, m).raised \in Refusals
<1> DEFINE version == declared_schema_version(data)
           w == FromJsonable(Data(n), data, m)
<1>1. /\ ContractError.raised = "ContractError" /\ OverflowError.raised = "OverflowError"
      /\ IncompatibleSchemaVersion.raised = "IncompatibleSchemaVersion"
  BY DEF ContractError, OverflowError, IncompatibleSchemaVersion, ErrorV
<1>2. \A v : Nesting!Finite(v) /\ IsJson(v) => ~ IsError(v)
  BY IsJsonUnfold DEF IsError, JsonKinds
<1>3. \A v, key : Nesting!Finite(v) /\ IsJson(v) /\ HasKey(v, key) =>
        Nesting!Finite(v.d[key]) /\ IsJson(v.d[key])
  <2>1. SUFFICES ASSUME NEW v, NEW key, Nesting!Finite(v), IsJson(v), HasKey(v, key)
                 PROVE  Nesting!Finite(v.d[key]) /\ IsJson(v.d[key])
    OBVIOUS
  <2>2. key \in Places(v) /\ Contents(v) = v.d
    BY <2>1 DEF HasKey, Places, Contents
  <2> QED BY <2>1, <2>2, IsJsonUnfold, NestedFinite DEF ContentAt
<1>4. IsError(version) => version = ContractError
  BY <1>2, <1>3 DEF declared_schema_version
<1>5. IsError(schema_major(version)) => schema_major(version) = ContractError
  <2>1. schema_major(version) = ContractError \/ \E i : schema_major(version) = IntV(i)
    BY DEF schema_major
  <2>2. \A i : ~ IsError(IntV(i))
    BY DEF IsError, IntV
  <2> QED BY <2>1, <2>2
<1>6. IsError(w) => w \in {ContractError, OverflowError}
  BY DataHint, DecodeRaises
<1> HIDE DEF version, w
<1>7. parse_artifact(n, data, m) \in {version, schema_major(version), IncompatibleSchemaVersion, w}
  BY DEF parse_artifact, version, w
<1> QED BY <1>1, <1>4, <1>5, <1>6, <1>7 DEF Refusals

-----------------------------------------------------------------------------
(***************************************************************************)
(* The inductive invariant holds of the exchange.                          *)
(***************************************************************************)
\* What a producer serialises is an artifact of its version.
LEMMA ProducedIsGood ==
  ASSUME NEW n \in Kinds, NEW a \in DOMAIN Objects[n], NEW obj \in Objects[n][a],
         ~ IsError(ToJsonable(obj))
  PROVE  /\ a \in Minors /\ n \in Known(a) /\ Good(n, obj, a) /\ Data(n) \in Hints(a)
         /\ ToJsonable(Project(obj, a)) = ToJsonable(obj)
         /\ SpokenMajor(Stated(n, ToJsonable(obj)))
<1>1. a \in Minors /\ n \in ARTIFACT_TYPES
  BY ExchangeAssumption
<1>2. /\ Shallow(obj) /\ n \in Known(a) /\ WellTyped(Data(n), obj, a)
      /\ Stamp(n, obj) = StrV(SCHEMA_VERSION[a])
  BY ProducerRules
<1>3. Nesting!Finite(obj)
  BY <1>2, ShallowWithin
<1>4. SpokenMajor(Stamp(n, obj))
  BY <1>1, <1>2, VersionFields DEF SpokenMajor
<1>5. Good(n, obj, a)
  BY <1>1, <1>2, <1>3, <1>4 DEF Good
<1>6. a <= a
  BY <1>1 DEF Minors
<1>7. ToJsonable(Project(obj, a)) = ToJsonable(obj)
  BY <1>1, <1>2, <1>5, <1>6, GoodIsPassedOn
<1>8. Stated(n, ToJsonable(obj)) = Stamp(n, obj)
  BY <1>1, <1>2, <1>3, StampCarried
<1> QED BY <1>1, <1>2, <1>4, <1>5, <1>7, <1>8, DataHint

\* Reading an artifact with the version that wrote it gives an artifact with the same wire form.
LEMMA ReadBack ==
  ASSUME NEW m \in Minors, NEW n, NEW w, Good(n, w, m)
  PROVE  LET v == parse_artifact(n, ToJsonable(w), m)
         IN  Good(n, v, m) /\ ToJsonable(v) = ToJsonable(w)
<1>1. n \in Known(m) /\ m <= m
  BY DEF Good, Minors
<1> QED BY <1>1, GoodIsRead, GoodIsPassedOn

\* What an artifact is on the wire.
LEMMA GoodWire ==
  ASSUME NEW m \in Minors, NEW n, NEW w, Good(n, w, m)
  PROVE  LET data == ToJsonable(w)
         IN  Nesting!Finite(data) /\ IsJson(data) /\ ~ Shadowed(n, data) /\ n \in ARTIFACT_TYPES
<1>1. n \in Known(m) /\ n \in ARTIFACT_TYPES /\ Nesting!Finite(w) /\ WellTyped(Data(n), w, m)
  BY DEF Good
<1>2. ~ Shadowed(n, ToJsonable(w))
  BY <1>1, StampCarried
<1>3. Data(n) \in Hints(m)
  BY <1>1, DataHint
<1>4. ~ IsError(ToJsonable(w))
  BY <1>1, <1>3, WellTypedEncodes
<1> QED BY <1>1, <1>2, <1>4, ToJsonableFinite, EncodedIsJson

\* A library's artifact, or one that was passed on, is the wire form of an artifact of version low.
LEMMA Carried ==
  ASSUME WireInv, author \in Minors \/ hops > 0
  PROVE  \E w : /\ Good(kind, w, low) /\ wire = ToJsonable(w)
                /\ author \in Minors => w = Project(object, low)
                /\ SpokenMajor(OwnVersion(origin))
<1>1. low \in Minors
  BY DEF WireInv, Bookkeeping
<1>2. CASE author \in Minors
  <2>1. /\ kind \in Kinds /\ author \in DOMAIN Objects[kind] /\ object \in Objects[kind][author]
        /\ origin = ToJsonable(object) /\ ~ IsError(origin)
        /\ kind \in Known(low) /\ wire = ToJsonable(Project(object, low))
    BY <1>2 DEF WireInv, LibrarySent
  <2>2. Good(kind, object, author) /\ SpokenMajor(Stated(kind, origin))
    BY <2>1, ProducedIsGood
  <2>3. Good(kind, Project(object, low), low)
    BY <1>1, <1>2, <2>1, <2>2, GoodIsRead
  <2>4. OwnVersion(origin) = Stated(kind, origin)
    BY DEF OwnVersion, Stated, HasEnvelope
  <2> QED BY <2>1, <2>2, <2>3, <2>4
<1>3. CASE author \notin Minors
  BY <1>3 DEF WireInv, PassedOn
<1> QED BY <1>2, <1>3

\* What is on the wire is JSON that states no version besides its own.
LEMMA OnTheWire ==
  ASSUME WireInv, status = "sent"
  PROVE  Nesting!Finite(wire) /\ IsJson(wire) /\ ~ Shadowed(kind, wire) /\ kind \in ARTIFACT_TYPES
<1>1. low \in Minors /\ hops \in Nat
  BY DEF WireInv, Bookkeeping
<1>2. CASE author \in Minors \/ hops > 0
  <2>1. PICK w : Good(kind, w, low) /\ wire = ToJsonable(w)
    BY <1>2, Carried
  <2> QED BY <1>1, <2>1, GoodWire
<1>3. CASE author \notin Minors /\ hops = 0
  <2>1. kind \in DOMAIN Foreign /\ wire \in Foreign[kind]
    BY <1>3 DEF WireInv, ForeignSent
  <2>2. IsJson(wire) /\ Shallow(wire) /\ ~ Shadowed(kind, wire)
    BY <2>1, WriterRules
  <2> QED BY <2>1, <2>2, ShallowWithin, ExchangeAssumption
<1> QED BY <1>1, <1>2, <1>3

\* Nothing is on the wire at first.
LEMMA WireInvInit == Init => WireInv
<1> SUFFICES ASSUME Init PROVE WireInv
  OBVIOUS
<1>1. NoLibrary \notin Minors /\ NextMinor \in Minors
  BY DEF NoLibrary, Minors, NextMinor
<1>2. Bookkeeping
  BY <1>1 DEF Init, Bookkeeping
<1>3. LibrarySent /\ ForeignSent /\ PassedOn
  BY <1>1 DEF Init, LibrarySent, ForeignSent, PassedOn
<1> QED BY <1>2, <1>3 DEF WireInv

\* Sending.
LEMMA SendKeeps ==
  ASSUME WireInv, Produce \/ ProduceFails \/ WriteForeign
  PROVE  WireInv'
<1>1. NoLibrary \notin Minors /\ NextMinor \in Minors /\ LowerOf(NoLibrary, NextMinor) = NextMinor
      /\ \A m \in Minors : LowerOf(m, NextMinor) = m /\ m <= m
  BY DEF NoLibrary, Minors, NextMinor, LowerOf
<1>2. status = "idle" /\ hops = 0 /\ author = NoLibrary
  BY DEF WireInv, Bookkeeping, Produce, ProduceFails, WriteForeign
<1>3. CASE Produce
  <2>1. PICK n \in Kinds : \E m \in DOMAIN Objects[n] : \E obj \in Objects[n][m] :
          ~ IsError(ToJsonable(obj)) /\ Send(n, m, obj, ToJsonable(obj))
    BY <1>3 DEF Produce
  <2>2. PICK m \in DOMAIN Objects[n] : \E obj \in Objects[n][m] :
          ~ IsError(ToJsonable(obj)) /\ Send(n, m, obj, ToJsonable(obj))
    BY <2>1
  <2>3. PICK obj \in Objects[n][m] : ~ IsError(ToJsonable(obj)) /\ Send(n, m, obj, ToJsonable(obj))
    BY <2>2
  <2>4. m \in Minors /\ n \in Known(m) /\ ToJsonable(Project(obj, m)) = ToJsonable(obj)
    BY <2>3, ProducedIsGood
  <2>5. /\ kind' = n /\ author' = m /\ object' = obj /\ origin' = ToJsonable(obj)
        /\ wire' = ToJsonable(obj) /\ low' = m /\ status' = "sent" /\ hops' = 0
    BY <1>1, <1>2, <2>3, <2>4 DEF Send
  <2>6. Bookkeeping'
    BY <2>4, <2>5 DEF Bookkeeping
  <2>7. LibrarySent'
    BY <1>1, <2>3, <2>4, <2>5 DEF LibrarySent
  <2>8. ForeignSent' /\ PassedOn'
    BY <2>4, <2>5 DEF ForeignSent, PassedOn
  <2> QED BY <2>6, <2>7, <2>8 DEF WireInv
<1>4. CASE ProduceFails
  <2>1. PICK obj : Nesting!Finite(obj) /\ IsError(ToJsonable(obj)) /\ status' = ToJsonable(obj).raised
    <3>1. PICK n \in Kinds : \E m \in DOMAIN Objects[n] : \E obj \in Objects[n][m] :
            IsError(ToJsonable(obj)) /\ status' = ToJsonable(obj).raised
      BY <1>4 DEF ProduceFails
    <3>2. PICK m \in DOMAIN Objects[n] : \E obj \in Objects[n][m] :
            IsError(ToJsonable(obj)) /\ status' = ToJsonable(obj).raised
      BY <3>1
    <3>3. PICK obj \in Objects[n][m] : IsError(ToJsonable(obj)) /\ status' = ToJsonable(obj).raised
      BY <3>2
    <3>4. Shallow(obj)
      BY ProducerRules
    <3> QED BY <3>3, <3>4, ShallowWithin
  <2>2. status' = "ContractError"
    BY <2>1, EncodeRaises DEF ContractError, ErrorV
  <2>3. UNCHANGED <<kind, author, object, origin, wire, low, hops>>
    BY <1>4 DEF ProduceFails
  <2>4. Bookkeeping'
    BY <2>2, <2>3 DEF Bookkeeping, WireInv, Refusals
  <2>5. LibrarySent' /\ ForeignSent' /\ PassedOn'
    BY <1>1, <1>2, <2>2, <2>3 DEF LibrarySent, ForeignSent, PassedOn
  <2> QED BY <2>4, <2>5 DEF WireInv
<1>5. CASE WriteForeign
  <2>1. PICK n \in DOMAIN Foreign : \E payload \in Foreign[n] : Send(n, NoLibrary, None, payload)
    BY <1>5 DEF WriteForeign
  <2>2. PICK payload \in Foreign[n] : Send(n, NoLibrary, None, payload)
    BY <2>1
  <2>3. /\ kind' = n /\ author' = NoLibrary /\ origin' = payload /\ wire' = payload
        /\ low' = NextMinor /\ status' = "sent" /\ hops' = 0
    BY <1>1, <1>2, <2>2 DEF Send
  <2>4. Bookkeeping' /\ LibrarySent' /\ ForeignSent' /\ PassedOn'
    BY <1>1, <2>1, <2>2, <2>3 DEF Bookkeeping, LibrarySent, ForeignSent, PassedOn
  <2> QED BY <2>4 DEF WireInv
<1> QED BY <1>3, <1>4, <1>5

\* Passing on.
LEMMA ForwardKeeps ==
  ASSUME WireInv, NEW m \in Readers, Forward(m)
  PROVE  WireInv'
<1> DEFINE parsed == parse_artifact(kind, wire, m)
<1>1. /\ status = "sent" /\ kind \in Known(m) /\ ~ IsError(parsed)
      /\ wire' = ToJsonable(parsed) /\ low' = LowerOf(low, m) /\ hops' = hops + 1
      /\ UNCHANGED <<kind, author, object, origin, status>>
  BY DEF Forward
<1>2. /\ m \in Minors /\ low \in Minors /\ hops \in Nat /\ hops' > 0 /\ hops' \in Nat
      /\ low' \in Minors /\ low' <= low /\ (low' = m \/ (low' = low /\ low <= m))
  BY <1>1, ExchangeAssumption DEF WireInv, Bookkeeping, LowerOf, Minors
<1>3. Bookkeeping'
  BY <1>1, <1>2 DEF WireInv, Bookkeeping
<1>4. ForeignSent'
  BY <1>2 DEF ForeignSent
<1>5. /\ LibrarySent'
      /\ \E w : Good(kind, w, low') /\ wire' = ToJsonable(w)
      /\ SpokenMajor(OwnVersion(origin))
  <2>1. CASE author \in Minors \/ hops > 0
    <3>1. PICK w : /\ Good(kind, w, low) /\ wire = ToJsonable(w)
                   /\ author \in Minors => w = Project(object, low)
                   /\ SpokenMajor(OwnVersion(origin))
      BY <2>1, Carried
    <3>2. parsed = Project(w, m) /\ Good(kind, Project(w, m), m)
      BY <1>1, <1>2, <3>1, GoodIsRead
    <3>3. CASE low' = low /\ low <= m
      <4>1. wire' = wire
        BY <1>1, <1>2, <3>1, <3>2, <3>3, GoodIsPassedOn
      <4>2. LibrarySent'
        BY <1>1, <3>3, <4>1 DEF WireInv, LibrarySent
      <4> QED BY <3>1, <3>3, <4>1, <4>2
    <3>4. CASE low' = m /\ m <= low
      <4>1. ASSUME author \in Minors PROVE LibrarySent'
        <5>1. /\ kind \in Kinds /\ author \in DOMAIN Objects[kind] /\ object \in Objects[kind][author]
              /\ origin = ToJsonable(object) /\ ~ IsError(origin) /\ low <= author
              /\ kind \in Known(low) /\ w = Project(object, low)
          BY <3>1, <4>1 DEF WireInv, LibrarySent
        <5>2. Good(kind, object, author) /\ Data(kind) \in Hints(author)
          BY <5>1, ProducedIsGood
        <5>3. Data(kind) \in Hints(low) /\ Data(kind) \in Hints(m)
          BY <1>1, <1>2, <5>1, DataHint
        <5>4. Project(w, m) = Project(object, m)
          BY <1>2, <3>4, <4>1, <5>1, <5>2, <5>3, EarlierProjectsSame DEF Good
        <5>5. m <= author
          BY <1>2, <3>4, <4>1, <5>1 DEF Minors
        <5> QED BY <1>1, <3>2, <3>4, <5>1, <5>4, <5>5 DEF LibrarySent
      <4>2. ASSUME author \notin Minors PROVE LibrarySent'
        BY <1>1, <4>2 DEF LibrarySent
      <4> QED BY <1>1, <3>1, <3>2, <3>4, <4>1, <4>2
    <3> QED BY <1>2, <3>3, <3>4
  <2>2. CASE author \notin Minors /\ hops = 0
    <3>1. wire = origin /\ low = NextMinor
      BY <1>1, <2>2 DEF WireInv, ForeignSent
    <3>2. Nesting!Finite(wire) /\ IsJson(wire) /\ ~ Shadowed(kind, wire) /\ kind \in ARTIFACT_TYPES
      BY <1>1, OnTheWire
    <3>3. Good(kind, parsed, m) /\ SpokenMajor(Stated(kind, wire))
      BY <1>1, <1>2, <3>2, AcceptedIsGood
    <3>4. low' = m
      BY <1>2, <3>1 DEF Minors, NextMinor
    <3>5. OwnVersion(origin) = Stated(kind, origin)
      BY DEF OwnVersion, Stated, HasEnvelope
    <3>6. LibrarySent'
      BY <1>1, <2>2 DEF LibrarySent
    <3> QED BY <1>1, <3>1, <3>3, <3>4, <3>5, <3>6
  <2> QED BY <1>2, <2>1, <2>2
<1>6. PassedOn'
  <2>1. PICK w : Good(kind, w, low') /\ wire' = ToJsonable(w)
    BY <1>5
  <2>2. LET v == parse_artifact(kind, wire', low') IN Good(kind, v, low') /\ ToJsonable(v) = wire'
    BY <1>2, <2>1, ReadBack
  <2>3. View(low)' = parse_artifact(kind, wire', low')
    BY <1>1 DEF View
  <2>4. OwnVersion(origin)' = OwnVersion(origin)
    BY <1>1 DEF OwnVersion
  <2>5. SpokenMajor(OwnVersion(origin))'
    BY <1>5, <2>4 DEF SpokenMajor
  <2>6. Good(kind, View(low), low)' /\ (wire = ToJsonable(View(low)))'
    BY <1>1, <2>2, <2>3 DEF Good, SpokenMajor
  <2> QED BY <2>5, <2>6 DEF PassedOn
<1> QED BY <1>3, <1>4, <1>5, <1>6 DEF WireInv

\* Refusing.
LEMMA RefuseKeeps ==
  ASSUME WireInv, NEW m \in Readers, Refuse(m)
  PROVE  WireInv'
<1> DEFINE parsed == parse_artifact(kind, wire, m)
<1>1. /\ status = "sent" /\ kind \in Known(m) /\ IsError(parsed) /\ status' = parsed.raised
      /\ UNCHANGED <<kind, author, object, origin, wire, low, hops>>
  BY DEF Refuse
<1>2. Nesting!Finite(wire) /\ IsJson(wire) /\ m \in Minors
  BY <1>1, OnTheWire, ExchangeAssumption
<1>3. status' \in Refusals
  BY <1>1, <1>2, ParseRaises
<1>4. status' # "sent" /\ status' # "idle"
  BY <1>3 DEF Refusals
<1>5. Bookkeeping'
  BY <1>1, <1>3, <1>4 DEF WireInv, Bookkeeping
<1>6. LibrarySent' /\ ForeignSent'
  BY <1>1, <1>4 DEF WireInv, LibrarySent, ForeignSent
<1>7. PassedOn'
  BY <1>1 DEF WireInv, PassedOn, View, Good, OwnVersion, SpokenMajor
<1> QED BY <1>5, <1>6, <1>7 DEF WireInv

\* The invariant holds of the exchange.
THEOREM WireCorrect == Spec => []WireInv
<1>1. ASSUME WireInv, [Next]_vars PROVE WireInv'
  <2>1. CASE UNCHANGED vars
    <3>1. Bookkeeping'
      BY <1>1, <2>1 DEF vars, WireInv, Bookkeeping
    <3>2. LibrarySent' /\ ForeignSent'
      BY <1>1, <2>1 DEF vars, WireInv, LibrarySent, ForeignSent
    <3>3. PassedOn'
      BY <1>1, <2>1 DEF vars, WireInv, PassedOn, View, Good, OwnVersion, SpokenMajor
    <3> QED BY <3>1, <3>2, <3>3 DEF WireInv
  <2>2. CASE Produce \/ ProduceFails \/ WriteForeign
    BY <1>1, <2>2, SendKeeps
  <2>3. CASE \E m \in Readers : Forward(m) \/ Refuse(m)
    BY <1>1, <2>3, ForwardKeeps, RefuseKeeps
  <2> QED BY <1>1, <2>1, <2>2, <2>3 DEF Next
<1> QED BY <1>1, WireInvInit, PTL DEF Spec

-----------------------------------------------------------------------------
(***************************************************************************)
(* The properties of the exchange.                                         *)
(***************************************************************************)
\* Every consumer that knows the type reads a carried artifact as what it can express of it.
LEMMA CarriedIsRead ==
  ASSUME WireInv, author \in Minors \/ hops > 0
  PROVE  \E w : /\ Good(kind, w, low) /\ wire = ToJsonable(w)
                /\ author \in Minors => w = Project(object, low)
                /\ \A m \in Knowing : /\ m \in Minors /\ kind \in Known(m)
                                      /\ View(m) = Project(w, m) /\ ~ IsError(View(m))
                                      /\ Good(kind, View(m), m)
                                      /\ m >= low => ToJsonable(View(m)) = wire
<1>1. PICK w : /\ Good(kind, w, low) /\ wire = ToJsonable(w)
               /\ author \in Minors => w = Project(object, low)
  BY Carried
<1>2. low \in Minors
  BY DEF WireInv, Bookkeeping
<1>3. ASSUME NEW m \in Knowing
      PROVE  /\ m \in Minors /\ kind \in Known(m)
             /\ View(m) = Project(w, m) /\ ~ IsError(View(m)) /\ Good(kind, View(m), m)
             /\ m >= low => ToJsonable(View(m)) = wire
  <2>1. m \in Minors /\ kind \in Known(m)
    BY ExchangeAssumption DEF Knowing
  <2>2. View(m) = Project(w, m) /\ ~ IsError(View(m)) /\ Good(kind, View(m), m)
    BY <1>1, <1>2, <2>1, GoodIsRead DEF View
  <2>3. m >= low => low <= m
    BY <1>2, <2>1 DEF Minors
  <2> QED BY <1>1, <1>2, <2>1, <2>2, <2>3, GoodIsPassedOn
<1> QED BY <1>1, <1>3

\* Minor drift is accepted: no consumer refuses what a library of this major version produced,
\* however often it was passed on (parse_artifact, from_jsonable).
THEOREM DriftAccepted == Spec => []MinorDriftAccepted
<1>1. WireInv => MinorDriftAccepted
  BY CarriedIsRead DEF MinorDriftAccepted, ByLibrary
<1> QED BY <1>1, WireCorrect, PTL

\* Consumers at least as new as the producer pass on exactly what was produced.
THEOREM UpgradeLossless == Spec => []UpgradeIsLossless
<1>1. ASSUME WireInv, author \in Minors, low >= author PROVE wire = origin
  <2>1. /\ kind \in Kinds /\ author \in DOMAIN Objects[kind] /\ object \in Objects[kind][author]
        /\ origin = ToJsonable(object) /\ ~ IsError(origin)
        /\ low <= author /\ wire = ToJsonable(Project(object, low))
    BY <1>1 DEF WireInv, LibrarySent
  <2>2. low = author
    BY <1>1, <2>1 DEF WireInv, Bookkeeping, Minors
  <2> QED BY <2>1, <2>2, ProducedIsGood
<1>2. WireInv => UpgradeIsLossless
  BY <1>1 DEF UpgradeIsLossless, ByLibrary
<1> QED BY <1>2, WireCorrect, PTL

\* Every consumer decodes the producer's object as the oldest library on the way, and then its
\* own, can express it.
THEOREM SeesProjection == Spec => []ReaderSeesProjection
<1>1. WireInv => ReaderSeesProjection
  BY CarriedIsRead DEF ReaderSeesProjection, ByLibrary
<1> QED BY <1>1, WireCorrect, PTL

\* What a library wrote or passed on validates against the schemas of its version and later ones.
THEOREM WireIsValid == Spec => []WireValidates
<1>1. ASSUME WireInv, ByLibrary \/ hops > 0, NEW m \in Knowing, m >= low
      PROVE  Validates(Data(kind), wire, m, FALSE)
  <2>1. /\ m \in Minors /\ kind \in Known(m) /\ Good(kind, View(m), m)
        /\ ToJsonable(View(m)) = wire
    BY <1>1, CarriedIsRead DEF ByLibrary
  <2>2. Nesting!Finite(View(m)) /\ WellTyped(Data(kind), View(m), m)
    BY <2>1 DEF Good
  <2>3. Data(kind) \in Hints(m) /\ Data(kind).k = "data"
    BY <2>1, DataHint
  <2>4. \A exact : Validates(Data(kind), ToJsonable(View(m)), m, exact)
    BY <2>1, <2>2, <2>3, EncodedValidates
  <2> QED BY <2>1, <2>4
<1>2. WireInv => WireValidates
  BY <1>1 DEF WireValidates
<1> QED BY <1>2, WireCorrect, PTL

\* What parse_artifact returns has the declared type all the way down.
THEOREM AcceptedTyped == Spec => []AcceptedIsWellTyped
<1>1. ASSUME WireInv, status = "sent", NEW m \in Knowing, ~ IsError(View(m))
      PROVE  WellTyped(Data(kind), View(m), m)
  <2>1. m \in Minors /\ kind \in Known(m)
    BY ExchangeAssumption DEF Knowing
  <2>2. Nesting!Finite(wire) /\ IsJson(wire) /\ ~ Shadowed(kind, wire) /\ kind \in ARTIFACT_TYPES
    BY <1>1, OnTheWire
  <2> QED BY <1>1, <2>1, <2>2, AcceptedIsGood DEF View, Good
<1>2. WireInv => AcceptedIsWellTyped
  BY <1>1 DEF AcceptedIsWellTyped
<1> QED BY <1>2, WireCorrect, PTL

\* What one consumer accepted and passed on every consumer accepts.
THEOREM ForwardedReadable == Spec => []ForwardedIsReadable
<1>1. WireInv => ForwardedIsReadable
  BY CarriedIsRead DEF ForwardedIsReadable
<1> QED BY <1>1, WireCorrect, PTL

\* The first consumer's serialisation is a normal form.
THEOREM ForwardedStable == Spec => []ForwardedIsStable
<1>1. WireInv => ForwardedIsStable
  BY CarriedIsRead DEF ForwardedIsStable
<1> QED BY <1>1, WireCorrect, PTL

\* An artifact is passed on only if it declares a version of this major.
THEOREM MajorIsGated == Spec => []MajorGated
<1>1. WireInv => MajorGated
  BY DEF WireInv, PassedOn, MajorGated
<1> QED BY <1>1, WireCorrect, PTL

\* A consumer makes of a payload what it would make of it without the fields it does not declare.
THEOREM UnknownIgnored == Spec => []UnknownFieldsIgnored
<1>1. ASSUME WireInv, status = "sent", wire.k = "dict", NEW m \in Knowing
      PROVE  View(m) = parse_artifact(kind, DeclaredOnly(wire, m), m)
  <2>1. m \in Minors /\ kind \in Known(m)
    BY ExchangeAssumption DEF Knowing
  <2>2. Nesting!Finite(wire) /\ IsJson(wire) /\ ~ Shadowed(kind, wire) /\ kind \in ARTIFACT_TYPES
    BY <1>1, OnTheWire
  <2> QED BY <1>1, <2>1, <2>2, UndeclaredIgnored DEF View, DeclaredOnly
<1>2. WireInv => UnknownFieldsIgnored
  BY <1>1 DEF UnknownFieldsIgnored
<1> QED BY <1>2, WireCorrect, PTL

\* What validates, with exact numbers, against the schema of a library that library decodes.
THEOREM ValidDecoded == Spec => []ValidIsDecoded
<1>1. ASSUME WireInv, status = "sent", NEW m \in Knowing, Validates(Data(kind), wire, m, TRUE)
      PROVE  ~ IsError(FromJsonable(Data(kind), wire, m))
  <2>1. m \in Minors /\ kind \in Known(m)
    BY ExchangeAssumption DEF Knowing
  <2>2. Nesting!Finite(wire) /\ IsJson(wire)
    BY <1>1, OnTheWire
  <2>3. Data(kind) \in Hints(m)
    BY <2>1, DataHint
  <2> QED BY <1>1, <2>1, <2>2, <2>3, ValidDecodes
<1>2. WireInv => ValidIsDecoded
  BY <1>1 DEF ValidIsDecoded
<1> QED BY <1>2, WireCorrect, PTL

\* Every version expresses of a manuscript the same nodes, and of each whether it is locked.
LEMMA LocksKept ==
  ASSUME NEW a \in Minors, NEW b \in Minors, NEW v, Nesting!Finite(v),
         WellTyped(Data("ManuscriptRevision"), v, a)
  PROVE  /\ DOMAIN Nodes(Project(v, b)) = DOMAIN Nodes(v)
         /\ \A i \in DOMAIN Nodes(v) :
              /\ Nodes(Project(v, b))[i].fields["locked"] = Nodes(v)[i].fields["locked"]
              /\ Nodes(v)[i].fields["locked"].k = "bool"
<1> DEFINE R == "ManuscriptRevision"
           N == "ManuscriptNode"
           list == v.fields["nodes"]
<1>1. \A m \in Minors : /\ R \in Known(m) /\ "nodes" \in DOMAIN Class(R, m)
                        /\ Class(R, m)["nodes"].type = ListOf(Data(N))
                        /\ "locked" \in DOMAIN Class(N, m) /\ Class(N, m)["locked"].type = Boolean
  BY CatalogueRules DEF ManuscriptRule
<1>2. /\ v.k = "data" /\ v.name = R /\ DOMAIN v.fields = DOMAIN Class(R, a)
      /\ ListOf(Data(N)) \in Hints(a) /\ WellTyped(ListOf(Data(N)), list, a) /\ Nesting!Finite(list)
  BY <1>1, TypedObject
<1>3. /\ ListOf(Data(N)).k = "list" /\ ListOf(Data(N)).of = Data(N)
      /\ Bare(ListOf(Data(N))) = ListOf(Data(N))
  BY DEF ListOf, Bare
<1>4. Data(N) \in Hints(a) /\ N \in Known(a)
  <2>1. Data(N) \in Hints(a)
    BY <1>2, <1>3, HintFacts
  <2>2. Bare(Data(N)) = Data(N) /\ Data(N).k = "data" /\ Data(N).name = N
    BY DEF Bare, Data
  <2> QED BY <2>1, <2>2, HintFacts
<1>5. list.k = "list" /\ \A i \in Places(list) : WellTyped(Data(N), Contents(list)[i], a)
  <2>1. Fits(ListOf(Data(N)), list, a)
    BY <1>2, <1>3, WellTypedCases
  <2> QED BY <1>3, <2>1 DEF Fits, Scalars
<1> HIDE DEF list
<1>6. Places(list) = DOMAIN list.items /\ Contents(list) = list.items
  BY <1>5 DEF Places, Contents
<1>7. Project(v, b).fields["nodes"] = Project(list, b)
  BY <1>1, <1>2, ProjectedParts DEF list
<1>8. /\ Project(list, b).k = "list" /\ Places(Project(list, b)) = Places(list)
      /\ \A i \in Places(list) : Contents(Project(list, b))[i] = Project(list.items[i], b)
  BY <1>2, <1>5, <1>6, ProjectedParts
<1>9. /\ DOMAIN Project(list, b).items = DOMAIN list.items
      /\ \A i \in DOMAIN list.items : Project(list, b).items[i] = Project(list.items[i], b)
  BY <1>6, <1>8 DEF Places, Contents
<1>10. ASSUME NEW i \in DOMAIN list.items
       PROVE  /\ Project(list.items[i], b).fields["locked"] = list.items[i].fields["locked"]
              /\ list.items[i].fields["locked"].k = "bool"
  <2> DEFINE node == list.items[i]
  <2>1. WellTyped(Data(N), node, a) /\ Nesting!Finite(node)
    BY <1>2, <1>5, <1>6, NestedFinite DEF ContentAt
  <2> HIDE DEF node
  <2>2. /\ node.k = "data" /\ node.name = N /\ DOMAIN node.fields = DOMAIN Class(N, a)
        /\ Boolean \in Hints(a) /\ WellTyped(Boolean, node.fields["locked"], a)
        /\ Nesting!Finite(node.fields["locked"])
    BY <1>1, <1>4, <2>1, TypedObject
  <2>3. /\ node.fields["locked"].k = "bool"
        /\ Project(node.fields["locked"], b) = node.fields["locked"]
    <3>1. Boolean.k = "bool" /\ "bool" \in Scalars
      BY DEF Boolean, Scalars
    <3> QED BY <2>2, <3>1, TypedScalar
  <2>4. Project(node, b).fields["locked"] = Project(node.fields["locked"], b)
    BY <1>1, <2>1, <2>2, ProjectedParts
  <2> QED BY <2>3, <2>4 DEF node
<1>11. Nodes(v) = list.items /\ Nodes(Project(v, b)) = Project(list, b).items
  BY <1>7 DEF Nodes, list
<1> QED BY <1>9, <1>10, <1>11

\* If producers state locked whenever they state lock_kind, every reader sees every lock and takes
\* no free node for a frozen one, whatever versions handled the revision before.
THEOREM LocksSeen ==
  ASSUME LocksStated
  PROVE  Spec => []FrozenNeverFree
<1>1. ASSUME WireInv PROVE FrozenNeverFree
  <2>1. SUFFICES ASSUME author \in Minors, kind = "ManuscriptRevision", NEW m \in Readers,
                        NEW i \in DOMAIN Nodes(object)
                 PROVE  (Nodes(View(m))[i].fields["locked"] = BoolV(TRUE)) <=> Frozen(Nodes(object)[i])
    BY DEF FrozenNeverFree, ByLibrary
  <2>2. /\ kind \in Kinds /\ author \in DOMAIN Objects[kind] /\ object \in Objects[kind][author]
        /\ ~ IsError(ToJsonable(object))
    BY <1>1, <2>1 DEF WireInv, LibrarySent
  <2>3. m \in Minors /\ low \in Minors /\ kind \in Known(m)
    BY <1>1, <2>1, ExchangeAssumption, CatalogueRules DEF WireInv, Bookkeeping, ManuscriptRule
  <2>4. Good(kind, object, author)
    BY <2>2, ProducedIsGood
  <2>5. Good(kind, Project(object, low), low) /\ View(m) = Project(Project(object, low), m)
    <3>1. m \in Knowing
      BY <2>3 DEF Knowing
    <3>2. PICK w : /\ Good(kind, w, low)
                   /\ author \in Minors => w = Project(object, low)
                   /\ \A r \in Knowing : View(r) = Project(w, r)
      BY <1>1, <2>1, CarriedIsRead
    <3>3. w = Project(object, low)
      BY <2>1, <3>2
    <3> QED BY <3>1, <3>2, <3>3
  <2>6. /\ i \in DOMAIN Nodes(Project(object, low))
        /\ Nodes(Project(object, low))[i].fields["locked"] = Nodes(object)[i].fields["locked"]
        /\ Nodes(object)[i].fields["locked"].k = "bool"
    BY <2>1, <2>3, <2>4, LocksKept DEF Good
  <2>7. Nodes(View(m))[i].fields["locked"] = Nodes(Project(object, low))[i].fields["locked"]
    BY <2>1, <2>3, <2>5, <2>6, LocksKept DEF Good
  <2>8. StatesLock(Nodes(object)[i])
    BY <1>1, <2>1, <2>2 DEF LocksStated
  <2>9. BoolV(TRUE) # BoolV(FALSE)
    BY DEF BoolV
  <2>10. (Nodes(object)[i].fields["locked"] = BoolV(TRUE)) <=> Frozen(Nodes(object)[i])
    BY <2>8, <2>9 DEF StatesLock, Frozen
  <2> QED BY <2>6, <2>7, <2>10
<1>2. WireInv => FrozenNeverFree
  BY <1>1
<1> QED BY <1>2, WireCorrect, PTL

=============================================================================
