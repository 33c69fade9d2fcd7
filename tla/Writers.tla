------------------------------- MODULE Writers -------------------------------
(***************************************************************************)
(* What the parties of an exchange put on the wire, sampled for TLC: the   *)
(* objects that producers build with the library, and payloads that other  *)
(* writers write without it.                                               *)
(***************************************************************************)
EXTENDS Serde

CONSTANTS
  Types,          \* the artifact types that producers make
  Versions,       \* minor versions of the producers
  ForeignTypes,   \* the artifact types that writers without the library write
  Depth,          \* bound: how deep below the root an object is varied
  IntForFloat,    \* may a producer put an int in a field declared float?
  EventMeta       \* may a writer add a "meta" object to an event, which has none?

ASSUME WritersAssumption ==
  /\ Types \subseteq ARTIFACT_TYPES /\ ForeignTypes \subseteq ARTIFACT_TYPES
  /\ Versions \subseteq Minors
  /\ Depth \in Nat /\ {IntForFloat, EventMeta} \subseteq BOOLEAN

(***************************************************************************)
(* What producers make: objects of the type their library declares.  Full  *)
(* sets every field and Minimal only the required ones; a Variant differs  *)
(* from one of them in a single place, at most Depth classes deep.         *)
(***************************************************************************)
Bases == {"full", "minimal"}

RECURSIVE Sample(_, _, _), Variants(_, _, _, _)

\* Mutant: the producer sets lock_kind and forgets locked.
LockRuleForgotten(fields) == fields

\* A producer that sets lock_kind also sets locked = (lock_kind is not NONE).
LockRule(fields) ==
  IF "lock_kind" \in DOMAIN fields /\ fields["lock_kind"] # None
  THEN [fields EXCEPT !["locked"] =
          BoolV(fields["lock_kind"] # EnumV("LockKind", "none"))]
  ELSE fields

Build(n, fields) == DataV(n, IF n = "ManuscriptNode" THEN LockRule(fields) ELSE fields)

SampleFields(n, lib, base) ==
  [f \in DOMAIN lib.classes[n] |->
     LET field == lib.classes[n][f]
     IN  IF f = "schema_version" THEN StrV(SCHEMA_VERSION[lib.minor])
         ELSE IF base = "minimal" /\ field.default # << >> THEN DefaultOf(field, lib.minor)
         ELSE Sample(field.type, lib, base)]

Sample(t, lib, base) ==
  CASE t.k = "str"   -> StrV("text")
    [] t.k = "int"   -> IntV(1)
    [] t.k = "float" -> FloatV(1)
    [] t.k = "bool"  -> BoolV(TRUE)
    [] t.k = "any"   -> DictV("key" :> None)
    [] t.k = "opt"   -> Sample(t.of, lib, base)
    [] t.k = "list"  -> ListV(<< Sample(t.of, lib, base) >>)
    [] t.k = "dict"  -> DictV("key" :> Sample(t.of, lib, base))
    [] t.k = "enum"  -> EnumV(t.name, "named")
    [] t.k = "data"  -> Build(t.name, SampleFields(t.name, lib, base))

\* One field of each group that the class declares alike in the same version.
Representatives(n, lib) ==
  LET class == lib.classes[n]
      Alike(f, g) == class[f] = class[g] /\ FieldSince(n, f) = FieldSince(n, g)
  IN  {f \in DOMAIN class \ {"schema_version"} :
         f = CHOOSE g \in DOMAIN class \ {"schema_version"} : Alike(f, g)}

Variants(t, lib, base, depth) ==
  CASE t.k = "str"   -> {StrV("")}
    [] t.k = "int"   -> {IntV(0)}
    [] t.k = "float" -> {FloatV(0)} \cup (IF IntForFloat THEN {IntV(1)} ELSE {})
    [] t.k = "bool"  -> {BoolV(TRUE), BoolV(FALSE)}
    [] t.k = "any"   -> {None, IntV(0), ListV(<< None >>), DictV(EmptyDict), OtherV}
    [] t.k = "opt"   -> {None, Sample(t.of, lib, base)} \cup Variants(t.of, lib, base, depth)
    [] t.k = "list"  ->
         {ListV(<< >>), ListV(<< Sample(t.of, lib, "full"), Sample(t.of, lib, "minimal") >>)}
         \cup {ListV(<< v >>) : v \in Variants(t.of, lib, base, depth)}
    [] t.k = "dict"  ->
         {DictV(EmptyDict)} \cup {DictV("key" :> v) : v \in Variants(t.of, lib, base, depth)}
    [] t.k = "enum"  -> {EnumV(t.name, member) : member \in lib.enums[t.name]}
    [] t.k = "data"  ->
         IF depth = 0 THEN {}
         ELSE LET fields == SampleFields(t.name, lib, base)
              IN  UNION {{Build(t.name, [fields EXCEPT ![f] = v]) :
                             v \in Variants(lib.classes[t.name][f].type, lib, base, depth - 1)} :
                         f \in Representatives(t.name, lib)}

\* The objects of type n that a producer with library lib makes; none if lib has no such type.
Made(n, lib) ==
  IF n \notin DOMAIN lib.classes THEN {}
  ELSE UNION {{Sample(Data(n), lib, base)} \cup Variants(Data(n), lib, base, Depth) :
              base \in Bases}

\* What the producers of each type and version make.
ObjectsOf == [n \in Types |-> [m \in Versions |-> Made(n, Library[m])]]

-----------------------------------------------------------------------------
(***************************************************************************)
(* What other writers put on the wire: the full payload of the current     *)
(* version with one thing wrong with it, or unusual about it.              *)
(***************************************************************************)
Junk ==
  {None, StrV("text"), IntV(1), IntV(MaxFloat + 1), IntV(-MaxFloat - 1), FloatV(1), BoolV(TRUE),
   ListV(<< >>), DictV(EmptyDict)}

VersionValues ==
  {StrV(v) : v \in DOMAIN LeadingInt} \cup {StrV("v1"), IntV(1), FloatV(1)} \cup Junk

Without(d, key) == [other \in DOMAIN d \ {key} |-> d[other]]

RECURSIVE Unusual(_, _, _, _)
Unusual(t, data, lib, depth) ==
  CASE t.k = "opt"  -> Unusual(t.of, data, lib, depth)
    [] t.k = "list" ->
         Junk \cup {ListV(<< v >>) : v \in Unusual(t.of, data.items[1], lib, depth)}
    [] t.k = "dict" ->
         Junk \cup {DictV("key" :> v) : v \in Unusual(t.of, data.d["key"], lib, depth)}
    [] t.k = "data" ->
         Junk \cup
         IF depth = 0 THEN {}
         ELSE LET class == lib.classes[t.name]
                  reps  == Representatives(t.name, lib)
                  At(f) == IF f = "schema_version" THEN VersionValues
                           ELSE Unusual(class[f].type, data.d[f], lib, depth - 1)
              IN  {DictV(Without(data.d, f)) : f \in reps}
                  \cup {DictV(("additive" :> v) @@ data.d) : v \in Junk}
                  \cup UNION {{DictV([data.d EXCEPT ![f] = v]) : v \in At(f)} :
                              f \in reps \cup (DOMAIN class \cap {"schema_version"})}
    [] OTHER -> Junk

\* An event whose writer carries an additive "meta" of its own.
MetaShadow(n, data, lib) ==
  IF ~ EventMeta \/ "meta" \in DOMAIN lib.classes[n] THEN {}
  ELSE {DictV([data.d EXCEPT !["schema_version"] = v]
              @@ ("meta" :> DictV("schema_version" :> StrV("1.2.0")))) :
         v \in {StrV(s) : s \in DOMAIN LeadingInt}}

\* Payloads of type n close to what library lib would write.
Written(n, lib) ==
  LET payload == ToJsonable(Sample(Data(n), lib, "full"))
  IN  Unusual(Data(n), payload, lib, Depth) \cup MetaShadow(n, payload, lib)

\* What foreign writers write of each type.
ForeignOf == [n \in ForeignTypes |-> Written(n, Library[Current])]

=============================================================================
