-------------------------------- MODULE Serde --------------------------------
(***************************************************************************)
(* The codec of litharness_contracts (_serde.py): to_jsonable, which turns *)
(* a contract object into a JSON value, and from_jsonable/parse_artifact,  *)
(* which turn a JSON value into an object of a given contract type.  The   *)
(* decoder takes the minor version m of the library that runs it, since a  *)
(* library decodes with the dataclasses and enums it knows.                *)
(*                                                                         *)
(* Both functions call themselves on what is nested in their argument.     *)
(* They are written as instances of Nested: what is nested, and what is    *)
(* made of a value given the results for what is nested in it.             *)
(*                                                                         *)
(* What is raised is a value (ErrorV), and a composite whose parts raise   *)
(* raises what one of them raised.                                         *)
(***************************************************************************)
EXTENDS Contracts, Integers

ContractError             == ErrorV("ContractError")
IncompatibleSchemaVersion == ErrorV("IncompatibleSchemaVersion")
OverflowError             == ErrorV("OverflowError")

IsError(v) == v.k = "error"

\* Did a part raise, and what?
Raises(parts) == \E i \in DOMAIN parts : IsError(parts[i])
Raised(parts) == parts[CHOOSE i \in DOMAIN parts : IsError(parts[i])]

\* What is nested directly in a value.
Contents(v) ==
  CASE v.k = "data" -> v.fields
    [] v.k = "list" -> v.items
    [] v.k = "dict" -> v.d
    [] OTHER -> << >>

\* Python's isinstance: True and False are ints.
IsInt(v)  == v.k \in {"int", "bool"}
IsBool(v) == v.k = "bool"

(***************************************************************************)
(* to_jsonable.                                                            *)
(***************************************************************************)
\* Mutant: "if not value" instead of "if value is None".
SetFieldsTruthy(fields) ==
  {f \in DOMAIN fields :
     fields[f] \notin {None, BoolV(FALSE), IntV(0), FloatV(0), StrV(""), ListV(<< >>),
                      DictV(EmptyDict)}}

\* Mutant: None fields are written as null.
SetFieldsAll(fields) == DOMAIN fields

\* The fields of an object that reach the wire.
SetFields(fields) == {f \in DOMAIN fields : fields[f] # None}

WrittenKeys(obj) == IF obj.k = "data" THEN SetFields(obj.fields) ELSE DOMAIN Contents(obj)
ContentAt(obj, key) == Contents(obj)[key]

\* What obj is on the wire, given what its contents are.
Encode(obj, parts) ==
  CASE obj.k \in {"data", "dict"} -> IF Raises(parts) THEN Raised(parts) ELSE DictV(parts)
    [] obj.k = "list" -> IF Raises(parts) THEN Raised(parts) ELSE ListV(parts)
    [] obj.k = "enum" -> StrV(obj.member)
    [] obj.k \in {"none", "str", "int", "float", "bool"} -> obj
    [] OTHER -> ContractError

Encoding == INSTANCE Nested WITH Keys <- WrittenKeys, Part <- ContentAt, Make <- Encode

ToJsonable(obj) == Encoding!Fold(obj)

(***************************************************************************)
(* from_jsonable, one operator per branch.                                 *)
(***************************************************************************)
\* An int further from zero than this has no float: float(n) raises OverflowError.  External: a
\* property of Python's float, scaled down.
MaxFloat == 1000

FitsFloat(n) == n \in -MaxFloat..MaxFloat

DecodeFloat(data) ==
  IF IsBool(data) \/ ~ (IsInt(data) \/ data.k = "float") THEN ContractError
  ELSE IF data.k = "float" THEN data
  ELSE IF FitsFloat(data.n) THEN FloatV(data.n)
  ELSE OverflowError

\* Mutant: the bool guard is missing.
DecodeIntUnguarded(data) == IF ~ IsInt(data) THEN ContractError ELSE data

DecodeInt(data) == IF IsBool(data) \/ ~ IsInt(data) THEN ContractError ELSE data

\* Mutant: an unrecognised member raises.
DecodeEnumStrict(n, data, m) ==
  IF data.k = "str" /\ data.s \in Members(n, m) THEN EnumV(n, data.s) ELSE ContractError

\* Mutant: members are looked up by their Python name, which no value on the wire is.
DecodeEnumByName(n, data, m) ==
  IF "unknown" \in Members(n, m) THEN EnumV(n, "unknown") ELSE ContractError

DecodeEnum(n, data, m) ==
  IF data.k = "str" /\ data.s \in Members(n, m) THEN EnumV(n, data.s)
  ELSE IF "unknown" \in Members(n, m) THEN EnumV(n, "unknown")
  ELSE ContractError

\* The default of a field, a default_factory called.
DefaultOf(field, m) ==
  LET v == field.default[1]
  IN  IF v.k # "data" THEN v
      ELSE DataV(v.name, [f \in DOMAIN Class(v.name, m) |-> Class(v.name, m)[f].default[1]])

\* A field that the payload does not carry.
AbsentField(field, m) ==
  IF field.default # << >> THEN DefaultOf(field, m)
  ELSE IF field.type.k = "opt" THEN None
  ELSE ContractError

\* The arguments that the constructor of class n gets: the fields that the payload carries,
\* decoded, and the others.
Arguments(n, m, parts) ==
  [f \in DOMAIN Class(n, m) |->
     IF f \in DOMAIN parts THEN parts[f] ELSE AbsentField(Class(n, m)[f], m)]

\* The constructor runs unless an argument raised.
Constructed(n, kwargs) == IF Raises(kwargs) THEN Raised(kwargs) ELSE DataV(n, kwargs)

\* Mutant: every key goes to the constructor, which refuses the ones it does not know.
DecodeDataStrict(n, data, m, parts) ==
  IF data.k # "dict" \/ ~ DOMAIN data.d \subseteq DOMAIN Class(n, m) THEN ContractError
  ELSE Constructed(n, Arguments(n, m, parts))

DecodeData(n, data, m, parts) ==
  IF data.k # "dict" THEN ContractError ELSE Constructed(n, Arguments(n, m, parts))

\* A value read as a type by minor version m, and the type without its "| None".
Typed(t, v, m) == [t |-> t, v |-> v, m |-> m]
Bare(t) == IF t.k = "opt" THEN t.of ELSE t

\* Where the decoder descends: into the elements of a list or dict, and into the fields that the
\* dataclass declares.
ReadKeys(x) ==
  LET t == Bare(x.t)
  IN  CASE t.k \in {"list", "dict"} /\ x.v.k = t.k -> DOMAIN Contents(x.v)
        [] t.k = "data" /\ x.v.k \in {"dict", "data"} ->
             DOMAIN Contents(x.v) \cap DOMAIN Class(t.name, x.m)
        [] OTHER -> {}

\* The hint of the part of a value of type t at a key.
HintAt(t, key, m) == IF t.k = "data" THEN Class(t.name, m)[key].type ELSE t.of

ReadPart(x, key) == Typed(HintAt(Bare(x.t), key, x.m), Contents(x.v)[key], x.m)

\* What data decodes to as a t that is not "| None", given what its contents decode to.
DecodeBare(t, data, m, parts) ==
  CASE t.k = "any"   -> data
    [] t.k = "list"  -> IF data.k # "list" THEN ContractError
                        ELSE IF Raises(parts) THEN Raised(parts) ELSE ListV(parts)
    [] t.k = "dict"  -> IF data.k # "dict" THEN ContractError
                        ELSE IF Raises(parts) THEN Raised(parts) ELSE DictV(parts)
    [] t.k = "enum"  -> DecodeEnum(t.name, data, m)
    [] t.k = "data"  -> DecodeData(t.name, data, m, parts)
    [] t.k = "float" -> DecodeFloat(data)
    [] t.k = "int"   -> DecodeInt(data)
    [] t.k = "bool"  -> IF IsBool(data) THEN data ELSE ContractError
    [] t.k = "str"   -> IF data.k = "str" THEN data ELSE ContractError

Decode(x, parts) ==
  IF x.t.k = "opt" /\ x.v = None THEN None ELSE DecodeBare(Bare(x.t), x.v, x.m, parts)

Decoding == INSTANCE Nested WITH Keys <- ReadKeys, Part <- ReadPart, Make <- Decode

FromJsonable(t, data, m) == Decoding!Fold(Typed(t, data, m))

(***************************************************************************)
(* Versions and parse_artifact.  schema_major takes the int before the     *)
(* first dot of str(version); LeadingInt is what int() makes of it for the *)
(* version strings that occur, and any other string has none.              *)
(***************************************************************************)
LeadingInt ==
  "1.0.0" :> 1 @@ "1.1.0" :> 1 @@ "1.2.0" :> 1 @@ "1.3.0" :> 1 @@ "1" :> 1 @@
  "01.7" :> 1 @@ "2.0.0" :> 2 @@ "0.9.0" :> 0 @@ "10.0.0" :> 10

schema_major(version) ==
  CASE version.k = "str" /\ version.s \in DOMAIN LeadingInt -> IntV(LeadingInt[version.s])
    [] version.k = "int"   -> IntV(version.n)
    [] version.k = "float" -> IntV(version.x)
    [] OTHER -> ContractError

HasKey(data, key) == data.k = "dict" /\ key \in DOMAIN data.d

declared_schema_version(data) ==
  IF HasKey(data, "meta") /\ HasKey(data.d["meta"], "schema_version")
  THEN data.d["meta"].d["schema_version"]
  ELSE IF HasKey(data, "schema_version") THEN data.d["schema_version"]
  ELSE ContractError

\* Mutant: only later majors are refused.
SpeaksOlder(m, major) == major.n <= schema_major(StrV(SCHEMA_VERSION[m])).n

\* Does the library speak this major version?
Speaks(m, major) == major = schema_major(StrV(SCHEMA_VERSION[m]))

parse_artifact(n, data, m) ==
  LET version == declared_schema_version(data)
      major   == IF IsError(version) THEN version ELSE schema_major(version)
  IN  IF IsError(major) THEN major
      ELSE IF ~ Speaks(m, major) THEN IncompatibleSchemaVersion
      ELSE FromJsonable(Data(n), data, m)

=============================================================================
