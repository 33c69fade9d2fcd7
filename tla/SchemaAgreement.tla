--------------------------- MODULE SchemaAgreement ---------------------------
(***************************************************************************)
(* The two readings of the dataclasses side by side: the JSON Schema that  *)
(* _schema.py makes of a type, as a validator applies it, and the codec of *)
(* module Serde.  A sibling project that is not written in Python sees     *)
(* only the schema.  How the generator shares definitions and breaks       *)
(* recursion is the subject of SchemaGen; here a reference is followed.    *)
(***************************************************************************)
EXTENDS Exchange

\* Mutant: the list of required fields is dropped.
IsRequiredNever(field) == FALSE

\* _is_required
IsRequired(field) == field.default = << >> /\ field.type.k # "opt"

(***************************************************************************)
(* A validator's verdict (draft 2020-12) on data, against the schema that  *)
(* minor version m generates for type t.  To a validator 1.0 is an integer *)
(* and a number is as large as it likes; "exact" asks for integers written *)
(* as such and for numbers that a float can hold.                          *)
(***************************************************************************)
\* The schema of a dataclass: an object with its required fields, and any others.
ValidatesData(n, data, m) ==
  /\ data.k = "dict"
  /\ \A f \in DOMAIN Class(n, m) : IsRequired(Class(n, m)[f]) => f \in DOMAIN data.d

\* What the schema of t, which says nothing of "| None", asks of the data itself.
ValidatesHere(t, data, m, exact) ==
  CASE t.k = "any"   -> TRUE
    [] t.k = "enum"  -> data.k = "str" /\ data.s \in Members(t.name, m)
    [] t.k = "data"  -> ValidatesData(t.name, data, m)
    [] t.k = "int"   -> data.k = "int" \/ (~exact /\ data.k = "float")
    [] t.k = "float" -> data.k = "float" \/ (data.k = "int" /\ (exact => FitsFloat(data.n)))
    [] OTHER -> data.k = t.k

\* The schema of t accepts the data and, by the schemas of its elements, items and properties,
\* all that is nested in it.
Validates(t, data, m, exact) ==
  \A x \in Decoding!Reach(Typed(t, data, m)) : ValidatesHere(Bare(x.t), x.v, m, exact)

-----------------------------------------------------------------------------
\* What a library wrote, or passed on, validates against the schemas of its own version and of
\* every later one: no null where the schema has no null, no enum member that the schema does
\* not list, no required field left out, whichever versions the artifact went through.
\* (to_jsonable; _is_required and type_schema in _schema.py)
WireValidates ==
  ByLibrary \/ hops > 0 =>
    \A m \in Knowing : m >= low => Validates(Data(kind), wire, m, FALSE)

\* What validates against the schema of a library that library decodes: a writer who knows only
\* the schema is never refused for the shape of the payload.  Two numbers are the exception
\* ("exact"): an integer written 1.0, which int refuses, and an int too large for a float.
ValidIsDecoded ==
  status = "sent" =>
    \A m \in Knowing :
      Validates(Data(kind), wire, m, TRUE) =>
        ~ IsError(FromJsonable(Data(kind), wire, m))

=============================================================================
