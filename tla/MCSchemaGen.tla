----------------------------- MODULE MCSchemaGen -----------------------------
(***************************************************************************)
(* Instances of SchemaGen for TLC: every catalogue of a few classes and an *)
(* enum, recursive ones included.                                          *)
(***************************************************************************)
EXTENDS SchemaGen

MCEnums  == {"E"}
MCNames  == {"A", "B", "C", "E"}
MCGraphs == {g \in [MCNames -> SUBSET MCNames] : g["E"] = {}}

-----------------------------------------------------------------------------
(***************************************************************************)
(* The catalogue of this repository, which generate_schemas runs           *)
(* json_schema on, is one of those that the theorems are about.            *)
(***************************************************************************)
Catalogue == INSTANCE Contracts

\* The names that a type hint mentions: type_schema looks through optionals, lists and dicts.
RECURSIVE NamesIn(_)
NamesIn(t) ==
  CASE t.k \in {"opt", "list", "dict"} -> NamesIn(t.of)
    [] t.k \in {"enum", "data"}        -> {t.name}
    [] OTHER -> {}

CatalogueClasses == DOMAIN Catalogue!Classes
CatalogueEnums   == DOMAIN Catalogue!Enums
CatalogueNames   == CatalogueClasses \cup CatalogueEnums
CatalogueRoots   == Catalogue!ALL_SCHEMA_TYPES

CatalogueUses ==
  [n \in CatalogueNames |->
     IF n \in CatalogueEnums THEN {}
     ELSE UNION {NamesIn(Catalogue!Classes[n][f].type) : f \in DOMAIN Catalogue!Classes[n]}]

\* SchemaGenAssumption for this catalogue: classes and enums have different names, every type
\* with a schema is a class, and whatever a hint mentions is there.
ASSUME CatalogueIsCovered ==
  /\ CatalogueClasses \cap CatalogueEnums = {} /\ CatalogueRoots \subseteq CatalogueClasses
  /\ CatalogueUses \in [CatalogueNames -> SUBSET CatalogueNames]

=============================================================================
