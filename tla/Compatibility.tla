---------------------------- MODULE Compatibility ----------------------------
(***************************************************************************)
(* The rules that the exchange of artifacts rests on: what the catalogue   *)
(* of each minor version keeps to (README.md, "Compatibility rules"; the   *)
(* notes on additions in manuscript.py and runs.py), and what producers    *)
(* and other writers keep to.  They are statements about constants, so TLC *)
(* evaluates them for the catalogue of this repository and the sampled     *)
(* writers, and the proofs of ExchangeProofs use nothing else of either.   *)
(***************************************************************************)
EXTENDS SchemaAgreement

\* The hints that minor version m decodes by: those of its fields, and what they are made of.
Declared(m) == UNION {{Class(n, m)[f].type : f \in DOMAIN Class(n, m)} : n \in Known(m)}
Inner(ts)   == {t.of : t \in {u \in ts : u.k \in {"opt", "list", "dict"}}}
Hints(m)    == Declared(m) \cup Inner(Declared(m)) \cup Inner(Inner(Declared(m)))
               \cup {Data(n) : n \in Known(m)}

\* Every hint is one that from_jsonable supports: None is said once and at a field only, every
\* enum can say "unknown", and every dataclass that is named is there.
HintRule(m) ==
  \A t \in Hints(m) :
    /\ t.k \in {"any", "opt", "list", "dict", "enum", "data", "float", "int", "bool", "str"}
    /\ t.k \in {"opt", "list", "dict"} => t.of \in Hints(m) /\ t.of.k # "opt"
    /\ t.k = "opt"  => t.of.k # "any"
    /\ t.k = "enum" => "unknown" \in Members(t.name, m)
    /\ t.k = "data" => t.name \in Known(m)

\* Python's limit on how deep to_jsonable and from_jsonable call themselves.
RecursionLimit == 1000

\* A value that both functions get to the bottom of.
Shallow(v) == \E n \in 0..RecursionLimit : Nesting!Within(v, n)

\* Defaults are of the declared type, and a field that may be None is None when it is absent.
DefaultRule(m) ==
  \A n \in Known(m) : \A f \in DOMAIN Class(n, m) :
    LET field == Class(n, m)[f]
    IN  /\ field.default # << >> =>
             WellTyped(field.type, DefaultOf(field, m), m) /\ Shallow(DefaultOf(field, m))
        /\ field.type.k \in {"opt", "any"} => AbsentField(field, m) = None

\* A later minor version b only adds: classes, enum members and fields that may be None.
AdditiveRule(a, b) ==
  /\ Known(a) \subseteq Known(b) /\ Hints(a) \subseteq Hints(b)
  /\ \A n \in Known(a) :
       /\ DOMAIN Class(n, a) \subseteq DOMAIN Class(n, b)
       /\ \A f \in DOMAIN Class(n, a) : Class(n, b)[f] = Class(n, a)[f]
       /\ \A f \in DOMAIN Class(n, b) \ DOMAIN Class(n, a) : Class(n, b)[f].type.k = "opt"
  /\ \A t \in Hints(a) : t.k = "enum" => Members(t.name, a) \subseteq Members(t.name, b)

\* Every artifact states its version, in its envelope or, if it has none, itself.
HasEnvelope(n) == "meta" \in DOMAIN Class(n, Current)

VersionRule(m) ==
  /\ schema_major(StrV(SCHEMA_VERSION[m])) = IntV(1)
  /\ \A n \in ARTIFACT_TYPES \cap Known(m) :
       LET class == Class(n, m)
       IN  IF HasEnvelope(n)
           THEN /\ "meta" \in DOMAIN class /\ "schema_version" \notin DOMAIN class
                /\ class["meta"] = Field(Data("ArtifactMeta"), << >>)
           ELSE /\ "meta" \notin DOMAIN class /\ "schema_version" \in DOMAIN class
                /\ class["schema_version"] = Field(Str, << >>)
  /\ LET meta == Class("ArtifactMeta", m)
     IN  "schema_version" \in DOMAIN meta /\ meta["schema_version"] = Field(Str, << >>)

\* What the lock of a manuscript node is read from is there in every version.
ManuscriptRule(m) ==
  LET revision == Class("ManuscriptRevision", m)
      node     == Class("ManuscriptNode", m)
  IN  /\ "ManuscriptRevision" \in Known(m) /\ "nodes" \in DOMAIN revision
      /\ revision["nodes"].type = ListOf(Data("ManuscriptNode"))
      /\ "locked" \in DOMAIN node /\ node["locked"].type = Boolean

ASSUME CatalogueRules ==
  /\ \A m \in Minors : HintRule(m) /\ DefaultRule(m) /\ VersionRule(m) /\ ManuscriptRule(m)
  /\ \A a, b \in Minors : a <= b => AdditiveRule(a, b)

-----------------------------------------------------------------------------
\* The version that an object carries.
Stamp(n, obj) ==
  IF HasEnvelope(n) THEN obj.fields["meta"].fields["schema_version"]
  ELSE obj.fields["schema_version"]

\* What a producer with minor version a can send is an object of the type its library declares,
\* with JSON where the hint is Any, and carries its library's version.
ASSUME ProducerRules ==
  \A n \in Kinds : \A a \in DOMAIN Objects[n] : \A obj \in Objects[n][a] :
    /\ Shallow(obj)
    /\ ~ IsError(ToJsonable(obj)) =>
         /\ n \in Known(a) /\ WellTyped(Data(n), obj, a)
         /\ Stamp(n, obj) = StrV(SCHEMA_VERSION[a])

\* A payload in which declared_schema_version looks at something that the type does not declare.
Shadowed(n, payload) == HasKey(payload, IF HasEnvelope(n) THEN "schema_version" ELSE "meta")

\* Other writers write JSON, and no version besides the artifact's own.
ASSUME WriterRules ==
  \A n \in DOMAIN Foreign : \A payload \in Foreign[n] :
    IsJson(payload) /\ Shallow(payload) /\ ~ Shadowed(n, payload)

\* The rule that manuscript.py gives producers: whoever sets lock_kind also sets
\* locked = (lock_kind is not NONE).
StatesLock(node) ==
  "lock_kind" \in DOMAIN node.fields /\ node.fields["lock_kind"] # None =>
    node.fields["locked"] = BoolV(node.fields["lock_kind"] # EnumV("LockKind", "none"))

LocksStated ==
  "ManuscriptRevision" \in Kinds =>
    \A a \in DOMAIN Objects["ManuscriptRevision"] :
    \A obj \in Objects["ManuscriptRevision"][a] :
      ~ IsError(ToJsonable(obj)) => \A i \in DOMAIN Nodes(obj) : StatesLock(Nodes(obj)[i])

-----------------------------------------------------------------------------
(***************************************************************************)
(* The inductive invariant.  The properties speak of what consumers make   *)
(* of the wire; it says what is on the wire: of a library's artifact what  *)
(* the oldest library so far can express of the producer's object, and of  *)
(* any artifact that was passed on the wire form of a well-typed object    *)
(* with a spoken version.                                                  *)
(***************************************************************************)
\* What a consumer's parse_artifact raises.
Refusals == {"ContractError", "OverflowError", "IncompatibleSchemaVersion"}

\* An artifact of minor version m, with a version of this major.
Good(n, w, m) ==
  /\ n \in ARTIFACT_TYPES /\ n \in Known(m) /\ Nesting!Finite(w) /\ WellTyped(Data(n), w, m)
  /\ SpokenMajor(Stamp(n, w))

\* Who handled the artifact and what became of it.
Bookkeeping ==
  /\ hops \in Nat /\ low \in Minors
  /\ status \in {"idle", "sent"} \cup Refusals
  /\ status = "idle" => hops = 0 /\ author = NoLibrary

\* The wire of a library's artifact.
LibrarySent ==
  author \in Minors =>
    /\ kind \in Kinds /\ author \in DOMAIN Objects[kind] /\ object \in Objects[kind][author]
    /\ origin = ToJsonable(object) /\ ~ IsError(origin)
    /\ low <= author /\ kind \in Known(low) /\ wire = ToJsonable(Project(object, low))

\* The wire of a payload that no consumer has handled yet.
ForeignSent ==
  author \notin Minors /\ status = "sent" /\ hops = 0 =>
    /\ kind \in DOMAIN Foreign /\ origin \in Foreign[kind] /\ wire = origin
    /\ low = NextMinor

\* The wire after the first consumer: what its library writes, of an accepted payload.
PassedOn ==
  hops > 0 =>
    /\ Good(kind, View(low), low) /\ wire = ToJsonable(View(low))
    /\ SpokenMajor(OwnVersion(origin))

\* The inductive invariant.
WireInv == Bookkeeping /\ LibrarySent /\ ForeignSent /\ PassedOn

=============================================================================
