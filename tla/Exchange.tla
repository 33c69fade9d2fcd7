------------------------------ MODULE Exchange -------------------------------
(***************************************************************************)
(* One artifact travelling between the sibling projects.  A producer       *)
(* serialises an object with the library of some minor version, or a       *)
(* writer that does not use the library puts JSON on the wire; consumers   *)
(* then parse what they receive and, when they pass it on, serialise it    *)
(* again.  Every party runs its own minor version of the library, which is *)
(* what the compatibility rules of README.md are about.                    *)
(***************************************************************************)
EXTENDS Serde

NoLibrary == NextMinor + 1

CONSTANTS
  Readers,        \* minor versions of the consumers
  Objects,        \* what the producers of each kind and version make
  Foreign,        \* what writers without the library write of each kind
  MaxHops         \* bound: how often an artifact is passed on

Kinds == DOMAIN Objects

ASSUME ExchangeAssumption ==
  /\ Kinds \subseteq ARTIFACT_TYPES /\ DOMAIN Foreign \subseteq ARTIFACT_TYPES
  /\ \A n \in Kinds : DOMAIN Objects[n] \subseteq Minors
  /\ Readers \subseteq Minors /\ MaxHops \in Nat

VARIABLES
  kind,           \* the artifact type
  author,         \* the producer's minor version; NoLibrary for a foreign writer
  object,         \* the object the producer serialised (None for a foreign writer)
  origin,         \* the payload first put on the wire
  wire,           \* the payload now on the wire
  low,            \* the lowest minor version that has handled the artifact
  hops,           \* how often it has been passed on
  status          \* "idle", "sent" or what a refusing consumer raised

vars == <<kind, author, object, origin, wire, low, hops, status>>

LowerOf(a, b) == IF a < b THEN a ELSE b

-----------------------------------------------------------------------------
Init ==
  /\ kind = "none" /\ author = NoLibrary /\ object = None
  /\ origin = None /\ wire = None
  /\ low = NextMinor /\ hops = 0 /\ status = "idle"

Send(n, m, obj, payload) ==
  /\ kind' = n /\ author' = m /\ object' = obj
  /\ origin' = payload /\ wire' = payload
  /\ low' = LowerOf(m, NextMinor) /\ status' = "sent"
  /\ UNCHANGED hops

\* A producer serialises an object of its own library.
Produce ==
  /\ status = "idle"
  /\ \E n \in Kinds : \E m \in DOMAIN Objects[n] :
     \E obj \in Objects[n][m] :
       ~ IsError(ToJsonable(obj)) /\ Send(n, m, obj, ToJsonable(obj))

\* to_jsonable meets a value JSON cannot carry, and nothing is sent.
ProduceFails ==
  /\ status = "idle"
  /\ \E n \in Kinds : \E m \in DOMAIN Objects[n] :
     \E obj \in Objects[n][m] :
       IsError(ToJsonable(obj)) /\ status' = ToJsonable(obj).raised
  /\ UNCHANGED <<kind, author, object, origin, wire, low, hops>>

\* A payload that no library wrote.
WriteForeign ==
  /\ status = "idle"
  /\ \E n \in DOMAIN Foreign : \E payload \in Foreign[n] : Send(n, NoLibrary, None, payload)

\* A consumer at minor version m parses the payload and passes it on.
Forward(m) ==
  /\ status = "sent" /\ hops < MaxHops /\ kind \in Known(m)
  /\ LET parsed == parse_artifact(kind, wire, m)
     IN  ~ IsError(parsed) /\ wire' = ToJsonable(parsed)
  /\ low' = LowerOf(low, m) /\ hops' = hops + 1
  /\ UNCHANGED <<kind, author, object, origin, status>>

\* A consumer's parse_artifact raises, and the artifact goes no further.
Refuse(m) ==
  /\ status = "sent" /\ hops < MaxHops /\ kind \in Known(m)
  /\ LET parsed == parse_artifact(kind, wire, m)
     IN  IsError(parsed) /\ status' = parsed.raised
  /\ UNCHANGED <<kind, author, object, origin, wire, low, hops>>

Next ==
  \/ Produce \/ ProduceFails \/ WriteForeign
  \/ \E m \in Readers : Forward(m) \/ Refuse(m)

Spec == Init /\ [][Next]_vars

-----------------------------------------------------------------------------
(***************************************************************************)
(* Properties of artifacts that a library wrote.                           *)
(***************************************************************************)
ByLibrary == author \in Minors /\ wire # None
Knowing   == {m \in Readers : kind \in Known(m)}
View(m)   == parse_artifact(kind, wire, m)

\* Minor drift is accepted (README.md, "Compatibility rules"): no consumer, of whatever minor
\* version, refuses what a library of the same major version produced, however often and by
\* whomever it was passed on in between.
MinorDriftAccepted == ByLibrary => \A m \in Knowing : ~ IsError(View(m))

\* An upgrade never rewrites a payload (runs.py: "a 1.0 record round-trips byte-identically"):
\* as long as every consumer runs the producer's version or a later one, what is passed on is
\* what was produced, so digests and content addresses of it stay valid.
UpgradeIsLossless == ByLibrary /\ low >= author => wire = origin

\* What version m of the library can express of an object: the fields it declares, absent where
\* the object has none, and the enum members it knows, the others degraded to "unknown".
ReadAt(v, m) == [v |-> v, m |-> m]

SharedKeys(x) ==
  IF x.v.k = "data" THEN DOMAIN x.v.fields \cap DOMAIN Class(x.v.name, x.m)
  ELSE DOMAIN Contents(x.v)

SharedPart(x, key) == ReadAt(Contents(x.v)[key], x.m)

Express(x, parts) ==
  LET v == x.v
  IN  CASE v.k = "data" ->
             DataV(v.name, [f \in DOMAIN Class(v.name, x.m) |->
                              IF f \in DOMAIN parts THEN parts[f] ELSE None])
        [] v.k = "enum" ->
             EnumV(v.name, IF v.member \in Members(v.name, x.m) THEN v.member ELSE "unknown")
        [] v.k = "list" -> ListV(parts)
        [] v.k = "dict" -> DictV(parts)
        [] OTHER -> v

Projecting == INSTANCE Nested WITH Keys <- SharedKeys, Part <- SharedPart, Make <- Express

Project(v, m) == Projecting!Fold(ReadAt(v, m))

\* The codec loses only what it must: every consumer decodes exactly the producer's object as
\* the oldest library on the way, and then its own, can express it.  In particular the order
\* in which old and new consumers handled the artifact makes no difference, and no consumer
\* sees a value that the producer did not set (a default, a flipped flag, another member).
ReaderSeesProjection ==
  ByLibrary => \A m \in Knowing : View(m) = Project(Project(object, low), m)

Nodes(revision) == revision.fields["nodes"].items

Frozen(node) ==
  IF "lock_kind" \in DOMAIN node.fields /\ node.fields["lock_kind"] # None
  THEN node.fields["lock_kind"] # EnumV("LockKind", "none")
  ELSE node.fields["locked"] = BoolV(TRUE)

\* "a 1.0 reader still sees every lock and never mistakes a frozen node for a free one"
\* (manuscript.py, LockKind), whatever versions handled the revision before that reader, and
\* no reader takes a free node for a frozen one.
FrozenNeverFree ==
  ByLibrary /\ kind = "ManuscriptRevision" =>
    \A m \in Readers : \A i \in DOMAIN Nodes(object) :
      (Nodes(View(m))[i].fields["locked"] = BoolV(TRUE)) <=> Frozen(Nodes(object)[i])

\* "Absent means 'not stated by the producer'" (manuscript.py, ManuscriptNode): a reader that
\* knows an additive field and finds it absent concludes that the producer left it unset.
AbsentMeansUnstated ==
  ByLibrary /\ kind = "ManuscriptRevision" =>
    \A m \in Readers : \A i \in DOMAIN Nodes(object) :
      \A f \in DOMAIN NodeAdditions \cap DOMAIN Nodes(View(m))[i].fields :
        Nodes(View(m))[i].fields[f] = None /\ f \in DOMAIN Nodes(object)[i].fields =>
          Nodes(object)[i].fields[f] = None

-----------------------------------------------------------------------------
(***************************************************************************)
(* Properties of everything a consumer accepted, foreign payloads too.     *)
(***************************************************************************)
\* All that is nested in a value.
Places(v) == DOMAIN Contents(v)

Nesting == INSTANCE Nested WITH Keys <- Places, Part <- ContentAt, Make <- Encode

JsonKinds == {"none", "str", "int", "float", "bool", "list", "dict"}

\* A value that the json module writes.
IsJson(v) == \A u \in Nesting!Reach(v) : u.k \in JsonKinds

\* What type t asks of a value itself, apart from its contents.
HasShape(t, v, m) ==
  CASE t.k = "any"  -> IsJson(v)
    [] t.k = "enum" -> v.k = "enum" /\ v.name = t.name /\ v.member \in Members(t.name, m)
    [] t.k = "data" ->
         v.k = "data" /\ v.name = t.name /\ DOMAIN v.fields = DOMAIN Class(t.name, m)
    [] OTHER -> v.k = t.k

\* v is of type t in minor version m, all the way down.
WellTyped(t, v, m) ==
  \A x \in Decoding!Reach(Typed(t, v, m)) :
    (x.t.k = "opt" /\ x.v = None) \/ HasShape(Bare(x.t), x.v, m)

\* What parse_artifact returns has the declared type all the way down (from_jsonable checks
\* every level): no consumer holds a bool as a token count or a list where a node belongs.
AcceptedIsWellTyped ==
  status = "sent" => \A m \in Knowing : IsError(View(m)) \/ WellTyped(Data(kind), View(m), m)

\* What one consumer accepted and passed on every consumer accepts: a payload is not let
\* through by an old reader that ignores a malformed field only to fail at a newer one.
ForwardedIsReadable == hops > 0 => \A m \in Knowing : ~ IsError(View(m))

\* The first consumer's serialisation is a normal form: passing it on through any consumer at
\* least as new as the oldest so far changes nothing, so a digest taken after the first hop
\* is good for all later ones.
ForwardedIsStable ==
  hops > 0 => \A m \in Knowing : m >= low => ToJsonable(View(m)) = wire

\* The major version of the artifact's own envelope.
OwnVersion(data) ==
  IF "meta" \in DOMAIN Class(kind, Current)
  THEN data.d["meta"].d["schema_version"] ELSE data.d["schema_version"]

SpokenMajor(version) == schema_major(version) = IntV(1)

\* "Consumers reject unknown major schema versions" (README.md): an artifact is passed on only
\* if it declares a version of this major.
MajorGated == hops > 0 => SpokenMajor(OwnVersion(origin))

DeclaredOnly(data, m) ==
  DictV([key \in DOMAIN data.d \cap DOMAIN Class(kind, m) |-> data.d[key]])

\* "unknown fields are ignored on read" (README.md): a consumer makes of a payload what it would
\* make of it without the fields its library does not declare, refusals included.
UnknownFieldsIgnored ==
  status = "sent" /\ wire.k = "dict" =>
    \A m \in Knowing : View(m) = parse_artifact(kind, DeclaredOnly(wire, m), m)

Envelopes(v) == {u \in Nesting!Reach(v) : u.k = "data" /\ u.name = "ArtifactMeta"}

\* The same rule for every envelope in what a consumer accepts, embedded artifacts (the patch
\* of a generation candidate, the query of a gold case) included.
EveryMajorGated ==
  status = "sent" => \A m \in Knowing :
    IsError(View(m)) \/ \A e \in Envelopes(View(m)) : SpokenMajor(e.fields["schema_version"])

=============================================================================
