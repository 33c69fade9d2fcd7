----------------------------- MODULE FixtureBuild -----------------------------
(***************************************************************************)
(* FixtureBuilder (fixture_build.py): a book's definition (def.json) and   *)
(* the texts of its scenes become six artifacts that cite each other.      *)
(* Builds and the author's edits alternate; how a build is torn by an edit *)
(* or a kill is the subject of Regenerate.                                 *)
(*                                                                         *)
(* A text is a sequence of characters, and offsets count from 0.  SHA-256  *)
(* and UUIDv5 are taken to be injective: a hash is what was hashed, and an *)
(* id is the sequence of its parts.  Lists whose order nothing depends on  *)
(* are sets, and the ids of records are distinct.  What is only copied     *)
(* from definition to artifact (titles, messages, subjects, claims, notes) *)
(* is left out.                                                            *)
(***************************************************************************)
EXTENDS Naturals, FiniteSets, Sequences, Functions, LexOrder

CONSTANTS
  Defs,       \* the definitions considered
  Files,      \* the files of scenes
  Entities,   \* names of entities
  Raws,       \* what such a file may hold: sequences of characters
  MaxBuilds,  \* bound on the builds
  MaxEdits    \* bound on the edits and checkouts

\* Texts are sequences, and so are the scenes of a definition, each with one of the files.
ASSUME FixtureBuildAssumption ==
  /\ \A r \in Raws : r \in Seq(Range(r))
  /\ \A d \in Defs : d.scenes \in Seq(Range(d.scenes))
  /\ \A d \in Defs : \A i \in DOMAIN d.scenes : d.scenes[i].file \in Files

CR == "\\r"
LF == "\\n"

VARIABLES
  src,     \* the sources on disk: def.json and the files of the scenes
  read,    \* the sources when they were read
  text,    \* scene_text
  out,     \* the artifacts built so far
  pc,      \* "idle", or the artifact to build next
  past,    \* the builds that were completed: what was read, and the artifacts
  edits

vars == <<src, read, text, out, pc, past, edits>>

\* spec
def == read.def

(***************************************************************************)
(* Reading.  read_text translates line ends: CR LF is one LF, and so is a  *)
(* CR alone.  (The replace that follows it finds nothing left to do.)      *)
(***************************************************************************)
\* Mutant: the file is read as it is (newline="").
ReadVerbatim(r) == r

\* What has been read after n characters.
ReadUpTo(r) ==
  LET upTo[n \in 0..Len(r)] ==
        IF n = 0 THEN << >>
        ELSE IF r[n] = LF /\ n > 1 /\ r[n - 1] = CR THEN upTo[n - 1]
        ELSE Append(upTo[n - 1], IF r[n] = CR THEN LF ELSE r[n])
  IN  upTo

ReadText(r) == ReadUpTo(r)[Len(r)]

(***************************************************************************)
(* References.                                                             *)
(***************************************************************************)
\* det_id
DetId(parts) == parts

revision_id == DetId(<<def.fixture_id, "revision", "r1">>)

\* Mutant: the version does not follow the text.
SceneVersionConstant(s) == DetId(<<def.fixture_id, s, "r1">>)

\* scene_version
SceneVersion(s) == DetId(<<def.fixture_id, s, text[s]>>)

\* _ref: project, book and branch are those of the book in every reference.
Ref(id, kind, version) == [logical_id |-> id, kind |-> kind, version_id |-> version]

NoVersion == << >>

BookRef     == Ref("book", "manuscript_book", revision_id)
SceneRef(s) == Ref(s, "manuscript_scene", SceneVersion(s))

SceneIds == {def.scenes[i].id : i \in DOMAIN def.scenes}
Ids(S)   == {x.id : x \in S}

\* _RECORD_KIND_TO_RESOURCE, which has no entry for "unknown".
RecordKindToResource ==
  [assertion |-> "assertion", event |-> "state_event", relationship |-> "relationship",
   knowledge |-> "knowledge", thread |-> "thread", world_rule |-> "world_rule"]

\* The id of an entity: what starts with "entity:".
EntityId(name) == "entity:" \o name

RecordKind(id) == (CHOOSE r \in def.state_records : r.id = id).kind

\* resolve_target, for an id that resolves.
ResolvedRef(id) ==
  CASE id = "book" -> BookRef
    [] id # "book" /\ id \in SceneIds -> SceneRef(id)
    [] id \notin SceneIds \cup {"book"} /\ id \in Ids(def.state_records) ->
         Ref(id, RecordKindToResource[RecordKind(id)], NoVersion)
    [] OTHER ->
         Ref(id,
             IF id \in Ids(def.plans) THEN "plan"
             ELSE IF id \in Ids(def.gold_findings) THEN "finding"
             ELSE IF id \in def.derived_nodes THEN "summary"
             ELSE IF id \in Ids(def.context_gold) THEN "context_packet"
             ELSE "entity",
             NoVersion)

\* Mutant: an id that names nothing is let through.
ResolvesAnything(id) ==
  id \in Ids(def.state_records) => RecordKind(id) \in DOMAIN RecordKindToResource

\* resolve_target does not raise: a FixtureError when the id names nothing and is no entity, a
\* KeyError for a record whose kind is "unknown".
Resolves(id) ==
  IF id \in SceneIds \cup {"book"} THEN TRUE
  ELSE IF id \in Ids(def.state_records) THEN RecordKind(id) \in DOMAIN RecordKindToResource
  ELSE id \in Ids(def.plans) \cup Ids(def.gold_findings) \cup def.derived_nodes
              \cup Ids(def.context_gold) \cup {EntityId(e) : e \in Entities}

(***************************************************************************)
(* Quotes.                                                                 *)
(***************************************************************************)
\* The offsets at which q occurs in t.
Occurrences(t, q) == {i \in 0..Len(t) : i + Len(q) <= Len(t) /\ SubSeq(t, i + 1, i + Len(q)) = q}

\* str.index
Index(t, q) == CHOOSE i \in Occurrences(t, q) : \A j \in Occurrences(t, q) : i <= j

\* text.count(q) = 1.  str.count goes on behind the occurrence it has found, so that an
\* occurrence which overlaps the first one is not counted.  It counts an empty quote once at
\* each offset.
CountedOnce(t, q) ==
  /\ Occurrences(t, q) # {}
  /\ \A j \in Occurrences(t, q) : j < Index(t, q) + (IF q = << >> THEN 1 ELSE Len(q))

\* Mutant: that the quote occurs is enough.
QuotableAnywhere(c) == c.scene \in SceneIds /\ Occurrences(text[c.scene], c.quote) # {}

\* span does not raise.
Quotable(c) == c.scene \in SceneIds /\ CountedOnce(text[c.scene], c.quote)

\* Mutant: the offset past the end is one too far.
SpanTooLong(c) ==
  LET start == Index(text[c.scene], c.quote)
  IN  [source |-> SceneRef(c.scene), start |-> start, end |-> start + Len(c.quote) + 1,
       content_sha256 |-> c.quote]

\* span, of a citation c = {"scene": ..., "quote": ...}.
Span(c) ==
  LET start == Index(text[c.scene], c.quote)
  IN  [source |-> SceneRef(c.scene), start |-> start, end |-> start + Len(c.quote),
       content_sha256 |-> c.quote]

\* _meta
Meta(kind, name) ==
  [artifact_id |-> DetId(<<def.fixture_id, kind, name>>), source_revisions |-> {BookRef}]

(***************************************************************************)
(* Artifacts.                                                              *)
(***************************************************************************)
\* Mutant: the keys are not padded.
PositionKeyPlain(i) ==
  LET n == i * 10
  IN  IF n < 100 THEN <<n \div 10, n % 10>>
      ELSE <<n \div 100, (n \div 10) % 10, n % 10>>

\* The digits of i * 10, padded to three, for fewer than 1000 scenes.
PositionKey(i) ==
  LET n == i * 10
  IN  IF n < 1000 THEN <<n \div 100, (n \div 10) % 10, n % 10>>
      ELSE <<n \div 1000, (n \div 100) % 10, (n \div 10) % 10, n % 10>>

SceneNode(i) ==
  LET s == def.scenes[i].id
  IN  [logical_id |-> s, kind |-> "scene", position_key |-> PositionKey(i),
       content |-> text[s], version_id |-> SceneVersion(s)]

BookNode == [logical_id |-> "book", kind |-> "book", position_key |-> <<0, 0, 0>>,
             content |-> << >>, version_id |-> revision_id]

Manuscript ==
  [meta |-> Meta("manuscript_revision", "r1"), revision_id |-> revision_id,
   nodes |-> {BookNode} \cup {SceneNode(i) : i \in DOMAIN def.scenes}]

Plans ==
  [meta |-> Meta("plan_snapshot", "r1"), revision_id |-> revision_id, items |-> Ids(def.plans)]

StateRecord(r) ==
  [record_id |-> r.id, kind |-> r.kind, evidence |-> {Span(c) : c \in r.evidence}]

State ==
  [meta |-> Meta("state_snapshot", "r1"), revision_id |-> revision_id,
   records |-> {StateRecord(r) : r \in def.state_records}]

Finding(f) ==
  [finding_id |-> f.id, scene_ids |-> {c.scene : c \in {f.primary} \cup f.supporting},
   primary_span |-> Span(f.primary), supporting_evidence |-> {Span(c) : c \in f.supporting},
   dependencies |-> {ResolvedRef(d) : d \in f.dependencies},
   suggested_action |-> IF f.status = "accepted_intentional" THEN "dismiss" ELSE "inspect"]

Findings ==
  [meta |-> Meta("evaluation_artifact", "gold"), findings |-> {Finding(f) : f \in def.gold_findings}]

\* _context_target: a quote goes before a record, and a record before a plan.
TargetOk(t) ==
  IF "quote" \in DOMAIN t THEN Quotable(t)
  ELSE IF "record" \in DOMAIN t THEN Resolves(t.record)
  ELSE "plan" \in DOMAIN t /\ Resolves(t.plan)

ContextTarget(t) ==
  IF "quote" \in DOMAIN t THEN [span |-> Span(t)]
  ELSE IF "record" \in DOMAIN t THEN [ref |-> ResolvedRef(t.record)]
  ELSE [ref |-> ResolvedRef(t.plan)]

ContextCase(q) ==
  [query |-> [meta |-> Meta("context_query", q.id), query_id |-> q.id, target |-> ResolvedRef(q.target)],
   mandatory |-> {ContextTarget(t) : t \in q.mandatory},
   forbidden |-> {ContextTarget(t) : t \in q.forbidden}]

ContextGold ==
  [meta |-> Meta("gold_context_suite", "r1"), cases |-> {ContextCase(q) : q \in def.context_gold}]

\* An operation that quotes or anchors is located; any other one only names what it changes.
OperationOk(op) ==
  \/ "quote" \in DOMAIN op /\ Quotable(op)
  \/ "quote" \notin DOMAIN op /\ "anchor_quote" \in DOMAIN op
       /\ Quotable([scene |-> op.scene, quote |-> op.anchor_quote])
  \/ "quote" \notin DOMAIN op /\ "anchor_quote" \notin DOMAIN op

Operation(scenario, op) ==
  LET after == DetId(<<def.fixture_id, scenario.id, op.scene, "after">>)
  IN  IF "quote" \in DOMAIN op
      THEN [logical_source_id |-> op.scene, before_version |-> SceneVersion(op.scene),
            after_version |-> after, before_hash |-> Span(op).content_sha256]
      ELSE IF "anchor_quote" \in DOMAIN op
      THEN [logical_source_id |-> op.scene, before_version |-> SceneVersion(op.scene),
            after_version |-> after]
      ELSE [logical_source_id |->
              IF "entity" \in DOMAIN op THEN EntityId(op.entity)
              ELSE IF "scene" \in DOMAIN op THEN op.scene ELSE "book"]

ImpactCase(s) ==
  [change_set |->
     [meta |-> Meta("change_set", s.id), change_set_id |-> DetId(<<def.fixture_id, "change_set", s.id>>),
      base_revision |-> revision_id, operations |-> {Operation(s, op) : op \in s.operations},
      idempotency_key |-> DetId(<<def.fixture_id, "idempotency", s.id>>)],
   expected |-> {ResolvedRef(e) : e \in s.expected}]

ImpactGold ==
  [meta |-> Meta("gold_impact_suite", "r1"), cases |-> {ImpactCase(s) : s \in def.impact_gold}]

(***************************************************************************)
(* What each builder method needs so as not to raise.  "invalid" lists the *)
(* artifacts whose part of the definition lacks a key or has a value that  *)
(* is in no enum; "init" stands for what __init__ reads itself.            *)
(***************************************************************************)
Valid(part) == part \notin def.invalid

StateOk == \A r \in def.state_records : \A c \in r.evidence : Quotable(c)

FindingsOk ==
  \A f \in def.gold_findings :
    /\ \A c \in {f.primary} \cup f.supporting : Quotable(c)
    /\ \A d \in f.dependencies : Resolves(d)

ContextGoldOk ==
  \A q \in def.context_gold :
    /\ Resolves(q.target)
    /\ \A t \in q.mandatory \cup q.forbidden : TargetOk(t)

ImpactGoldOk ==
  \A s \in def.impact_gold :
    /\ \A op \in s.operations : OperationOk(op)
    /\ \A e \in s.expected : Resolves(e)

(***************************************************************************)
(* Actions.                                                                *)
(***************************************************************************)
NotBuilt == [manuscript |-> {}, plans |-> {}, state |-> {}, findings |-> {},
             context_gold |-> {}, impact_gold |-> {}]

Sources == [def : Defs, raw : [Files -> Raws]]

Init ==
  /\ src \in Sources
  /\ read = src
  /\ text = << >>
  /\ out = NotBuilt
  /\ pc = "idle"
  /\ past = {}
  /\ edits = 0

\* The file of a scene: of two scenes with one id the last is read.
File(d, id) ==
  LET i == CHOOSE k \in DOMAIN d.scenes :
             d.scenes[k].id = id /\ \A l \in DOMAIN d.scenes : d.scenes[l].id = id => l <= k
  IN  d.scenes[i].file

\* scene_text, for the sources s.
SceneText(s) ==
  [id \in {s.def.scenes[i].id : i \in DOMAIN s.def.scenes} |-> ReadText(s.raw[File(s.def, id)])]

\* FixtureBuilder.__init__
Read ==
  /\ pc = "idle"
  /\ Cardinality(past) < MaxBuilds
  /\ "init" \notin src.def.invalid
  /\ read' = src
  /\ text' = SceneText(src)
  /\ out' = NotBuilt
  /\ pc' = "manuscript"
  /\ UNCHANGED <<src, past, edits>>

BuildManuscript ==
  /\ pc = "manuscript"
  /\ Valid("manuscript")
  /\ out' = [out EXCEPT !.manuscript = Manuscript]
  /\ pc' = "plans"
  /\ UNCHANGED <<src, read, text, past, edits>>

BuildPlans ==
  /\ pc = "plans"
  /\ Valid("plans")
  /\ out' = [out EXCEPT !.plans = Plans]
  /\ pc' = "state"
  /\ UNCHANGED <<src, read, text, past, edits>>

BuildState ==
  /\ pc = "state"
  /\ Valid("state") /\ StateOk
  /\ out' = [out EXCEPT !.state = State]
  /\ pc' = "findings"
  /\ UNCHANGED <<src, read, text, past, edits>>

BuildFindings ==
  /\ pc = "findings"
  /\ Valid("findings") /\ FindingsOk
  /\ out' = [out EXCEPT !.findings = Findings]
  /\ pc' = "context_gold"
  /\ UNCHANGED <<src, read, text, past, edits>>

BuildContextGold ==
  /\ pc = "context_gold"
  /\ Valid("context_gold") /\ ContextGoldOk
  /\ out' = [out EXCEPT !.context_gold = ContextGold]
  /\ pc' = "impact_gold"
  /\ UNCHANGED <<src, read, text, past, edits>>

\* The last artifact: build() returns all six.
BuildImpactGold ==
  /\ pc = "impact_gold"
  /\ Valid("impact_gold") /\ ImpactGoldOk
  /\ out' = [out EXCEPT !.impact_gold = ImpactGold]
  /\ past' = past \cup {[read |-> read, out |-> out']}
  /\ pc' = "idle"
  /\ UNCHANGED <<src, read, text, edits>>

Raises ==
  \/ pc \in {"manuscript", "plans", "state", "findings", "context_gold", "impact_gold"} /\ ~Valid(pc)
  \/ pc = "state" /\ ~StateOk
  \/ pc = "findings" /\ ~FindingsOk
  \/ pc = "context_gold" /\ ~ContextGoldOk
  \/ pc = "impact_gold" /\ ~ImpactGoldOk

\* A FixtureError, KeyError or ValueError: nothing is returned.
Raise ==
  /\ Raises
  /\ pc' = "idle"
  /\ UNCHANGED <<src, read, text, out, past, edits>>

Edit == edits < MaxEdits /\ edits' = edits + 1 /\ UNCHANGED <<read, text, out, pc, past>>

\* The author writes another text or another definition, at any time.
EditScene ==
  /\ Edit
  /\ \E f \in Files, r \in Raws : src' = [src EXCEPT !.raw[f] = r]

EditDef ==
  /\ Edit
  /\ \E d \in Defs : src' = [src EXCEPT !.def = d]

\* What a checkout that converts line ends makes of a file: one that has a CR is left alone.
\* WriteUpTo(r)[n] is what it has written for n characters.
WriteUpTo(r) ==
  LET upTo[n \in 0..Len(r)] ==
        IF n = 0 THEN << >>
        ELSE upTo[n - 1] \o (IF r[n] = LF THEN <<CR, LF>> ELSE <<r[n]>>)
  IN  upTo

ToCrlf(r) == IF CR \in Range(r) THEN r ELSE WriteUpTo(r)[Len(r)]

\* The files of the scenes are checked out again with core.autocrlf.
Translate ==
  /\ Edit
  /\ src' = [src EXCEPT !.raw = [f \in Files |-> ToCrlf(@[f])]]

Next ==
  \/ Read \/ BuildManuscript \/ BuildPlans \/ BuildState \/ BuildFindings
  \/ BuildContextGold \/ BuildImpactGold \/ Raise
  \/ EditScene \/ EditDef \/ Translate

Spec == Init /\ [][Next]_vars

(***************************************************************************)
(* What a build cites.                                                     *)
(***************************************************************************)
Targets(o) == UNION {c.mandatory \cup c.forbidden : c \in o.context_gold.cases}

Spans(o) ==
  (UNION {r.evidence : r \in o.state.records})
    \cup (UNION {{f.primary_span} \cup f.supporting_evidence : f \in o.findings.findings})
    \cup {t.span : t \in {u \in Targets(o) : "span" \in DOMAIN u}}

Hashes(o) == {e.content_sha256 : e \in Spans(o)} \cup {n.content : n \in o.manuscript.nodes}

Operations(o) == UNION {c.change_set.operations : c \in o.impact_gold.cases}

Refs(o) ==
  (UNION {f.dependencies : f \in o.findings.findings})
    \cup {c.query.target : c \in o.context_gold.cases}
    \cup {t.ref : t \in {u \in Targets(o) : "ref" \in DOMAIN u}}
    \cup (UNION {c.expected : c \in o.impact_gold.cases})

\* The version of a node of the manuscript that is cited is the one the manuscript holds, and its
\* text satisfies Holds.
InManuscript(o, id, version, Holds(_)) ==
  \E n \in o.manuscript.nodes : n.logical_id = id /\ n.version_id = version /\ Holds(n.content)

(***************************************************************************)
(* Properties.                                                             *)
(***************************************************************************)
\* The spans of the artifacts o, and the operations of their change sets that quote or anchor,
\* resolve in their manuscript.
Cited(o) ==
  /\ \A e \in Spans(o) :
       InManuscript(o, e.source.logical_id, e.source.version_id,
                    LAMBDA t : SubSeq(t, e.start + 1, e.end) = e.content_sha256)
  /\ \A op \in Operations(o) :
       "before_version" \in DOMAIN op =>
         InManuscript(o, op.logical_source_id, op.before_version,
                      LAMBDA t : "before_hash" \in DOMAIN op => Occurrences(t, op.before_hash) # {})

\* Every citation of a build resolves in the manuscript of the same build, however the author
\* edits while it runs: the version cited is the version of the node, and the text between the
\* offsets is the text that was hashed.  An operation of a change set that quotes or
\* anchors starts from the version in the manuscript, which holds what it replaces.
\* (span, impact_gold; test_fixtures.py compares the hashes, and never the versions.)
EvidenceResolves == \A b \in past : Cited(b.out)

\* What a reference names is in the artifact that holds its kind.  Summaries and entities are in
\* none of the six: those are named by the definition d, or by their prefix.
Exists(d, o, ref) ==
  CASE ref.kind \in {"manuscript_book", "manuscript_scene"} ->
         InManuscript(o, ref.logical_id, ref.version_id, LAMBDA t : TRUE)
    [] ref.kind = "plan"    -> ref.logical_id \in o.plans.items
    [] ref.kind = "finding" -> \E f \in o.findings.findings : f.finding_id = ref.logical_id
    [] ref.kind = "context_packet" ->
         \E c \in o.context_gold.cases : c.query.query_id = ref.logical_id
    [] ref.kind = "summary" -> ref.logical_id \in d.derived_nodes
    [] ref.kind = "entity"  -> \E e \in Entities : ref.logical_id = EntityId(e)
    [] OTHER -> \E r \in o.state.records :
                  r.record_id = ref.logical_id /\ RecordKindToResource[r.kind] = ref.kind

\* Every reference of a build names something of its kind that the build holds, at the version it
\* holds: artifacts that are built one after the other, each from the definition, agree.
\* (resolve_target)
TargetsExist == \A b \in past : \A ref \in Refs(b.out) : Exists(b.read.def, b.out, ref)

\* All occurrences of a quote of o in its scene begin inside the span that cites it, or with it.
Placed(o) ==
  \A e \in Spans(o) :
    InManuscript(o, e.source.logical_id, e.source.version_id,
                 LAMBDA t : \A i \in Occurrences(t, e.content_sha256) :
                              i = e.start \/ (e.start < i /\ i < e.end))

\* A quote stands for one place in its scene: an occurrence other than the one cited overlaps it.
\* That it "must occur exactly once" (fixture_build.py:5) is more than str.count tells: the quote
\* "aa" is accepted in "aaa".  (span)
QuotesStandForOnePlace == \A b \in past : Placed(b.out)

\* The version of a scene pins its text: what two builds call the same version of the same scene
\* has the same content, whatever was edited between them.  (scene_version; ids.py)
SceneVersionPinsText ==
  \A b, c \in past :
    \A n \in b.out.manuscript.nodes, m \in c.out.manuscript.nodes :
      n.kind = "scene" /\ m.kind = "scene" /\ n.version_id = m.version_id => n.content = m.content

\* A build does not depend on the line ends of its scenes: offsets, hashes and versions are those
\* of the text with every line end an LF.  (read_text and replace in __init__)
LineEndingsInvisible ==
  \A b, c \in past :
    c.read.def = b.read.def /\ c.read.raw = [f \in Files |-> ToCrlf(b.read.raw[f])] => c.out = b.out

\* "Any line-ending translation invalidates every content_sha256 and makes the golden fixtures fail
\* on checkout" (.gitattributes:3): when a checkout has changed a file, a rebuild gives other hashes
\* than the build before it did.
TranslationInvalidates ==
  \A b, c \in past :
    /\ c.read.def = b.read.def
    /\ c.read.raw = [f \in Files |-> ToCrlf(b.read.raw[f])] /\ c.read.raw # b.read.raw
    => Hashes(c.out) # Hashes(b.out)

\* With at most 99 scenes, the position keys put the book first and the scenes in the order of the
\* definition.  (manuscript)
KeysFollowScenes ==
  \A b \in past :
    LET scenes == b.read.def.scenes
        nodes  == b.out.manuscript.nodes
    IN  Len(scenes) <= 99 =>
          \A i \in DOMAIN scenes :
            \E n \in nodes :
              /\ n.logical_id = scenes[i].id /\ n.kind = "scene"
              /\ Cardinality({m \in nodes : LexLess(m.position_key, n.position_key)}) = i

\* The inductive invariant: an artifact, once built, is the one that the sources read give, and
\* what those sources had to satisfy for it was satisfied.  The text of the scenes is read for all
\* of them, so that what one artifact cites is what another one holds.
IInv ==
  /\ pc \in {"idle", "manuscript", "plans", "state", "findings", "context_gold", "impact_gold"}
  /\ DOMAIN out = DOMAIN NotBuilt
  /\ pc # "idle" => DOMAIN text = SceneIds
  /\ pc \notin {"idle", "manuscript"} => out.manuscript = Manuscript
  /\ pc \notin {"idle", "manuscript", "plans"} => out.plans = Plans
  /\ pc \in {"findings", "context_gold", "impact_gold"} => out.state = State /\ StateOk
  /\ pc \in {"context_gold", "impact_gold"} => out.findings = Findings /\ FindingsOk
  /\ pc = "impact_gold" => out.context_gold = ContextGold /\ ContextGoldOk
  /\ EvidenceResolves /\ TargetsExist /\ QuotesStandForOnePlace

=============================================================================
