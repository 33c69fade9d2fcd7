-------------------------- MODULE FixtureBuildProofs --------------------------
(***************************************************************************)
(* Proofs about FixtureBuild, for every set of definitions and of texts.   *)
(***************************************************************************)
EXTENDS FixtureBuild, LexOrderProofs, FiniteSetTheorems

\* A quote that was counted once occurs where str.index says, and not before.  (span)
LEMMA IndexOccurs ==
  ASSUME NEW t, NEW q, CountedOnce(t, q)
  PROVE  /\ Index(t, q) \in Occurrences(t, q)
         /\ \A j \in Occurrences(t, q) : Index(t, q) <= j
<1>1. Occurrences(t, q) # {} /\ Occurrences(t, q) \subseteq Nat
  BY DEF CountedOnce, Occurrences
<1>2. \E i \in Occurrences(t, q) : \A j \in Occurrences(t, q) : i <= j
  BY <1>1, LeastNatural
<1> QED BY <1>2 DEF Index

\* The span of a citation is found in the manuscript built from the same text.
LEMMA SpanResolves ==
  ASSUME NEW c, Quotable(c)
  PROVE  \E n \in Manuscript.nodes :
           /\ n.logical_id = Span(c).source.logical_id
           /\ n.version_id = Span(c).source.version_id
           /\ SubSeq(n.content, Span(c).start + 1, Span(c).end) = Span(c).content_sha256
           /\ \A i \in Occurrences(n.content, Span(c).content_sha256) :
                i = Span(c).start \/ (Span(c).start < i /\ i < Span(c).end)
<1>1. PICK i \in DOMAIN def.scenes : def.scenes[i].id = c.scene
  BY DEF Quotable, SceneIds
<1>2. /\ SceneNode(i).logical_id = c.scene
      /\ SceneNode(i).version_id = SceneVersion(c.scene)
      /\ SceneNode(i).content = text[c.scene]
  BY <1>1 DEF SceneNode
<1>3. SceneNode(i) \in Manuscript.nodes
  BY DEF Manuscript
<1>4. /\ Index(text[c.scene], c.quote) \in Occurrences(text[c.scene], c.quote)
      /\ \A j \in Occurrences(text[c.scene], c.quote) : Index(text[c.scene], c.quote) <= j
  BY IndexOccurs DEF Quotable
<1>5. SubSeq(text[c.scene], Index(text[c.scene], c.quote) + 1,
             Index(text[c.scene], c.quote) + Len(c.quote)) = c.quote
  BY <1>4 DEF Occurrences
<1>6. ASSUME NEW j \in Occurrences(text[c.scene], c.quote)
      PROVE  \/ j = Index(text[c.scene], c.quote)
             \/ /\ Index(text[c.scene], c.quote) < j
                /\ j < Index(text[c.scene], c.quote) + Len(c.quote)
  <2>1. j \in Nat /\ Index(text[c.scene], c.quote) \in Nat
    BY <1>4 DEF Occurrences
  <2>2. j < Index(text[c.scene], c.quote) + (IF c.quote = << >> THEN 1 ELSE Len(c.quote))
    BY DEF Quotable, CountedOnce
  <2>3. Index(text[c.scene], c.quote) <= j
    BY <1>4
  <2> QED BY <2>1, <2>2, <2>3
<1> QED BY <1>2, <1>3, <1>5, <1>6 DEF Span, SceneRef, Ref

\* The artifacts stay the same while what was read does.  (They are not functions of the sources on
\* disk, which may change meanwhile.)
LEMMA SameRead ==
  ASSUME UNCHANGED <<read, text>>
  PROVE  /\ Manuscript' = Manuscript
         /\ Plans' = Plans
         /\ State' = State
         /\ Findings' = Findings
         /\ ContextGold' = ContextGold
  BY DEF Manuscript, Plans, State, Findings, ContextGold, Meta, BookRef, Ref, revision_id, DetId,
         BookNode, SceneNode, SceneVersion, def, SceneRef, Span, StateRecord, Finding, ResolvedRef,
         SceneIds, RecordKind, ContextCase, ContextTarget

\* A reference that resolves names something of its kind in the artifacts of the same sources.
LEMMA ResolvedExists ==
  ASSUME NEW id, Resolves(id), NEW o,
         o.manuscript = Manuscript, o.plans = Plans, o.state = State,
         o.findings = Findings, o.context_gold = ContextGold
  PROVE  Exists(def, o, ResolvedRef(id))
<1>1. CASE id = "book"
  <2>1. BookNode \in o.manuscript.nodes
    BY DEF Manuscript
  <2>2. ResolvedRef(id) = BookRef
    BY <1>1 DEF ResolvedRef
  <2> QED BY <2>1, <2>2 DEF Exists, InManuscript, BookRef, Ref, BookNode
<1>2. CASE id # "book" /\ id \in SceneIds
  <2>1. PICK i \in DOMAIN def.scenes : def.scenes[i].id = id
    BY <1>2 DEF SceneIds
  <2>2. SceneNode(i) \in o.manuscript.nodes
    BY DEF Manuscript
  <2>3. ResolvedRef(id) = SceneRef(id)
    BY <1>2 DEF ResolvedRef
  <2> QED BY <2>1, <2>2, <2>3 DEF Exists, InManuscript, SceneRef, Ref, SceneNode
<1>3. CASE id \notin SceneIds \cup {"book"} /\ id \in Ids(def.state_records)
  <2> DEFINE r == CHOOSE x \in def.state_records : x.id = id
  <2>1. r \in def.state_records /\ r.id = id
    BY <1>3 DEF Ids
  <2>2. RecordKind(id) = r.kind /\ r.kind \in DOMAIN RecordKindToResource
    BY <1>3 DEF RecordKind, Resolves
  <2> HIDE DEF r
  <2>3. ResolvedRef(id) = Ref(id, RecordKindToResource[r.kind], NoVersion)
    BY <1>3, <2>2 DEF ResolvedRef
  <2>4. RecordKindToResource[r.kind]
          \in {"assertion", "state_event", "relationship", "knowledge", "thread", "world_rule"}
    BY <2>2 DEF RecordKindToResource
  <2>5. \E x \in o.state.records : x.record_id = id /\ x.kind = r.kind
    <3>1. StateRecord(r) \in o.state.records
      BY <2>1 DEF State
    <3>2. StateRecord(r).record_id = id /\ StateRecord(r).kind = r.kind
      BY <2>1 DEF StateRecord
    <3> QED BY <3>1, <3>2
  <2> QED BY <2>3, <2>4, <2>5 DEF Exists, Ref
<1>4. CASE id \notin SceneIds \cup {"book"} /\ id \notin Ids(def.state_records)
  <2> DEFINE kind == IF id \in Ids(def.plans) THEN "plan"
                     ELSE IF id \in Ids(def.gold_findings) THEN "finding"
                     ELSE IF id \in def.derived_nodes THEN "summary"
                     ELSE IF id \in Ids(def.context_gold) THEN "context_packet"
                     ELSE "entity"
  <2>1. ResolvedRef(id) = Ref(id, kind, NoVersion)
    BY <1>4 DEF ResolvedRef
  <2>2. Ref(id, kind, NoVersion).kind = kind /\ Ref(id, kind, NoVersion).logical_id = id
    BY DEF Ref
  <2>3. id \in Ids(def.plans) => id \in o.plans.items
    BY DEF Plans
  <2>4. id \in Ids(def.gold_findings) => \E f \in o.findings.findings : f.finding_id = id
    <3> SUFFICES ASSUME NEW f \in def.gold_findings, f.id = id
                 PROVE  \E g \in o.findings.findings : g.finding_id = id
      BY DEF Ids
    <3>1. Finding(f) \in o.findings.findings
      BY DEF Findings
    <3>2. Finding(f).finding_id = id
      BY DEF Finding
    <3> QED BY <3>1, <3>2
  <2>5. id \in Ids(def.context_gold) => \E c \in o.context_gold.cases : c.query.query_id = id
    <3> SUFFICES ASSUME NEW q \in def.context_gold, q.id = id
                 PROVE  \E c \in o.context_gold.cases : c.query.query_id = id
      BY DEF Ids
    <3>1. ContextCase(q) \in o.context_gold.cases
      BY DEF ContextGold
    <3>2. ContextCase(q).query.query_id = id
      BY DEF ContextCase
    <3> QED BY <3>1, <3>2
  <2>6. \/ id \in Ids(def.plans) \/ id \in Ids(def.gold_findings) \/ id \in def.derived_nodes
        \/ id \in Ids(def.context_gold) \/ \E e \in Entities : id = EntityId(e)
    BY <1>4 DEF Resolves
  <2> QED BY <2>1, <2>2, <2>3, <2>4, <2>5, <2>6 DEF Exists
<1> QED BY <1>1, <1>2, <1>3, <1>4

(***************************************************************************)
(* What the six artifacts cite, when they come from one reading.           *)
(***************************************************************************)
Complete(o) ==
  /\ o.manuscript = Manuscript /\ o.plans = Plans /\ o.state = State
  /\ o.findings = Findings /\ o.context_gold = ContextGold /\ o.impact_gold = ImpactGold
  /\ StateOk /\ FindingsOk /\ ContextGoldOk /\ ImpactGoldOk

\* Every span of the artifacts is that of a citation that could be located.
LEMMA SpansAreQuotable ==
  ASSUME NEW o, Complete(o), NEW e \in Spans(o)
  PROVE  \E c : Quotable(c) /\ e = Span(c)
<1>1. CASE \E r \in o.state.records : e \in r.evidence
  <2>1. PICK r \in def.state_records : e \in StateRecord(r).evidence
    BY <1>1 DEF Complete, State
  <2>2. PICK c \in r.evidence : e = Span(c)
    BY <2>1 DEF StateRecord
  <2> QED BY <2>2 DEF Complete, StateOk
<1>2. CASE \E f \in o.findings.findings : e \in {f.primary_span} \cup f.supporting_evidence
  <2>1. PICK f \in def.gold_findings : e \in {Finding(f).primary_span} \cup Finding(f).supporting_evidence
    BY <1>2 DEF Complete, Findings
  <2>2. PICK c \in {f.primary} \cup f.supporting : e = Span(c)
    BY <2>1 DEF Finding
  <2> QED BY <2>2 DEF Complete, FindingsOk
<1>3. CASE \E t \in Targets(o) : "span" \in DOMAIN t /\ e = t.span
  <2>1. PICK t \in Targets(o) : "span" \in DOMAIN t /\ e = t.span
    BY <1>3
  <2>2. PICK q \in def.context_gold : t \in ContextCase(q).mandatory \cup ContextCase(q).forbidden
    BY DEF Targets, Complete, ContextGold
  <2>3. PICK c \in q.mandatory \cup q.forbidden : t = ContextTarget(c)
    BY <2>2 DEF ContextCase
  <2>4. "quote" \in DOMAIN c
    BY <2>1, <2>3 DEF ContextTarget
  <2>5. Quotable(c)
    BY <2>4 DEF Complete, ContextGoldOk, TargetOk
  <2>6. e = Span(c)
    BY <2>1, <2>3, <2>4 DEF ContextTarget
  <2> QED BY <2>5, <2>6
<1> DEFINE A == UNION {r.evidence : r \in o.state.records}
           B == UNION {{f.primary_span} \cup f.supporting_evidence : f \in o.findings.findings}
           C == {t.span : t \in {u \in Targets(o) : "span" \in DOMAIN u}}
<1>4. e \in A \/ e \in B \/ e \in C
  <2>1. Spans(o) = A \cup B \cup C
    BY DEF Spans
  <2> HIDE DEF A, B, C
  <2> QED BY <2>1
<1>5. e \in A => \E r \in o.state.records : e \in r.evidence
  OBVIOUS
<1>6. e \in B => \E f \in o.findings.findings : e \in {f.primary_span} \cup f.supporting_evidence
  OBVIOUS
<1>7. e \in C => \E t \in Targets(o) : "span" \in DOMAIN t /\ e = t.span
  OBVIOUS
<1> HIDE DEF A, B, C
<1> QED BY <1>1, <1>2, <1>3, <1>4, <1>5, <1>6, <1>7

\* Every reference of the artifacts is that of an id that resolves.
LEMMA RefsAreResolved ==
  ASSUME NEW o, Complete(o), NEW ref \in Refs(o)
  PROVE  \E id : Resolves(id) /\ ref = ResolvedRef(id)
<1>1. CASE \E f \in o.findings.findings : ref \in f.dependencies
  <2>1. PICK f \in def.gold_findings : ref \in Finding(f).dependencies
    BY <1>1 DEF Complete, Findings
  <2>2. PICK d \in f.dependencies : ref = ResolvedRef(d)
    BY <2>1 DEF Finding
  <2> QED BY <2>2 DEF Complete, FindingsOk
<1>2. CASE \E c \in o.context_gold.cases : ref = c.query.target
  <2>1. PICK q \in def.context_gold : ref = ContextCase(q).query.target
    BY <1>2 DEF Complete, ContextGold
  <2>2. ref = ResolvedRef(q.target)
    BY <2>1 DEF ContextCase
  <2> QED BY <2>2 DEF Complete, ContextGoldOk
<1>3. CASE \E t \in Targets(o) : "ref" \in DOMAIN t /\ ref = t.ref
  <2>1. PICK t \in Targets(o) : "ref" \in DOMAIN t /\ ref = t.ref
    BY <1>3
  <2>2. PICK q \in def.context_gold : t \in ContextCase(q).mandatory \cup ContextCase(q).forbidden
    BY DEF Targets, Complete, ContextGold
  <2>3. PICK c \in q.mandatory \cup q.forbidden : t = ContextTarget(c)
    BY <2>2 DEF ContextCase
  <2>4. "quote" \notin DOMAIN c
    BY <2>1, <2>3 DEF ContextTarget
  <2>5. TargetOk(c)
    BY DEF Complete, ContextGoldOk
  <2>6. CASE "record" \in DOMAIN c
    BY <2>1, <2>3, <2>4, <2>5, <2>6 DEF ContextTarget, TargetOk
  <2>7. CASE "record" \notin DOMAIN c
    BY <2>1, <2>3, <2>4, <2>5, <2>7 DEF ContextTarget, TargetOk
  <2> QED BY <2>6, <2>7
<1>4. CASE \E c \in o.impact_gold.cases : ref \in c.expected
  <2>1. PICK s \in def.impact_gold : ref \in ImpactCase(s).expected
    BY <1>4 DEF Complete, ImpactGold
  <2>2. PICK x \in s.expected : ref = ResolvedRef(x)
    BY <2>1 DEF ImpactCase
  <2> QED BY <2>2 DEF Complete, ImpactGoldOk
<1> DEFINE A == UNION {f.dependencies : f \in o.findings.findings}
           B == {c.query.target : c \in o.context_gold.cases}
           C == {t.ref : t \in {u \in Targets(o) : "ref" \in DOMAIN u}}
           D == UNION {c.expected : c \in o.impact_gold.cases}
<1>5. ref \in A \/ ref \in B \/ ref \in C \/ ref \in D
  <2>1. Refs(o) = A \cup B \cup C \cup D
    BY DEF Refs
  <2> HIDE DEF A, B, C, D
  <2> QED BY <2>1
<1>6. ref \in A => \E f \in o.findings.findings : ref \in f.dependencies
  OBVIOUS
<1>7. ref \in B => \E c \in o.context_gold.cases : ref = c.query.target
  OBVIOUS
<1>8. ref \in C => \E t \in Targets(o) : "ref" \in DOMAIN t /\ ref = t.ref
  OBVIOUS
<1>9. ref \in D => \E c \in o.impact_gold.cases : ref \in c.expected
  OBVIOUS
<1> HIDE DEF A, B, C, D
<1> QED BY <1>1, <1>2, <1>3, <1>4, <1>5, <1>6, <1>7, <1>8, <1>9

\* An operation that has a version to start from starts from a scene that holds its quote.
LEMMA OperationResolves ==
  ASSUME NEW o, Complete(o), NEW op \in Operations(o), "before_version" \in DOMAIN op
  PROVE  \E n \in o.manuscript.nodes :
           /\ n.logical_id = op.logical_source_id
           /\ n.version_id = op.before_version
           /\ "before_hash" \in DOMAIN op => Occurrences(n.content, op.before_hash) # {}
<1>1. PICK s \in def.impact_gold : op \in ImpactCase(s).change_set.operations
  BY DEF Operations, Complete, ImpactGold
<1>2. PICK x \in s.operations : op = Operation(s, x)
  BY <1>1 DEF ImpactCase
<1>3. OperationOk(x)
  BY DEF Complete, ImpactGoldOk
<1>4. ASSUME x.scene \in SceneIds
      PROVE  \E n \in o.manuscript.nodes :
               /\ n.logical_id = x.scene /\ n.version_id = SceneVersion(x.scene)
               /\ n.content = text[x.scene]
  <2>1. PICK i \in DOMAIN def.scenes : def.scenes[i].id = x.scene
    BY <1>4 DEF SceneIds
  <2>2. SceneNode(i) \in o.manuscript.nodes
    BY DEF Complete, Manuscript
  <2> QED BY <2>1, <2>2 DEF SceneNode
<1>5. CASE "quote" \in DOMAIN x
  <2>1. /\ op.logical_source_id = x.scene
        /\ op.before_version = SceneVersion(x.scene)
        /\ op.before_hash = x.quote
    BY <1>2, <1>5 DEF Operation, Span
  <2>2. x.scene \in SceneIds /\ Occurrences(text[x.scene], x.quote) # {}
    BY <1>3, <1>5 DEF OperationOk, Quotable, CountedOnce
  <2> QED BY <1>4, <2>1, <2>2
<1>6. CASE "quote" \notin DOMAIN x /\ "anchor_quote" \in DOMAIN x
  <2>1. /\ op.logical_source_id = x.scene
        /\ op.before_version = SceneVersion(x.scene)
        /\ "before_hash" \notin DOMAIN op
    BY <1>2, <1>6 DEF Operation
  <2>2. x.scene \in SceneIds
    BY <1>3, <1>6 DEF OperationOk, Quotable
  <2> QED BY <1>4, <2>1, <2>2
<1>7. CASE "quote" \notin DOMAIN x /\ "anchor_quote" \notin DOMAIN x
  BY <1>2, <1>7 DEF Operation
<1> QED BY <1>5, <1>6, <1>7

\* The citations and references of one build, together.
LEMMA BuildIsConsistent ==
  ASSUME NEW o, Complete(o)
  PROVE  Cited(o) /\ Placed(o) /\ \A ref \in Refs(o) : Exists(def, o, ref)
<1>1. ASSUME NEW e \in Spans(o)
      PROVE  \E n \in o.manuscript.nodes :
               /\ n.logical_id = e.source.logical_id
               /\ n.version_id = e.source.version_id
               /\ SubSeq(n.content, e.start + 1, e.end) = e.content_sha256
               /\ \A i \in Occurrences(n.content, e.content_sha256) :
                    i = e.start \/ (e.start < i /\ i < e.end)
  <2>1. PICK c : Quotable(c) /\ e = Span(c)
    BY SpansAreQuotable
  <2>2. o.manuscript = Manuscript
    BY DEF Complete
  <2> QED BY <2>1, <2>2, SpanResolves
<1>2. ASSUME NEW ref \in Refs(o)
      PROVE  Exists(def, o, ref)
  <2>1. PICK id : Resolves(id) /\ ref = ResolvedRef(id)
    BY RefsAreResolved
  <2> QED BY <2>1, ResolvedExists DEF Complete
<1>3. Cited(o)
  BY <1>1, OperationResolves DEF Cited, InManuscript
<1>4. Placed(o)
  BY <1>1 DEF Placed, InManuscript
<1> QED BY <1>2, <1>3, <1>4

(***************************************************************************)
(* The invariant.                                                          *)
(***************************************************************************)
\* Nothing has been built at first.
LEMMA InitIInv == Init => IInv
<1> SUFFICES ASSUME Init PROVE IInv
  OBVIOUS
<1> QED BY DEF Init, IInv, NotBuilt, EvidenceResolves, TargetsExist, QuotesStandForOnePlace

\* What is known of the artifacts stays known while the sources read stay.
LEMMA SameChecks ==
  ASSUME UNCHANGED <<read, text>>
  PROVE  /\ StateOk' = StateOk
         /\ FindingsOk' = FindingsOk
         /\ ContextGoldOk' = ContextGoldOk
         /\ SceneIds' = SceneIds
  BY DEF StateOk, FindingsOk, ContextGoldOk, TargetOk, Quotable, CountedOnce, Resolves, RecordKind,
         SceneIds, def

\* What the completed builds satisfy stays so while none is added.
LEMMA SamePast ==
  ASSUME EvidenceResolves, TargetsExist, QuotesStandForOnePlace, UNCHANGED past
  PROVE  EvidenceResolves' /\ TargetsExist' /\ QuotesStandForOnePlace'
  BY DEF EvidenceResolves, TargetsExist, QuotesStandForOnePlace

\* Every step preserves the invariant: one case for each method, which adds its artifact.
LEMMA NextIInv == IInv /\ [Next]_vars => IInv'
<1> SUFFICES ASSUME IInv, [Next]_vars PROVE IInv'
  OBVIOUS
<1>1. CASE Read
  <2>1. DOMAIN text' = SceneIds'
    BY <1>1 DEF Read, SceneText, SceneIds, def
  <2>2. past' = past /\ pc' = "manuscript" /\ DOMAIN out' = DOMAIN NotBuilt
    BY <1>1 DEF Read
  <2>3. EvidenceResolves' /\ TargetsExist' /\ QuotesStandForOnePlace'
    BY <2>2, SamePast DEF IInv
  <2> QED BY <2>1, <2>2, <2>3 DEF IInv
<1>2. CASE BuildManuscript
  <2>1. UNCHANGED <<read, text, past>> /\ pc = "manuscript" /\ pc' = "plans"
    BY <1>2 DEF BuildManuscript
  <2>2. DOMAIN out' = DOMAIN NotBuilt /\ out'.manuscript = Manuscript
    BY <1>2 DEF BuildManuscript, IInv, NotBuilt
  <2>3. EvidenceResolves' /\ TargetsExist' /\ QuotesStandForOnePlace'
    BY <2>1, SamePast DEF IInv
  <2> QED BY <2>1, <2>2, <2>3, SameRead, SameChecks DEF IInv
<1>3. CASE BuildPlans
  <2>1. UNCHANGED <<read, text, past>> /\ pc = "plans" /\ pc' = "state"
    BY <1>3 DEF BuildPlans
  <2>2. DOMAIN out' = DOMAIN NotBuilt /\ out'.plans = Plans /\ out'.manuscript = out.manuscript
    BY <1>3 DEF BuildPlans, IInv, NotBuilt
  <2>3. EvidenceResolves' /\ TargetsExist' /\ QuotesStandForOnePlace'
    BY <2>1, SamePast DEF IInv
  <2> QED BY <2>1, <2>2, <2>3, SameRead, SameChecks DEF IInv
<1>4. CASE BuildState
  <2>1. UNCHANGED <<read, text, past>> /\ pc = "state" /\ pc' = "findings" /\ StateOk
    BY <1>4 DEF BuildState
  <2>2. /\ DOMAIN out' = DOMAIN NotBuilt /\ out'.state = State
        /\ out'.manuscript = out.manuscript /\ out'.plans = out.plans
    BY <1>4 DEF BuildState, IInv, NotBuilt
  <2>3. EvidenceResolves' /\ TargetsExist' /\ QuotesStandForOnePlace'
    BY <2>1, SamePast DEF IInv
  <2> QED BY <2>1, <2>2, <2>3, SameRead, SameChecks DEF IInv
<1>5. CASE BuildFindings
  <2>1. UNCHANGED <<read, text, past>> /\ pc = "findings" /\ pc' = "context_gold" /\ FindingsOk
    BY <1>5 DEF BuildFindings
  <2>2. /\ DOMAIN out' = DOMAIN NotBuilt /\ out'.findings = Findings
        /\ out'.manuscript = out.manuscript /\ out'.plans = out.plans /\ out'.state = out.state
    BY <1>5 DEF BuildFindings, IInv, NotBuilt
  <2>3. EvidenceResolves' /\ TargetsExist' /\ QuotesStandForOnePlace'
    BY <2>1, SamePast DEF IInv
  <2> QED BY <2>1, <2>2, <2>3, SameRead, SameChecks DEF IInv
<1>6. CASE BuildContextGold
  <2>1. UNCHANGED <<read, text, past>> /\ pc = "context_gold" /\ pc' = "impact_gold" /\ ContextGoldOk
    BY <1>6 DEF BuildContextGold
  <2>2. /\ DOMAIN out' = DOMAIN NotBuilt /\ out'.context_gold = ContextGold
        /\ out'.manuscript = out.manuscript /\ out'.plans = out.plans /\ out'.state = out.state
        /\ out'.findings = out.findings
    BY <1>6 DEF BuildContextGold, IInv, NotBuilt
  <2>3. EvidenceResolves' /\ TargetsExist' /\ QuotesStandForOnePlace'
    BY <2>1, SamePast DEF IInv
  <2> QED BY <2>1, <2>2, <2>3, SameRead, SameChecks DEF IInv
<1>7. CASE BuildImpactGold
  <2>1. pc = "impact_gold" /\ pc' = "idle" /\ ImpactGoldOk
    BY <1>7 DEF BuildImpactGold
  <2>2. past' = past \cup {[read |-> read, out |-> out']}
    BY <1>7 DEF BuildImpactGold
  <2>3. /\ DOMAIN out' = DOMAIN NotBuilt /\ out'.impact_gold = ImpactGold
        /\ out'.manuscript = out.manuscript /\ out'.plans = out.plans /\ out'.state = out.state
        /\ out'.findings = out.findings /\ out'.context_gold = out.context_gold
    BY <1>7 DEF BuildImpactGold, IInv, NotBuilt
  <2> DEFINE o == out'
  <2>4. Complete(o)
    BY <2>1, <2>3 DEF IInv, Complete
  <2> HIDE DEF o
  <2>5. EvidenceResolves'
    BY <2>2, <2>4, BuildIsConsistent DEF IInv, EvidenceResolves, o
  <2>6. TargetsExist'
    BY <2>2, <2>4, BuildIsConsistent DEF IInv, TargetsExist, o, def
  <2>7. QuotesStandForOnePlace'
    BY <2>2, <2>4, BuildIsConsistent DEF IInv, QuotesStandForOnePlace, o
  <2> QED BY <2>1, <2>3, <2>5, <2>6, <2>7 DEF IInv
<1>8. CASE Raise
  <2>1. UNCHANGED <<out, past>> /\ pc' = "idle"
    BY <1>8 DEF Raise
  <2> QED BY <2>1, SamePast DEF IInv
<1>9. CASE UNCHANGED <<read, text, out, pc, past>>
  BY <1>9, SamePast, SameRead, SameChecks DEF IInv
<1>10. EditScene \/ EditDef \/ Translate \/ UNCHANGED vars => UNCHANGED <<read, text, out, pc, past>>
  BY DEF EditScene, EditDef, Translate, Edit, vars
<1> QED BY <1>1, <1>2, <1>3, <1>4, <1>5, <1>6, <1>7, <1>8, <1>9, <1>10 DEF Next

\* While a book is built, the artifacts made so far are those of the sources that were read, for
\* all definitions and texts, whatever the author does meanwhile.  (FixtureBuilder)
THEOREM BuildInvariant == Spec => []IInv
<1> QED BY InitIInv, NextIInv, PTL DEF Spec

\* Every citation of every completed build resolves in its own manuscript.  (span)
THEOREM CitationsResolve == Spec => []EvidenceResolves
<1>1. IInv => EvidenceResolves
  BY DEF IInv
<1> QED BY <1>1, BuildInvariant, PTL

\* Every reference of every completed build names something that the build holds.  (resolve_target)
THEOREM ReferencesResolve == Spec => []TargetsExist
<1>1. IInv => TargetsExist
  BY DEF IInv
<1> QED BY <1>1, BuildInvariant, PTL

\* Every quote of every completed build stands for one place in its scene.  (span)
THEOREM QuotesArePlaced == Spec => []QuotesStandForOnePlace
<1>1. IInv => QuotesStandForOnePlace
  BY DEF IInv
<1> QED BY <1>1, BuildInvariant, PTL

\* Two triples that are equal have the same last part.
LEMMA EqualTriples ==
  ASSUME NEW a, NEW b, NEW c, NEW d, NEW e, NEW f, <<a, b, c>> = <<d, e, f>>
  PROVE  c = f
<1>1. <<a, b, c>>[3] = c /\ <<d, e, f>>[3] = f
  OBVIOUS
<1> QED BY <1>1

(***************************************************************************)
(* The versions of scenes.                                                 *)
(***************************************************************************)
\* In what was built, the version of a scene is made of its text.
Versioned(m) == \A n \in m.nodes : n.kind = "scene" => \E f : n.version_id = <<f, n.logical_id, n.content>>

VersionInv == IInv /\ \A b \in past : Versioned(b.out.manuscript)

\* The manuscript of the present build has versions made of texts.
LEMMA ManuscriptVersioned == Versioned(Manuscript)
<1> SUFFICES ASSUME NEW n \in Manuscript.nodes, n.kind = "scene"
             PROVE  \E f : n.version_id = <<f, n.logical_id, n.content>>
  BY DEF Versioned
<1>1. n = BookNode \/ \E i \in DOMAIN def.scenes : n = SceneNode(i)
  BY DEF Manuscript
<1>2. n # BookNode
  BY DEF BookNode
<1>3. PICK i \in DOMAIN def.scenes : n = SceneNode(i)
  BY <1>1, <1>2
<1>4. n.version_id = <<def.fixture_id, n.logical_id, n.content>>
  BY <1>3 DEF SceneNode, SceneVersion, DetId
<1> QED BY <1>4

\* What two builds call the same version of a scene has the same text, for all definitions, texts
\* and edits.  (scene_version)
THEOREM SceneVersionsPinText == Spec => []SceneVersionPinsText
<1>1. Init => VersionInv
  BY InitIInv DEF Init, VersionInv
<1>2. VersionInv /\ [Next]_vars => VersionInv'
  <2> SUFFICES ASSUME VersionInv, [Next]_vars PROVE \A b \in past' : Versioned(b.out.manuscript)
    BY NextIInv DEF VersionInv
  <2>1. CASE BuildImpactGold
    <3>1. past' = past \cup {[read |-> read, out |-> out']}
      BY <2>1 DEF BuildImpactGold
    <3>2. out'.manuscript = Manuscript
      BY <2>1 DEF BuildImpactGold, VersionInv, IInv, NotBuilt
    <3> QED BY <3>1, <3>2, ManuscriptVersioned DEF VersionInv
  <2>2. CASE past' = past
    BY <2>2 DEF VersionInv
  <2>3. BuildImpactGold \/ past' = past
    BY DEF Next, vars, Read, BuildManuscript, BuildPlans, BuildState, BuildFindings,
           BuildContextGold, Raise, EditScene, EditDef, Translate, Edit
  <2> QED BY <2>1, <2>2, <2>3
<1>3. VersionInv => SceneVersionPinsText
  <2> SUFFICES ASSUME VersionInv, NEW b \in past, NEW c \in past,
                      NEW n \in b.out.manuscript.nodes, NEW m \in c.out.manuscript.nodes,
                      n.kind = "scene", m.kind = "scene", n.version_id = m.version_id
               PROVE  n.content = m.content
    BY DEF SceneVersionPinsText
  <2>1. PICK f : n.version_id = <<f, n.logical_id, n.content>>
    BY DEF VersionInv, Versioned
  <2>2. PICK g : m.version_id = <<g, m.logical_id, m.content>>
    BY DEF VersionInv, Versioned
  <2>3. <<f, n.logical_id, n.content>> = <<g, m.logical_id, m.content>>
    BY <2>1, <2>2, Zenon
  <2> QED BY <2>3, EqualTriples
<1> QED BY <1>1, <1>2, <1>3, PTL DEF Spec

(***************************************************************************)
(* Position keys.                                                          *)
(***************************************************************************)
\* Up to 99 the position key of scene i is the two digits of i and a zero.
LEMMA KeyDigits ==
  ASSUME NEW i \in 1..99
  PROVE  PositionKey(i) = <<i \div 10, i % 10, 0>>
<1>1. i * 10 < 1000 /\ (i * 10) \div 100 = i \div 10
  OBVIOUS
<1>2. (i * 10) \div 10 = i /\ (i * 10) % 10 = 0
  OBVIOUS
<1> QED BY <1>1, <1>2 DEF PositionKey

\* Three digits are in order if the numbers are: two of them that are not smaller come later.
LEMMA LexTriples ==
  ASSUME NEW a \in Nat, NEW b \in Nat, NEW c \in Nat, NEW d \in Nat
  PROVE  LexLess(<<a, b, 0>>, <<c, d, 0>>) <=> a < c \/ (a = c /\ b < d)
<1> DEFINE k == <<a, b, 0>>
           l == <<c, d, 0>>
<1>1. Len(k) = 3 /\ Len(l) = 3 /\ k[1] = a /\ k[2] = b /\ k[3] = 0 /\ l[1] = c /\ l[2] = d /\ l[3] = 0
  OBVIOUS
<1> HIDE DEF k, l
<1>2. LexLess(k, l) => a < c \/ (a = c /\ b < d)
  <2> SUFFICES ASSUME NEW i \in 1..3, \A j \in 1..(i - 1) : k[j] = l[j], k[i] < l[i]
               PROVE  a < c \/ (a = c /\ b < d)
    BY <1>1 DEF LexLess
  <2> QED BY <1>1
<1>3. ASSUME a < c PROVE LexLess(k, l)
  <2>1. 1 \in 1..Len(l) /\ (\A j \in 1..(1 - 1) : j <= Len(k) /\ k[j] = l[j]) /\ k[1] < l[1]
    BY <1>1, <1>3
  <2> QED BY <2>1 DEF LexLess
<1>4. ASSUME a = c, b < d PROVE LexLess(k, l)
  <2>1. 2 \in 1..Len(l) /\ (\A j \in 1..(2 - 1) : j <= Len(k) /\ k[j] = l[j]) /\ k[2] < l[2]
    BY <1>1, <1>4
  <2> QED BY <2>1 DEF LexLess
<1> QED BY <1>2, <1>3, <1>4 DEF k, l

\* The keys of scenes are ordered as the scenes are, and the book's comes first.
LEMMA KeysInOrder ==
  ASSUME NEW i \in 1..99
  PROVE  /\ \A j \in 1..99 : LexLess(PositionKey(j), PositionKey(i)) <=> j < i
         /\ LexLess(<<0, 0, 0>>, PositionKey(i))
<1>1. \A j \in 1..99 : j \div 10 \in Nat /\ j % 10 \in 0..9 /\ j = (10 * (j \div 10)) + (j % 10)
  BY SMT
<1>2. ASSUME NEW j \in 1..99 PROVE LexLess(PositionKey(j), PositionKey(i)) <=> j < i
  <2> DEFINE a == j \div 10
             b == j % 10
             c == i \div 10
             d == i % 10
  <2>1. /\ a \in Nat /\ b \in 0..9 /\ j = 10 * a + b
        /\ c \in Nat /\ d \in 0..9 /\ i = 10 * c + d
    BY <1>1
  <2>2. PositionKey(j) = <<a, b, 0>> /\ PositionKey(i) = <<c, d, 0>>
    BY KeyDigits
  <2> HIDE DEF a, b, c, d
  <2>3. LexLess(PositionKey(j), PositionKey(i)) <=> a < c \/ (a = c /\ b < d)
    BY <2>1, <2>2, LexTriples
  <2>4. j < i <=> a < c \/ (a = c /\ b < d)
    BY <2>1
  <2> QED BY <2>3, <2>4
<1>3. LexLess(<<0, 0, 0>>, PositionKey(i))
  <2> DEFINE c == i \div 10
             d == i % 10
  <2>1. c \in Nat /\ d \in 0..9 /\ i = 10 * c + d
    BY <1>1
  <2>2. PositionKey(i) = <<c, d, 0>>
    BY KeyDigits
  <2> HIDE DEF c, d
  <2>3. 0 < c \/ (0 = c /\ 0 < d)
    BY <2>1
  <2> QED BY <2>1, <2>2, <2>3, LexTriples
<1> QED BY <1>2, <1>3

\* The position keys of a manuscript with these scenes follow their order.
KeyOrder(scenes, nodes) ==
  Len(scenes) <= 99 =>
    \A i \in DOMAIN scenes :
      \E n \in nodes :
        /\ n.logical_id = scenes[i].id /\ n.kind = "scene"
        /\ Cardinality({m \in nodes : LexLess(m.position_key, n.position_key)}) = i

\* What is at most n is at most 99, if n is.
LEMMA UpTo99 ==
  ASSUME NEW n \in Nat, n <= 99, NEW i \in 1..n
  PROVE  i \in 1..99
OBVIOUS

\* The nodes before scene i are the book and the scenes before it, each a node of its own.
LEMMA ManuscriptKeys ==
  ASSUME NEW scenes, scenes = def.scenes, scenes \in Seq(Range(scenes))
  PROVE  KeyOrder(scenes, Manuscript.nodes)
<1> SUFFICES ASSUME Len(scenes) <= 99, NEW i \in DOMAIN scenes
             PROVE  \E n \in Manuscript.nodes :
                      /\ n.logical_id = scenes[i].id /\ n.kind = "scene"
                      /\ Cardinality({m \in Manuscript.nodes :
                                        LexLess(m.position_key, n.position_key)}) = i
  BY DEF KeyOrder
<1> DEFINE before == {m \in Manuscript.nodes : LexLess(m.position_key, SceneNode(i).position_key)}
           node(j) == IF j = 0 THEN BookNode ELSE SceneNode(j)
           f == [j \in 0..(i - 1) |-> node(j)]
<1> HIDE DEF before, node, f
<1>1. i \in 1..99 /\ DOMAIN scenes = 1..Len(scenes) /\ Len(scenes) \in Nat /\ Len(scenes) <= 99
  <2>1. DOMAIN scenes = 1..Len(scenes) /\ Len(scenes) \in Nat
    OBVIOUS
  <2>2. i \in 1..Len(scenes)
    BY <2>1, Zenon
  <2> QED BY <2>1, <2>2, UpTo99
<1>2. \A j : SceneNode(j).position_key = PositionKey(j)
  BY DEF SceneNode
<1>3. BookNode.position_key = <<0, 0, 0>>
  BY DEF BookNode
<1>4. Manuscript.nodes = {BookNode} \cup {SceneNode(j) : j \in DOMAIN scenes}
  BY DEF Manuscript
<1>5. \A j \in DOMAIN scenes : SceneNode(j) \in before <=> j < i
  <2> SUFFICES ASSUME NEW j \in DOMAIN scenes PROVE SceneNode(j) \in before <=> j < i
    OBVIOUS
  <2>1. j \in 1..99
    <3>1. j \in 1..Len(scenes)
      BY <1>1, Zenon
    <3> QED BY <3>1, <1>1, UpTo99
  <2>2. LexLess(SceneNode(j).position_key, SceneNode(i).position_key) <=> j < i
    BY <1>1, <1>2, <2>1, KeysInOrder
  <2> QED BY <1>4, <2>2 DEF before
<1>6. BookNode \in before
  <2>1. LexLess(BookNode.position_key, SceneNode(i).position_key)
    BY <1>1, <1>2, <1>3, KeysInOrder
  <2> QED BY <1>4, <2>1 DEF before
<1>7. before = {node(j) : j \in 0..(i - 1)}
  <2>1. before \subseteq {BookNode} \cup {SceneNode(j) : j \in 1..(i - 1)}
    <3> SUFFICES ASSUME NEW m \in before PROVE m = BookNode \/ \E j \in 1..(i - 1) : m = SceneNode(j)
      OBVIOUS
    <3>1. m = BookNode \/ \E j \in DOMAIN scenes : m = SceneNode(j)
      BY <1>4 DEF before
    <3> QED BY <3>1, <1>1, <1>5
  <2>2. {BookNode} \cup {SceneNode(j) : j \in 1..(i - 1)} \subseteq before
    BY <1>1, <1>5, <1>6
  <2>3. {node(j) : j \in 0..(i - 1)} = {BookNode} \cup {SceneNode(j) : j \in 1..(i - 1)}
    <3>1. 0..(i - 1) = {0} \cup 1..(i - 1) /\ 0 \notin 1..(i - 1)
      BY <1>1
    <3> QED BY <3>1 DEF node
  <2> QED BY <2>1, <2>2, <2>3
<1>8. \A j \in 0..(i - 1), l \in 0..(i - 1) : node(j) = node(l) => j = l
  <2> SUFFICES ASSUME NEW j \in 0..(i - 1), NEW l \in 0..(i - 1), j < l PROVE node(j) # node(l)
    <3>1. \A x, y \in 0..(i - 1) : x < y \/ y < x \/ x = y
      BY <1>1
    <3> QED BY <3>1
  <2>1. j \in 0..99 /\ l \in 1..99
    BY <1>1
  <2>2. LexLess(node(j).position_key, node(l).position_key)
    <3>1. CASE j = 0
      <4>1. node(j) = BookNode /\ node(l) = SceneNode(l)
        BY <2>1, <3>1 DEF node
      <4> QED BY <4>1, <2>1, <1>2, <1>3, KeysInOrder
    <3>2. CASE j # 0
      <4>1. j \in 1..99
        BY <2>1, <3>2
      <4>2. node(j) = SceneNode(j) /\ node(l) = SceneNode(l)
        BY <2>1, <3>2 DEF node
      <4> QED BY <4>1, <4>2, <2>1, <1>2, KeysInOrder
    <3> QED BY <3>1, <3>2
  <2>3. ~LexLess(node(l).position_key, node(l).position_key)
    <3>1. node(l) = SceneNode(l)
      BY <2>1 DEF node
    <3>2. PositionKey(l) \in Seq(Nat)
      <4>1. PositionKey(l) = <<l \div 10, l % 10, 0>> /\ l \div 10 \in Nat /\ l % 10 \in Nat
        <5>1. l \div 10 \in Nat /\ l % 10 \in Nat
          BY <2>1
        <5> QED BY <5>1, <2>1, KeyDigits
      <4> DEFINE c == l \div 10
                 d == l % 10
      <4>2. PositionKey(l) = <<c, d, 0>> /\ c \in Nat /\ d \in Nat
        BY <4>1
      <4> HIDE DEF c, d
      <4> QED BY <4>2
    <3> QED BY <3>1, <3>2, <1>2, LexIrreflexive
  <2> QED BY <2>2, <2>3
<1>9. Cardinality(before) = i
  <2>1. f \in Bijection(0..(i - 1), before)
    <3>1. f \in [0..(i - 1) -> before]
      BY <1>7 DEF f
    <3>2. \A j, l \in 0..(i - 1) : f[j] = f[l] => j = l
      BY <1>8 DEF f
    <3>3. \A b \in before : \E j \in 0..(i - 1) : f[j] = b
      BY <1>7 DEF f
    <3>4. DOMAIN f = 0..(i - 1)
      BY DEF f
    <3> QED BY <3>1, <3>2, <3>3, <3>4 DEF Bijection, Injection, Surjection, IsInjective
  <2>2. IsFiniteSet(0..(i - 1)) /\ Cardinality(0..(i - 1)) = i
    <3>1. 0 \in Int /\ i - 1 \in Int /\ ~(0 > i - 1) /\ (i - 1) - 0 + 1 = i
      BY <1>1
    <3> QED BY <3>1, FS_Interval
  <2>3. ExistsBijection(0..(i - 1), before)
    BY <2>1 DEF ExistsBijection
  <2> QED BY <2>2, <2>3, FS_Bijection
<1>10. SceneNode(i) \in Manuscript.nodes /\ SceneNode(i).logical_id = scenes[i].id
       /\ SceneNode(i).kind = "scene"
  BY DEF Manuscript, SceneNode
<1> QED BY <1>9, <1>10 DEF before

(***************************************************************************)
(* Line ends.                                                              *)
(***************************************************************************)
\* Induction, for a set of numbers.
LEMMA Induction ==
  ASSUME NEW S, 0 \in S, \A n \in Nat : n \in S => n + 1 \in S
  PROVE  \A n \in Nat : n \in S
<1> SUFFICES ASSUME Nat \ S # {} PROVE FALSE
  OBVIOUS
<1>1. PICK n \in Nat \ S : \A j \in Nat \ S : n <= j
  <2>1. Nat \ S \subseteq Nat
    OBVIOUS
  <2> QED BY <2>1, LeastNatural
<1>2. n \in Nat /\ n # 0 /\ n - 1 \in Nat /\ (n - 1) + 1 = n /\ ~(n <= n - 1)
  BY <1>1
<1>3. n - 1 \in S
  BY <1>1, <1>2
<1> QED BY <1>1, <1>2, <1>3

\* What the n-th character of r adds to what has been read, and what to what has been written.
NextRead(r, n, t) ==
  IF r[n] = LF /\ n > 1 /\ r[n - 1] = CR THEN t
  ELSE Append(t, IF r[n] = CR THEN LF ELSE r[n])

NextWritten(r, n, t) == t \o (IF r[n] = LF THEN <<CR, LF>> ELSE <<r[n]>>)

\* The recursion of ReadUpTo has a solution.
LEMMA ReadUpToDef ==
  ASSUME NEW r, Len(r) \in Nat
  PROVE  /\ ReadUpTo(r)[0] = << >>
         /\ \A n \in 1..Len(r) : ReadUpTo(r)[n] = NextRead(r, n, ReadUpTo(r)[n - 1])
<1> DEFINE Is(g, m) == g = [n \in 0..m |-> IF n = 0 THEN << >> ELSE NextRead(r, n, g[n - 1])]
           S == {m \in Nat : \E g : Is(g, m)}
<1>1. 0 \in S
  <2>1. Is([n \in 0..0 |-> << >>], 0)
    OBVIOUS
  <2> QED BY <2>1
<1>2. ASSUME NEW m \in Nat, m \in S PROVE m + 1 \in S
  <2>1. PICK g : Is(g, m)
    BY <1>2
  <2> DEFINE h == [n \in 0..(m + 1) |-> IF n = m + 1 THEN NextRead(r, n, g[m]) ELSE g[n]]
  <2>2. \A n \in 0..(m + 1) : h[n] = IF n = 0 THEN << >> ELSE NextRead(r, n, h[n - 1])
    <3>1. \A n \in 0..m : g[n] = IF n = 0 THEN << >> ELSE NextRead(r, n, g[n - 1])
      BY <2>1
    <3> QED BY <3>1
  <2>3. Is(h, m + 1)
    <3>1. h = [n \in 0..(m + 1) |-> h[n]]
      OBVIOUS
    <3> HIDE DEF h
    <3> QED BY <2>2, <3>1
  <2>4. m + 1 \in Nat
    OBVIOUS
  <2> HIDE DEF h, Is
  <2> QED BY <2>3, <2>4
<1>3. Len(r) \in S
  <2> HIDE DEF S
  <2> QED BY <1>1, <1>2, Induction
<1> DEFINE f == CHOOSE g : Is(g, Len(r))
<1>4. ReadUpTo(r) = f
  BY DEF ReadUpTo, NextRead
<1>5. Is(f, Len(r))
  <2> HIDE DEF Is
  <2> QED BY <1>3
<1> HIDE DEF f
<1>6. \A n \in 0..Len(r) : f[n] = IF n = 0 THEN << >> ELSE NextRead(r, n, f[n - 1])
  BY <1>5
<1> QED BY <1>4, <1>6

\* The recursion of WriteUpTo has a solution.
LEMMA WriteUpToDef ==
  ASSUME NEW r, Len(r) \in Nat
  PROVE  /\ WriteUpTo(r)[0] = << >>
         /\ \A n \in 1..Len(r) : WriteUpTo(r)[n] = NextWritten(r, n, WriteUpTo(r)[n - 1])
<1> DEFINE Is(g, m) == g = [n \in 0..m |-> IF n = 0 THEN << >> ELSE NextWritten(r, n, g[n - 1])]
           S == {m \in Nat : \E g : Is(g, m)}
<1>1. 0 \in S
  <2>1. Is([n \in 0..0 |-> << >>], 0)
    OBVIOUS
  <2> QED BY <2>1
<1>2. ASSUME NEW m \in Nat, m \in S PROVE m + 1 \in S
  <2>1. PICK g : Is(g, m)
    BY <1>2
  <2> DEFINE h == [n \in 0..(m + 1) |-> IF n = m + 1 THEN NextWritten(r, n, g[m]) ELSE g[n]]
  <2>2. \A n \in 0..(m + 1) : h[n] = IF n = 0 THEN << >> ELSE NextWritten(r, n, h[n - 1])
    <3>1. \A n \in 0..m : g[n] = IF n = 0 THEN << >> ELSE NextWritten(r, n, g[n - 1])
      BY <2>1
    <3> QED BY <3>1
  <2>3. Is(h, m + 1)
    <3>1. h = [n \in 0..(m + 1) |-> h[n]]
      OBVIOUS
    <3> HIDE DEF h
    <3> QED BY <2>2, <3>1
  <2>4. m + 1 \in Nat
    OBVIOUS
  <2> HIDE DEF h, Is
  <2> QED BY <2>3, <2>4
<1>3. Len(r) \in S
  <2> HIDE DEF S
  <2> QED BY <1>1, <1>2, Induction
<1> DEFINE f == CHOOSE g : Is(g, Len(r))
<1>4. WriteUpTo(r) = f
  BY DEF WriteUpTo, NextWritten
<1>5. Is(f, Len(r))
  <2> HIDE DEF Is
  <2> QED BY <1>3
<1> HIDE DEF f
<1>6. \A n \in 0..Len(r) : f[n] = IF n = 0 THEN << >> ELSE NextWritten(r, n, f[n - 1])
  BY <1>5
<1> QED BY <1>4, <1>6

\* Some sequence of characters.
IsText(r) == \E A : r \in Seq(A)

\* A sequence is the beginning of what it is continued to.
LEMMA ConcatGrows ==
  ASSUME NEW B, NEW s \in Seq(B), NEW t \in Seq(B)
  PROVE  /\ s \o t \in Seq(B)
         /\ Len(s) <= Len(s \o t)
         /\ \A i \in 1..Len(s) : (s \o t)[i] = s[i]
OBVIOUS

\* What has been written is a text that begins with what had been written before.
LEMMA WrittenGrows ==
  ASSUME NEW A, NEW r \in Seq(A)
  PROVE  \A m \in 0..Len(r) :
           /\ WriteUpTo(r)[m] \in Seq(A \cup {CR, LF})
           /\ \A n \in 0..m :
                /\ Len(WriteUpTo(r)[n]) <= Len(WriteUpTo(r)[m])
                /\ \A i \in 1..Len(WriteUpTo(r)[n]) : WriteUpTo(r)[m][i] = WriteUpTo(r)[n][i]
<1> DEFINE w(n) == WriteUpTo(r)[n]
           B == A \cup {CR, LF}
           Grown(m) == /\ w(m) \in Seq(B)
                       /\ \A n \in 0..m : /\ Len(w(n)) \in Nat
                                          /\ Len(w(n)) <= Len(w(m))
                                          /\ \A i \in 1..Len(w(n)) : w(m)[i] = w(n)[i]
           S == {m \in Nat : m <= Len(r) => Grown(m)}
<1>0. Len(r) \in Nat
  OBVIOUS
<1>1. w(0) = << >> /\ \A n \in 1..Len(r) : w(n) = NextWritten(r, n, w(n - 1))
  BY <1>0, WriteUpToDef
<1> HIDE DEF w, B
<1>2. 0 \in S
  <2>1. w(0) = << >>
    BY <1>1
  <2>2. w(0) \in Seq(B) /\ Len(w(0)) = 0
    <3>1. << >> \in Seq(B) /\ Len(<< >>) = 0
      OBVIOUS
    <3> QED BY <2>1, <3>1, Zenon
  <2>3. Grown(0)
    BY <2>2
  <2> QED BY <2>3
<1>3. ASSUME NEW m \in Nat, m \in S PROVE m + 1 \in S
  <2> SUFFICES ASSUME m + 1 <= Len(r) PROVE Grown(m + 1)
    OBVIOUS
  <2> DEFINE x == IF r[m + 1] = LF THEN <<CR, LF>> ELSE <<r[m + 1]>>
  <2>1. Grown(m) /\ m + 1 \in 1..Len(r) /\ (m + 1) - 1 = m
    BY <1>0, <1>3
  <2>2. w(m + 1) = w(m) \o x
    BY <1>1, <2>1 DEF NextWritten
  <2>3. x \in Seq(B) /\ w(m) \in Seq(B)
    <3>1. r[m + 1] \in B
      BY <2>1 DEF B
    <3>2. CR \in B /\ LF \in B
      BY DEF B
    <3> QED BY <2>1, <3>1, <3>2
  <2> HIDE DEF x
  <2>4. /\ w(m + 1) \in Seq(B)
        /\ Len(w(m)) <= Len(w(m + 1))
        /\ \A i \in 1..Len(w(m)) : w(m + 1)[i] = w(m)[i]
    <3>1. /\ w(m) \o x \in Seq(B)
          /\ Len(w(m)) <= Len(w(m) \o x)
          /\ \A i \in 1..Len(w(m)) : (w(m) \o x)[i] = w(m)[i]
      BY <2>3, ConcatGrows
    <3> QED BY <2>2, <3>1, Zenon
  <2>5. ASSUME NEW n \in 0..(m + 1)
        PROVE  /\ Len(w(n)) \in Nat
               /\ Len(w(n)) <= Len(w(m + 1))
               /\ \A i \in 1..Len(w(n)) : w(m + 1)[i] = w(n)[i]
    <3>1. CASE n = m + 1
      <4>1. Len(w(m + 1)) \in Nat
        BY <2>4
      <4> QED BY <3>1, <4>1
    <3>2. CASE n \in 0..m
      <4>1. Len(w(n)) <= Len(w(m)) /\ \A i \in 1..Len(w(n)) : w(m)[i] = w(n)[i]
        BY <2>1, <3>2
      <4>2. Len(w(m)) \in Nat /\ Len(w(m + 1)) \in Nat
        BY <2>3, <2>4
      <4>3. Len(w(n)) \in Nat
        BY <2>1, <3>2
      <4>4. \A i \in 1..Len(w(n)) : i \in 1..Len(w(m))
        BY <4>1, <4>2, <4>3
      <4> QED BY <2>4, <4>1, <4>2, <4>3, <4>4
    <3> QED BY <3>1, <3>2
  <2> QED BY <2>4, <2>5
<1>4. \A m \in Nat : m \in S
  <2> HIDE DEF S
  <2> QED BY <1>2, <1>3, Induction
<1>5. ASSUME NEW m \in 0..Len(r) PROVE Grown(m)
  BY <1>0, <1>4
<1> HIDE DEF S
<1> QED BY <1>5 DEF w, B
\* What the n-th character of a text becomes: the two of a line end, or itself.
LEMMA WrittenStep ==
  ASSUME NEW A, NEW r \in Seq(A), NEW n \in 1..Len(r)
  PROVE  LET w == WriteUpTo(r)
             c == w[Len(r)]
             l == Len(w[n - 1])
         IN  /\ l \in Nat /\ Len(w[n]) <= Len(c)
             /\ r[n] = LF => Len(w[n]) = l + 2 /\ c[l + 1] = CR /\ c[l + 2] = LF
             /\ r[n] # LF => Len(w[n]) = l + 1 /\ c[l + 1] = r[n]
<1> DEFINE w == WriteUpTo(r)
           B == A \cup {CR, LF}
           c == w[Len(r)]
           l == Len(w[n - 1])
<1>1. Len(r) \in Nat /\ n \in 0..Len(r) /\ n - 1 \in 0..Len(r) /\ Len(r) \in 0..Len(r)
  OBVIOUS
<1>2. w[n] = NextWritten(r, n, w[n - 1])
  BY <1>1, WriteUpToDef
<1>3. w[n - 1] \in Seq(B) /\ w[n] \in Seq(B)
  BY <1>1, WrittenGrows
<1>4. Len(w[n]) <= Len(c) /\ \A i \in 1..Len(w[n]) : c[i] = w[n][i]
  BY <1>1, WrittenGrows
<1> HIDE DEF w, c
<1>5. l \in Nat
  BY <1>3
<1>6. ASSUME r[n] = LF
      PROVE  Len(w[n]) = l + 2 /\ w[n][l + 1] = CR /\ w[n][l + 2] = LF
  <2>1. w[n] = w[n - 1] \o <<CR, LF>>
    BY <1>2, <1>6 DEF NextWritten
  <2>2. ASSUME NEW t \in Seq(B)
        PROVE  LET u == t \o <<CR, LF>>
               IN  Len(u) = Len(t) + 2 /\ u[Len(t) + 1] = CR /\ u[Len(t) + 2] = LF
    <3>1. CR \in B /\ LF \in B
      OBVIOUS
    <3> QED BY <3>1
  <2> QED BY <1>3, <2>1, <2>2
<1>7. ASSUME r[n] # LF
      PROVE  Len(w[n]) = l + 1 /\ w[n][l + 1] = r[n]
  <2>1. w[n] = w[n - 1] \o <<r[n]>>
    BY <1>2, <1>7 DEF NextWritten
  <2>2. ASSUME NEW t \in Seq(B)
        PROVE  LET u == t \o <<r[n]>>
               IN  Len(u) = Len(t) + 1 /\ u[Len(t) + 1] = r[n]
    OBVIOUS
  <2> QED BY <1>3, <2>1, <2>2
<1>8. /\ r[n] = LF => Len(w[n]) = l + 2 /\ c[l + 1] = CR /\ c[l + 2] = LF
      /\ r[n] # LF => Len(w[n]) = l + 1 /\ c[l + 1] = r[n]
  <2> HIDE DEF l
  <2>1. ASSUME r[n] = LF PROVE c[l + 1] = CR /\ c[l + 2] = LF
    <3>1. l + 1 \in 1..Len(w[n]) /\ l + 2 \in 1..Len(w[n])
      BY <1>5, <1>6, <2>1
    <3> QED BY <1>4, <1>6, <2>1, <3>1
  <2>2. ASSUME r[n] # LF PROVE c[l + 1] = r[n]
    <3>1. l + 1 \in 1..Len(w[n])
      BY <1>5, <1>7, <2>2
    <3> QED BY <1>4, <1>7, <2>2, <3>1
  <2> QED BY <1>6, <1>7, <2>1, <2>2
<1> QED BY <1>4, <1>5, <1>8 DEF w, c

\* A text without CR reads the same after its line ends were converted.
LEMMA ConvertedReadsSame ==
  ASSUME NEW A, NEW r \in Seq(A), CR \notin Range(r)
  PROVE  ReadText(ToCrlf(r)) = ReadText(r)
<1> DEFINE w == WriteUpTo(r)
           c == w[Len(r)]
           old == ReadUpTo(r)
           new == ReadUpTo(c)
           S == {n \in Nat : n <= Len(r) => new[Len(w[n])] = old[n]}
<1>1. Len(r) \in Nat /\ \A n \in 1..Len(r) : r[n] # CR
  BY DEF Range
<1>2. c \in Seq(A \cup {CR, LF}) /\ w[0] = << >>
  <2>1. Len(r) \in 0..Len(r)
    BY <1>1
  <2> QED BY <1>1, <2>1, WrittenGrows, WriteUpToDef
<1>3. /\ old[0] = << >>
      /\ \A n \in 1..Len(r) : old[n] = NextRead(r, n, old[n - 1])
  BY <1>1, ReadUpToDef
<1>4. Len(c) \in Nat
  BY <1>2
<1>5. /\ new[0] = << >>
      /\ \A n \in 1..Len(c) : new[n] = NextRead(c, n, new[n - 1])
  BY <1>4, ReadUpToDef
<1>6. \A n \in 1..Len(r) :
        /\ Len(w[n - 1]) \in Nat /\ Len(w[n]) <= Len(c)
        /\ r[n] = LF => /\ Len(w[n]) = Len(w[n - 1]) + 2
                        /\ c[Len(w[n - 1]) + 1] = CR /\ c[Len(w[n - 1]) + 2] = LF
        /\ r[n] # LF => Len(w[n]) = Len(w[n - 1]) + 1 /\ c[Len(w[n - 1]) + 1] = r[n]
  BY WrittenStep
<1> HIDE DEF w, c, old, new
<1>7. 0 \in S
  <2>1. Len(w[0]) = 0
    BY <1>2
  <2>2. new[Len(w[0])] = old[0]
    BY <1>3, <1>5, <2>1
  <2> QED BY <2>2
<1>8. ASSUME NEW m \in Nat, m \in S PROVE m + 1 \in S
  <2> DEFINE n == m + 1
             l == Len(w[m])
  <2> SUFFICES ASSUME n <= Len(r) PROVE new[Len(w[n])] = old[n]
    OBVIOUS
  <2>1. n \in 1..Len(r) /\ n - 1 = m /\ new[l] = old[m]
    BY <1>1, <1>8
  <2>2. old[n] = Append(old[m], r[n])
    <3>1. r[n] # CR /\ (n > 1 => r[n - 1] # CR)
      BY <1>1, <2>1
    <3>2. old[n] = NextRead(r, n, old[m])
      BY <1>3, <2>1
    <3> HIDE DEF n
    <3> QED BY <3>1, <3>2 DEF NextRead
  <2>3. /\ l \in Nat /\ Len(w[n]) <= Len(c)
        /\ r[n] = LF => Len(w[n]) = l + 2 /\ c[l + 1] = CR /\ c[l + 2] = LF
        /\ r[n] # LF => Len(w[n]) = l + 1 /\ c[l + 1] = r[n]
    BY <1>6, <2>1
  <2>4. r[n] # CR
    BY <1>1, <2>1
  <2> HIDE DEF n, l
  <2>5. CASE r[n] = LF
    <3>1. /\ l + 1 \in 1..Len(c) /\ (l + 1) - 1 = l
          /\ l + 2 \in 1..Len(c) /\ (l + 2) - 1 = l + 1 /\ l + 2 > 1
      BY <1>4, <2>3, <2>5
    <3>2. new[l + 1] = NextRead(c, l + 1, new[l]) /\ new[l + 2] = NextRead(c, l + 2, new[l + 1])
      BY <1>5, <3>1
    <3>3. new[l + 1] = Append(new[l], LF)
      BY <2>3, <2>5, <3>2 DEF NextRead, CR, LF
    <3>4. new[l + 2] = new[l + 1]
      BY <2>3, <2>5, <3>1, <3>2 DEF NextRead
    <3> QED BY <2>1, <2>2, <2>3, <2>5, <3>3, <3>4
  <2>6. CASE r[n] # LF
    <3>1. l + 1 \in 1..Len(c) /\ (l + 1) - 1 = l
      BY <1>4, <2>3, <2>6
    <3>2. new[l + 1] = NextRead(c, l + 1, new[l])
      BY <1>5, <3>1
    <3>3. new[l + 1] = Append(new[l], r[n])
      BY <2>3, <2>4, <2>6, <3>2 DEF NextRead
    <3> QED BY <2>1, <2>2, <2>3, <2>6, <3>3
  <2> QED BY <2>5, <2>6
<1>9. Len(r) \in S
  <2> HIDE DEF S
  <2> QED BY <1>1, <1>7, <1>8, Induction
<1>10. new[Len(c)] = old[Len(r)]
  BY <1>1, <1>9 DEF c
<1>11. ToCrlf(r) = c
  BY DEF ToCrlf, c, w
<1> QED BY <1>10, <1>11 DEF ReadText, old, new

\* Reading a file gives the same text before and after a checkout that converts its line ends.
LEMMA LineEndsDisappear ==
  ASSUME NEW r, IsText(r)
  PROVE  ReadText(ToCrlf(r)) = ReadText(r) /\ IsText(ToCrlf(r))
<1>1. PICK A : r \in Seq(A)
  BY DEF IsText
<1>2. CASE CR \in Range(r)
  BY <1>2 DEF ToCrlf
<1>3. CASE CR \notin Range(r)
  <2>1. Len(r) \in 0..Len(r)
    BY <1>1
  <2>2. ToCrlf(r) \in Seq(A \cup {CR, LF})
    BY <1>1, <1>3, <2>1, WrittenGrows DEF ToCrlf
  <2> QED BY <1>1, <1>3, <2>2, ConvertedReadsSame DEF IsText
<1> QED BY <1>2, <1>3

(***************************************************************************)
(* What a build made, from what it read.                                   *)
(***************************************************************************)
\* The builder that has read the definition d and the scene texts t.
At(d, t) == INSTANCE FixtureBuild WITH read <- [def |-> d], text <- t

\* build(): its six artifacts.
Artifacts(d, t) ==
  [manuscript |-> At(d, t)!Manuscript, plans |-> At(d, t)!Plans, state |-> At(d, t)!State,
   findings |-> At(d, t)!Findings, context_gold |-> At(d, t)!ContextGold,
   impact_gold |-> At(d, t)!ImpactGold]

\* Sources of texts and lists, each scene in one of the files.
SourcesTyped(s) ==
  /\ DOMAIN s = {"def", "raw"} /\ DOMAIN s.raw = Files
  /\ \A f \in Files : IsText(s.raw[f])
  /\ s.def.scenes \in Seq(Range(s.def.scenes))
  /\ \A i \in DOMAIN s.def.scenes : s.def.scenes[i].file \in Files

MadeFromRead(b) ==
  /\ SourcesTyped(b.read)
  /\ b.out = Artifacts(b.read.def, SceneText(b.read))

\* The inductive invariant: every build that was completed was made from what it had read, and from
\* nothing else.  The present one has the texts of its sources, and its record is one of six
\* artifacts.
DeterminedInv ==
  /\ IInv
  /\ SourcesTyped(src) /\ SourcesTyped(read)
  /\ out = [k \in DOMAIN NotBuilt |-> out[k]]
  /\ pc # "idle" => text = SceneText(read)
  /\ \A b \in past : MadeFromRead(b)

\* The artifacts of the present build are those of what it has read.
LEMMA PresentArtifacts ==
  ASSUME NEW d, NEW t, d = def, t = text
  PROVE  /\ Manuscript = At(d, t)!Manuscript
         /\ Plans = At(d, t)!Plans
         /\ State = At(d, t)!State
         /\ Findings = At(d, t)!Findings
         /\ ContextGold = At(d, t)!ContextGold
         /\ ImpactGold = At(d, t)!ImpactGold
<1>1. At(d, t)!def = def
  BY DEF def, At!def
<1>2. /\ \A x : At(d, t)!DetId(x) = DetId(x)
      /\ \A i, k, v : At(d, t)!Ref(i, k, v) = Ref(i, k, v)
  BY DEF DetId, At!DetId, Ref, At!Ref
<1>3. At(d, t)!revision_id = revision_id
  BY <1>1, <1>2 DEF revision_id, At!revision_id
<1>4. At(d, t)!BookRef = BookRef
  BY <1>2, <1>3 DEF BookRef, At!BookRef
<1>5. \A s : At(d, t)!SceneVersion(s) = SceneVersion(s)
  BY <1>1, <1>2 DEF SceneVersion, At!SceneVersion
<1>6. \A s : At(d, t)!SceneRef(s) = SceneRef(s)
  BY <1>2, <1>5 DEF SceneRef, At!SceneRef
<1>7. At(d, t)!SceneIds = SceneIds /\ \A S : At(d, t)!Ids(S) = Ids(S)
  BY <1>1 DEF SceneIds, At!SceneIds, Ids, At!Ids
<1>8. \A id : At(d, t)!RecordKind(id) = RecordKind(id)
  BY <1>1 DEF RecordKind, At!RecordKind
<1>9. \A id : At(d, t)!ResolvedRef(id) = ResolvedRef(id)
  BY <1>1, <1>2, <1>4, <1>6, <1>7, <1>8
     DEF ResolvedRef, At!ResolvedRef, RecordKindToResource, At!RecordKindToResource,
         NoVersion, At!NoVersion
<1>10. \A x, q : At(d, t)!Index(x, q) = Index(x, q)
  BY DEF Index, At!Index, Occurrences, At!Occurrences
<1>11. \A c : At(d, t)!Span(c) = Span(c)
  BY <1>6, <1>10 DEF Span, At!Span
<1>12. \A k, n : At(d, t)!Meta(k, n) = Meta(k, n)
  BY <1>1, <1>2, <1>4 DEF Meta, At!Meta
<1>13. Manuscript = At(d, t)!Manuscript
  <2>1. BookNode = At(d, t)!BookNode
    BY <1>3 DEF BookNode, At!BookNode
  <2>2. \A i : SceneNode(i) = At(d, t)!SceneNode(i)
    BY <1>1, <1>5 DEF SceneNode, At!SceneNode, PositionKey, At!PositionKey
  <2> QED BY <1>1, <1>3, <1>12, <2>1, <2>2 DEF Manuscript, At!Manuscript
<1>14. Plans = At(d, t)!Plans
  BY <1>1, <1>3, <1>7, <1>12 DEF Plans, At!Plans
<1>15. State = At(d, t)!State
  <2>1. \A r : StateRecord(r) = At(d, t)!StateRecord(r)
    BY <1>11 DEF StateRecord, At!StateRecord
  <2> QED BY <1>1, <1>3, <1>12, <2>1 DEF State, At!State
<1>16. Findings = At(d, t)!Findings
  <2>1. \A f : Finding(f) = At(d, t)!Finding(f)
    BY <1>9, <1>11 DEF Finding, At!Finding
  <2> QED BY <1>1, <1>12, <2>1 DEF Findings, At!Findings
<1>17. ContextGold = At(d, t)!ContextGold
  <2>1. \A x : ContextTarget(x) = At(d, t)!ContextTarget(x)
    BY <1>9, <1>11 DEF ContextTarget, At!ContextTarget
  <2>2. \A q : ContextCase(q) = At(d, t)!ContextCase(q)
    BY <1>9, <1>12, <2>1 DEF ContextCase, At!ContextCase
  <2> QED BY <1>1, <1>12, <2>2 DEF ContextGold, At!ContextGold
<1>18. ImpactGold = At(d, t)!ImpactGold
  <2>1. \A s, op : Operation(s, op) = At(d, t)!Operation(s, op)
    BY <1>1, <1>2, <1>5, <1>11 DEF Operation, At!Operation, EntityId, At!EntityId
  <2>2. \A s : ImpactCase(s) = At(d, t)!ImpactCase(s)
    BY <1>1, <1>2, <1>3, <1>9, <1>12, <2>1 DEF ImpactCase, At!ImpactCase
  <2> QED BY <1>1, <1>12, <2>2 DEF ImpactGold, At!ImpactGold
<1> QED BY <1>13, <1>14, <1>15, <1>16, <1>17, <1>18

\* Other artifacts can be made later; these stay those of d and t.
LEMMA ArtifactsFixed ==
  ASSUME NEW CONSTANT d, NEW CONSTANT t
  PROVE  Artifacts(d, t)' = Artifacts(d, t)
BY DEF
  Artifacts, At!Manuscript, At!Plans, At!State, At!Findings, At!ContextGold, At!ImpactGold,
  At!Meta, At!BookRef, At!Ref, At!revision_id, At!DetId, At!BookNode, At!SceneNode,
  At!SceneVersion, At!def, At!SceneRef, At!Span, At!StateRecord, At!Finding, At!ResolvedRef,
  At!SceneIds, At!RecordKind, At!ContextCase, At!ContextTarget, At!ImpactCase, At!Operation

\* Files that hold texts hold texts after an edit or a checkout.
LEMMA SourcesStayTyped ==
  ASSUME DeterminedInv, [Next]_vars
  PROVE  SourcesTyped(src')
<1> USE FixtureBuildAssumption
<1>1. CASE EditScene
  <2>1. PICK f \in Files, r \in Raws : src' = [src EXCEPT !.raw[f] = r]
    BY <1>1 DEF EditScene
  <2>2. IsText(r)
    BY DEF IsText
  <2>3. /\ DOMAIN src' = {"def", "raw"} /\ src'.def = src.def /\ DOMAIN src'.raw = Files
        /\ \A g \in Files : src'.raw[g] = IF g = f THEN r ELSE src.raw[g]
    BY <2>1 DEF DeterminedInv, SourcesTyped
  <2> QED BY <2>2, <2>3 DEF DeterminedInv, SourcesTyped
<1>2. CASE EditDef
  <2>1. PICK d \in Defs : src' = [src EXCEPT !.def = d]
    BY <1>2 DEF EditDef
  <2>2. DOMAIN src' = {"def", "raw"} /\ src'.def = d /\ src'.raw = src.raw
    BY <2>1 DEF DeterminedInv, SourcesTyped
  <2> QED BY <2>2 DEF DeterminedInv, SourcesTyped
<1>3. CASE Translate
  <2>1. src' = [src EXCEPT !.raw = [f \in Files |-> ToCrlf(src.raw[f])]]
    BY <1>3 DEF Translate
  <2>2. /\ DOMAIN src' = {"def", "raw"} /\ src'.def = src.def
        /\ src'.raw = [f \in Files |-> ToCrlf(src.raw[f])]
    BY <2>1 DEF DeterminedInv, SourcesTyped
  <2>3. \A f \in Files : IsText(ToCrlf(src.raw[f]))
    BY LineEndsDisappear DEF DeterminedInv, SourcesTyped
  <2>4. DOMAIN src'.raw = Files /\ \A f \in Files : IsText(src'.raw[f])
    BY <2>2, <2>3
  <2> QED BY <2>2, <2>4 DEF DeterminedInv, SourcesTyped
<1>4. CASE src' = src
  BY <1>4 DEF DeterminedInv
<1> QED BY <1>1, <1>2, <1>3, <1>4
        DEF Next, vars, Read, BuildManuscript, BuildPlans, BuildState, BuildFindings,
            BuildContextGold, BuildImpactGold, Raise

\* It holds at first ...
LEMMA InitDetermined == Init => DeterminedInv
<1> SUFFICES ASSUME Init PROVE DeterminedInv
  OBVIOUS
<1> USE FixtureBuildAssumption
<1>1. PICK d \in Defs, w \in [Files -> Raws] : src = [def |-> d, raw |-> w]
  BY DEF Init, Sources
<1>2. SourcesTyped(src)
  <2>1. src.def = d /\ src.raw = w /\ DOMAIN src = {"def", "raw"}
    BY <1>1
  <2>2. \A f \in Files : IsText(src.raw[f])
    BY <2>1 DEF IsText
  <2> QED BY <2>1, <2>2 DEF SourcesTyped
<1>3. out = [k \in DOMAIN NotBuilt |-> out[k]]
  BY DEF Init, NotBuilt
<1> QED BY <1>2, <1>3, InitIInv DEF Init, DeterminedInv

\* ... and after every step: what a completed build made does not change, and the build that
\* completes has made its artifacts from the texts it read.
LEMMA NextDetermined == DeterminedInv /\ [Next]_vars => DeterminedInv'
<1> SUFFICES ASSUME DeterminedInv, [Next]_vars PROVE DeterminedInv'
  OBVIOUS
<1>1. IInv' /\ SourcesTyped(src')
  BY NextIInv, SourcesStayTyped DEF DeterminedInv
<1>2. ASSUME NEW b, MadeFromRead(b) PROVE MadeFromRead(b)'
  BY <1>2, ArtifactsFixed DEF MadeFromRead, SourcesTyped, SceneText, File
<1>3. CASE Read
  <2>1. /\ read' = src /\ text' = SceneText(src) /\ past' = past
        /\ out' = NotBuilt
    BY <1>3 DEF Read
  <2>2. out' = [k \in DOMAIN NotBuilt |-> out'[k]]
    BY <2>1 DEF NotBuilt
  <2>3. SourcesTyped(read') /\ text' = SceneText(read')
    BY <2>1 DEF DeterminedInv
  <2> QED BY <1>1, <1>2, <2>1, <2>2, <2>3 DEF DeterminedInv
<1>4. CASE BuildImpactGold
  <2>0. PICK b : b = [read |-> read, out |-> out']
    OBVIOUS
  <2>1. /\ past' = past \cup {b} /\ read' = read /\ text' = text /\ pc = "impact_gold" /\ pc' = "idle"
    BY <1>4, <2>0 DEF BuildImpactGold
  <2>2. /\ out' = [out EXCEPT !.impact_gold = ImpactGold]
    BY <1>4 DEF BuildImpactGold
  <2>3. out' = [k \in DOMAIN NotBuilt |-> out'[k]]
    BY <2>2 DEF DeterminedInv, NotBuilt
  <2>4. text = SceneText(read)
    BY <2>1 DEF DeterminedInv
  <2>5. /\ out'.manuscript = Manuscript /\ out'.plans = Plans /\ out'.state = State
        /\ out'.findings = Findings /\ out'.context_gold = ContextGold
        /\ out'.impact_gold = ImpactGold
    BY <2>1, <2>2 DEF DeterminedInv, IInv, NotBuilt
  <2>6. out' = Artifacts(read.def, SceneText(read))
    <3> DEFINE d == read.def
               t == SceneText(read)
               o == [manuscript |-> Manuscript, plans |-> Plans, state |-> State,
                     findings |-> Findings, context_gold |-> ContextGold,
                     impact_gold |-> ImpactGold]
    <3>1. d = def /\ t = text
      BY <2>4 DEF def
    <3> HIDE DEF d, t
    <3>2. o = Artifacts(d, t)
      BY <3>1, PresentArtifacts DEF Artifacts
    <3>3. out' = o
      BY <2>3, <2>5 DEF NotBuilt
    <3> QED BY <3>2, <3>3 DEF d, t
  <2>7. MadeFromRead(b)
    BY <2>0, <2>6 DEF MadeFromRead, DeterminedInv
  <2>8. \A x \in past' : MadeFromRead(x)'
    BY <1>2, <2>1, <2>7 DEF DeterminedInv
  <2>9. SourcesTyped(read')
    BY <2>1 DEF DeterminedInv
  <2> QED BY <1>1, <2>1, <2>3, <2>8, <2>9 DEF DeterminedInv
<1>5. CASE /\ UNCHANGED <<read, text, past>>
           /\ pc' # "idle" => pc # "idle"
           /\ out' = [k \in DOMAIN NotBuilt |-> out'[k]]
  <2>1. SourcesTyped(read')
    BY <1>5 DEF DeterminedInv
  <2>2. pc' # "idle" => text' = SceneText(read')
    BY <1>5 DEF DeterminedInv
  <2>3. \A x \in past' : MadeFromRead(x)'
    BY <1>2, <1>5 DEF DeterminedInv
  <2> QED BY <1>1, <1>5, <2>1, <2>2, <2>3 DEF DeterminedInv
<1>6. \/ Read \/ BuildImpactGold
      \/ /\ UNCHANGED <<read, text, past>>
         /\ pc' # "idle" => pc # "idle"
         /\ out' = [k \in DOMAIN NotBuilt |-> out'[k]]
  <2>1. out = [k \in DOMAIN NotBuilt |-> out[k]]
    BY DEF DeterminedInv
  <2>2. CASE BuildManuscript
    BY <2>1, <2>2 DEF BuildManuscript, NotBuilt
  <2>3. CASE BuildPlans
    BY <2>1, <2>3 DEF BuildPlans, NotBuilt
  <2>4. CASE BuildState
    BY <2>1, <2>4 DEF BuildState, NotBuilt
  <2>5. CASE BuildFindings
    BY <2>1, <2>5 DEF BuildFindings, NotBuilt
  <2>6. CASE BuildContextGold
    BY <2>1, <2>6 DEF BuildContextGold, NotBuilt
  <2>7. CASE Raise \/ EditScene \/ EditDef \/ Translate \/ UNCHANGED vars
    BY <2>1, <2>7 DEF Raise, EditScene, EditDef, Translate, Edit, vars
  <2> QED BY <2>2, <2>3, <2>4, <2>5, <2>6, <2>7 DEF Next
<1> QED BY <1>3, <1>4, <1>5, <1>6
\* A scene has one of the files: that of the last entry with its id.
LEMMA FileIsOne ==
  ASSUME NEW s, SourcesTyped(s), NEW id, \E i \in DOMAIN s.def.scenes : s.def.scenes[i].id = id
  PROVE  File(s.def, id) \in Files
<1> DEFINE scenes == s.def.scenes
           top == Len(scenes)
           S == {n \in Nat : n < top /\ scenes[top - n].id = id}
           Last(k) == /\ scenes[k].id = id
                      /\ \A l \in DOMAIN scenes : scenes[l].id = id => l <= k
<1>1. scenes \in Seq(Range(scenes))
  BY DEF SourcesTyped
<1>2. top \in Nat /\ DOMAIN scenes = 1..top
  BY <1>1
<1>3. PICK i \in DOMAIN scenes : scenes[i].id = id
  OBVIOUS
<1> HIDE DEF scenes, top
<1>4. i \in 1..top
  BY <1>2, <1>3, Zenon
<1>5. S \subseteq Nat /\ top - i \in S
  <2>1. top - i \in Nat /\ top - i < top /\ top - (top - i) = i
    BY <1>2, <1>4
  <2> QED BY <1>3, <2>1
<1>6. PICK n \in S : \A j \in S : n <= j
  BY <1>5, LeastNatural
<1>7. top - n \in DOMAIN scenes /\ Last(top - n)
  <2>1. top - n \in 1..top
    BY <1>2, <1>6
  <2>2. ASSUME NEW l \in 1..top, scenes[l].id = id PROVE l <= top - n
    <3>1. top - l \in Nat /\ top - l < top /\ top - (top - l) = l
      BY <1>2
    <3>2. top - l \in S
      BY <2>2, <3>1
    <3>3. n <= top - l
      BY <1>6, <3>2
    <3> QED BY <1>2, <1>6, <3>3
  <2> QED BY <1>2, <1>6, <2>1, <2>2
<1>8. \E k : k \in DOMAIN scenes /\ Last(k)
  BY <1>7
<1> DEFINE k == CHOOSE x \in DOMAIN scenes : Last(x)
<1>9. k \in DOMAIN scenes
  <2> HIDE DEF Last
  <2> QED BY <1>8
<1>10. File(s.def, id) = scenes[k].file
  BY DEF File, scenes
<1> HIDE DEF k
<1>11. scenes[k].file \in Files
  BY <1>9 DEF SourcesTyped, scenes
<1> QED BY <1>10, <1>11

\* Converted line ends change no artifact, for all definitions, texts and edits: a build is a
\* function of its definition and of the texts read, and those are the same.  (read_text)
THEOREM LineEndingsDoNotMatter == Spec => []LineEndingsInvisible
<1>1. DeterminedInv => LineEndingsInvisible
  <2> SUFFICES ASSUME DeterminedInv, NEW b \in past, NEW c \in past, c.read.def = b.read.def,
                      c.read.raw = [f \in Files |-> ToCrlf(b.read.raw[f])]
               PROVE  c.out = b.out
    BY DEF LineEndingsInvisible
  <2>1. MadeFromRead(b) /\ MadeFromRead(c)
    BY DEF DeterminedInv
  <2> DEFINE d == b.read.def
  <2>2. \A id \in {d.scenes[i].id : i \in DOMAIN d.scenes} :
          ReadText(c.read.raw[File(d, id)]) = ReadText(b.read.raw[File(d, id)])
    <3> SUFFICES ASSUME NEW id, \E i \in DOMAIN d.scenes : d.scenes[i].id = id
                 PROVE  ReadText(c.read.raw[File(d, id)]) = ReadText(b.read.raw[File(d, id)])
      OBVIOUS
    <3>1. File(d, id) \in Files
      BY <2>1, FileIsOne DEF MadeFromRead
    <3>2. IsText(b.read.raw[File(d, id)])
      BY <2>1, <3>1 DEF MadeFromRead, SourcesTyped
    <3>3. c.read.raw[File(d, id)] = ToCrlf(b.read.raw[File(d, id)])
      BY <3>1
    <3> QED BY <3>2, <3>3, LineEndsDisappear
  <2>3. SceneText(c.read) = SceneText(b.read)
    <3>1. c.read.def = d /\ b.read.def = d
      OBVIOUS
    <3> HIDE DEF d
    <3> QED BY <2>2, <3>1 DEF SceneText
  <2> QED BY <2>1, <2>3 DEF MadeFromRead
<1> QED BY <1>1, InitDetermined, NextDetermined, PTL DEF Spec

\* The keys of a manuscript follow its scenes in every build, for all definitions of up to 99
\* scenes.  (manuscript)
THEOREM KeysAreOrdered == Spec => []KeysFollowScenes
<1> DEFINE Inv == DeterminedInv /\ \A b \in past : KeyOrder(b.read.def.scenes, b.out.manuscript.nodes)
<1>1. Init => Inv
  BY InitDetermined DEF Init
<1>2. Inv /\ [Next]_vars => Inv'
  <2> SUFFICES ASSUME Inv, [Next]_vars
               PROVE  \A b \in past' : KeyOrder(b.read.def.scenes, b.out.manuscript.nodes)
    BY NextDetermined DEF KeyOrder
  <2>1. CASE BuildImpactGold
    <3>1. PICK b : b = [read |-> read, out |-> out']
      OBVIOUS
    <3>2. past' = past \cup {b}
      BY <2>1, <3>1 DEF BuildImpactGold
    <3>3. b.out.manuscript = Manuscript /\ b.read.def.scenes = def.scenes
      BY <2>1, <3>1 DEF BuildImpactGold, DeterminedInv, IInv, NotBuilt, def
    <3>4. def.scenes \in Seq(Range(def.scenes))
      BY DEF DeterminedInv, SourcesTyped, def
    <3>5. KeyOrder(b.read.def.scenes, b.out.manuscript.nodes)
      BY <3>3, <3>4, ManuscriptKeys
    <3> QED BY <3>2, <3>5
  <2>2. CASE past' = past
    BY <2>2
  <2>3. BuildImpactGold \/ past' = past
    BY DEF Next, vars, Read, BuildManuscript, BuildPlans, BuildState, BuildFindings,
           BuildContextGold, Raise, EditScene, EditDef, Translate, Edit
  <2> QED BY <2>1, <2>2, <2>3
<1>3. Inv => KeysFollowScenes
  BY DEF KeysFollowScenes, KeyOrder
<1> QED BY <1>1, <1>2, <1>3, PTL DEF Spec

=============================================================================
