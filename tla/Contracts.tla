------------------------------ MODULE Contracts ------------------------------
(***************************************************************************)
(* The contract catalogue of litharness_contracts: the type language its   *)
(* dataclasses are written in, every dataclass with the type and default   *)
(* of each of its fields, and which minor version of the library added     *)
(* what.  One definition per source file; the codec (Serde) and the schema *)
(* generator (SchemaGen) interpret it.                                     *)
(*                                                                         *)
(* Fields that a dataclass declares alike are grouped: the order in which  *)
(* fields are declared decides only which of two faults is reported first. *)
(***************************************************************************)
EXTENDS Naturals, Sequences, TLC

(***************************************************************************)
(* Type hints.                                                             *)
(***************************************************************************)
Str     == [k |-> "str"]
Integer == [k |-> "int"]
Float   == [k |-> "float"]
Boolean == [k |-> "bool"]
AnyT    == [k |-> "any"]
Optional(t) == [k |-> "opt",  of |-> t]     \* t | None
ListOf(t)   == [k |-> "list", of |-> t]     \* list[t]
DictOf(t)   == [k |-> "dict", of |-> t]     \* dict[str, t]
Enum(n) == [k |-> "enum", name |-> n]
Data(n) == [k |-> "data", name |-> n]

(***************************************************************************)
(* Values.  JSON values and Python values share one representation: a JSON *)
(* value is a Python value without enum members and dataclass instances.   *)
(* ErrorV(e) stands for a raised exception e, OtherV for a Python object   *)
(* that JSON cannot carry (a datetime, a set).                             *)
(***************************************************************************)
None == [k |-> "none"]
StrV(s)   == [k |-> "str",   s |-> s]
IntV(n)   == [k |-> "int",   n |-> n]
FloatV(x) == [k |-> "float", x |-> x]
BoolV(b)  == [k |-> "bool",  b |-> b]
ListV(items) == [k |-> "list", items |-> items]
DictV(d)     == [k |-> "dict", d |-> d]
EnumV(n, member) == [k |-> "enum", name |-> n, member |-> member]
DataV(n, fields) == [k |-> "data", name |-> n, fields |-> fields]
ErrorV(e) == [k |-> "error", raised |-> e]
OtherV == [k |-> "other"]

EmptyDict == [key \in {} |-> None]

(***************************************************************************)
(* A field is its type and its default: << >> when the dataclass gives     *)
(* none (dataclasses.MISSING), << v >> when it is v.  Construct(n) is the  *)
(* default_factory n: what the class n of the running library constructs   *)
(* from no arguments.                                                      *)
(***************************************************************************)
Field(t, default) == [type |-> t, default |-> default]

Construct(n) == DataV(n, EmptyDict)

Req(names, t)    == [f \in names |-> Field(t, << >>)]
Opt(names, t)    == [f \in names |-> Field(Optional(t), << None >>)]
List(names, t)   == [f \in names |-> Field(ListOf(t), << ListV(<< >>) >>)]
Map(names, t)    == [f \in names |-> Field(DictOf(t), << DictV(EmptyDict) >>)]
Def(names, t, v) == [f \in names |-> Field(t, << v >>)]

(***************************************************************************)
(* An enum is the set of its values.  A value no default, addition or      *)
(* property singles out is represented by "named".                         *)
(***************************************************************************)
Named(values) == values \cup {"named", "unknown"}
Plain(names)  == [n \in names |-> Named({})]

\* ids.py, enums
ResourceEnums ==
  Plain({"ResourceKind"})

\* ids.py, dataclasses
ResourceTypes ==
  [ResourceRef |-> Req({"project_id", "book_id", "branch_id", "logical_id"}, Str) @@
     Req({"kind"}, Enum("ResourceKind")) @@ Opt({"version_id"}, Str),
   EvidenceSpan |-> Req({"source"}, Data("ResourceRef")) @@ Req({"start", "end"}, Integer) @@
     Req({"content_sha256"}, Str) @@ Opt({"anchor_before", "anchor_after"}, Str),
   StoryPosition |-> Req({"order_key"}, Str) @@ Opt({"label"}, Str)]

\* envelope.py, dataclasses
EnvelopeTypes ==
  [ToolIdentity |-> Req({"name", "version"}, Str),
   ModelIdentifier |-> Req({"provider", "model"}, Str) @@
     Opt({"version_or_digest", "request_profile", "template_version"}, Str),
   ArtifactMeta |->
     Req({"schema_version", "artifact_id", "artifact_kind", "created_at", "actor"}, Str) @@
     Req({"tool"}, Data("ToolIdentity")) @@
     List({"source_revisions", "dependencies"}, Data("ResourceRef")) @@
     Opt({"config_digest", "causation_id", "correlation_id"}, Str) @@ List({"warnings"}, Str)]

\* manuscript.py, enums
ManuscriptEnums ==
  Plain({"NodeKind", "BlockKind", "PatchOpKind"}) @@ [LockKind |-> Named({"none"})]

\* manuscript.py: what 1.1 added to ManuscriptNode.
NodeAdditions ==
  Opt({"lock_kind"}, Enum("LockKind")) @@ Opt({"block_kind"}, Enum("BlockKind")) @@
  Opt({"block_payload"}, DictOf(AnyT)) @@ Opt({"tombstoned"}, Boolean) @@
  Opt({"tombstone_reason"}, Str)

\* manuscript.py, dataclasses
ManuscriptTypes ==
  [ManuscriptNode |-> Req({"logical_id", "position_key"}, Str) @@
     Req({"kind"}, Enum("NodeKind")) @@
     Opt({"parent_logical_id", "title", "content", "content_sha256", "version_id"}, Str) @@
     Def({"locked"}, Boolean, BoolV(FALSE)) @@ Map({"metadata"}, AnyT) @@ NodeAdditions,
   ManuscriptRevision |-> Req({"meta"}, Data("ArtifactMeta")) @@
     Req({"book_id", "branch_id", "revision_id"}, Str) @@
     Req({"nodes"}, ListOf(Data("ManuscriptNode"))) @@ Opt({"parent_revision_id"}, Str),
   PatchOp |-> Req({"kind"}, Enum("PatchOpKind")) @@
     Req({"target_span"}, Data("EvidenceSpan")) @@ Opt({"new_text"}, Str),
   BoundedPatch |-> Req({"meta"}, Data("ArtifactMeta")) @@
     Req({"target"}, Data("ResourceRef")) @@
     Req({"base_version_id", "base_content_sha256", "idempotency_key"}, Str) @@
     Req({"ops"}, ListOf(Data("PatchOp"))) @@
     Opt({"licensed_by_finding_id", "author_request_id"}, Str)]

\* plans.py, enums
PlanEnums ==
  Plain({"PlanKind", "PlanAuthority"})

\* plans.py, dataclasses
PlanTypes ==
  [PlanItem |-> Req({"logical_id", "text"}, Str) @@ Req({"kind"}, Enum("PlanKind")) @@
     Req({"authority"}, Enum("PlanAuthority")) @@ Def({"locked"}, Boolean, BoolV(FALSE)) @@
     Opt({"scope"}, Data("ResourceRef")) @@ List({"links"}, Data("ResourceRef")),
   PlanSnapshot |-> Req({"meta"}, Data("ArtifactMeta")) @@
     Req({"book_id", "branch_id", "revision_id"}, Str) @@
     Req({"items"}, ListOf(Data("PlanItem")))]

\* state.py, enums
StateEnums ==
  Plain({"StateRecordKind"}) @@
  [StateAuthority |-> Named({"proposed", "derived"}), CandidateStatus |-> Named({"proposed"})]

\* state.py, dataclasses
StateTypes ==
  [StateRecord |-> Req({"record_id", "subject", "predicate"}, Str) @@
     Req({"kind"}, Enum("StateRecordKind")) @@ Def({"value"}, AnyT, None) @@
     Opt({"object_ref", "predicate_registry_version", "note"}, Str) @@
     Opt({"story_position"}, Data("StoryPosition")) @@
     Def({"authority"}, Enum("StateAuthority"), EnumV("StateAuthority", "proposed")) @@
     List({"pov_visibility"}, Str) @@ List({"evidence"}, Data("EvidenceSpan")) @@
     Opt({"confidence"}, Float),
   StateSnapshot |-> Req({"meta"}, Data("ArtifactMeta")) @@
     Req({"book_id", "branch_id", "revision_id"}, Str) @@
     Req({"records"}, ListOf(Data("StateRecord"))) @@ Opt({"as_of"}, Data("StoryPosition")),
   StateCandidate |-> Req({"candidate_id"}, Str) @@ Req({"record"}, Data("StateRecord")) @@
     Opt({"extraction_source"}, Data("ResourceRef")) @@ Opt({"rationale"}, Str) @@
     Def({"status"}, Enum("CandidateStatus"), EnumV("CandidateStatus", "proposed")),
   StateCandidateBatch |-> Req({"meta"}, Data("ArtifactMeta")) @@
     Req({"book_id", "branch_id", "base_revision_id", "idempotency_key"}, Str) @@
     Req({"candidates"}, ListOf(Data("StateCandidate"))) @@ Opt({"expected_base_version"}, Str)]

\* context.py, enums
ContextEnums ==
  Plain({"ContextOperation", "ContextItemKind"})

\* context.py, dataclasses
ContextTypes ==
  [ContextQuery |-> Req({"meta"}, Data("ArtifactMeta")) @@ Req({"query_id"}, Str) @@
     Req({"operation"}, Enum("ContextOperation")) @@ Req({"target"}, Data("ResourceRef")) @@
     Req({"token_budget"}, Integer) @@
     Opt({"pov_character_id", "intent", "policy_version"}, Str) @@
     List({"referenced_entities", "referenced_threads"}, Str) @@
     Opt({"story_time_cutoff"}, Data("StoryPosition")) @@
     List({"hard_requirements", "exclusions"}, Data("ResourceRef")) @@
     Opt({"model_context_limit"}, Integer),
   ContextItem |-> Req({"item_id", "text"}, Str) @@ Req({"kind"}, Enum("ContextItemKind")) @@
     Req({"source"}, Data("ResourceRef")) @@ Req({"token_count"}, Integer) @@
     Def({"authority"}, Enum("StateAuthority"), EnumV("StateAuthority", "derived")) @@
     Opt({"confidence"}, Float) @@ Opt({"story_scope"}, Data("ResourceRef")) @@
     List({"pov_visibility"}, Str) @@ List({"provenance"}, Data("EvidenceSpan")) @@
     List({"dependencies"}, Data("ResourceRef")) @@ Map({"scores"}, Float),
   PacketSection |-> Req({"name"}, Str) @@ Req({"items"}, ListOf(Data("ContextItem"))),
   RejectedCandidate |-> Req({"reason"}, Str) @@ Opt({"item_id"}, Str) @@
     Opt({"source"}, Data("ResourceRef")),
   TokenBudget |-> Req({"limit", "used"}, Integer) @@
     Def({"reserved_output"}, Integer, IntV(0)),
   ContextPacket |-> Req({"meta"}, Data("ArtifactMeta")) @@
     Req({"packet_id", "query_id"}, Str) @@ Req({"source_snapshot"}, Data("ResourceRef")) @@
     Req({"sections"}, ListOf(Data("PacketSection"))) @@
     Req({"budget"}, Data("TokenBudget")) @@ List({"consumed_sources"}, Data("ResourceRef")) @@
     List({"rejected_candidates"}, Data("RejectedCandidate"))]

\* generation.py, enums
GenerationEnums ==
  Plain({"GenerationKind", "GenerationStatus"})

\* generation.py, dataclasses
GenerationTypes ==
  [GenerationParams |-> Opt({"temperature", "top_p"}, Float) @@
     Opt({"max_tokens", "seed"}, Integer) @@ List({"stop"}, Str),
   GenerationRequest |-> Req({"meta"}, Data("ArtifactMeta")) @@
     Req({"request_id", "idempotency_key"}, Str) @@ Req({"kind"}, Enum("GenerationKind")) @@
     Req({"target"}, Data("ResourceRef")) @@ Req({"model"}, Data("ModelIdentifier")) @@
     Opt({"context_packet_id", "output_schema_id"}, Str) @@
     Def({"params"}, Data("GenerationParams"), Construct("GenerationParams")),
   TokenUsage |-> Opt({"input_tokens", "output_tokens"}, Integer),
   ValidationOutcome |-> Req({"check"}, Str) @@ Req({"passed"}, Boolean) @@
     Opt({"detail"}, Str),
   GenerationCandidate |-> Req({"meta"}, Data("ArtifactMeta")) @@
     Req({"candidate_id", "request_id"}, Str) @@ Req({"status"}, Enum("GenerationStatus")) @@
     Opt({"content"}, Str) @@ Opt({"patch"}, Data("BoundedPatch")) @@
     Opt({"token_usage"}, Data("TokenUsage")) @@
     List({"validations"}, Data("ValidationOutcome"))]

\* evaluation.py, enums
EvaluationEnums ==
  Plain({"FindingCategory", "FindingStatus", "Severity", "ConfidenceBasis"}) @@
  [SuggestedAction |-> Named({"inspect"})]

\* evaluation.py, dataclasses
EvaluationTypes ==
  [FindingScope |-> Req({"book_id"}, Str) @@ List({"chapter_ids", "scene_ids"}, Str),
   Reproduction |-> Opt({"config_hash", "policy_version", "model_digest"}, Str),
   Finding |-> Req({"finding_id", "message"}, Str) @@
     Req({"category"}, Enum("FindingCategory")) @@ Req({"status"}, Enum("FindingStatus")) @@
     Req({"scope"}, Data("FindingScope")) @@ Req({"severity"}, Enum("Severity")) @@
     Opt({"evaluation_run_id", "subtype", "rule_or_critic_id", "severity_rationale"}, Str) @@
     Opt({"primary_span"}, Data("EvidenceSpan")) @@
     List({"supporting_evidence", "contradicting_evidence"}, Data("EvidenceSpan")) @@
     Opt({"confidence", "evidence_confidence"}, Float) @@
     Def({"confidence_basis"}, Enum("ConfidenceBasis"), EnumV("ConfidenceBasis", "unknown")) @@
     Map({"claim"}, AnyT) @@ Opt({"reproduction"}, Data("Reproduction")) @@
     List({"dependencies"}, Data("ResourceRef")) @@
     Def({"suggested_action"}, Enum("SuggestedAction"), EnumV("SuggestedAction", "inspect")),
   DetectorSpec |-> Req({"detector_id", "version"}, Str),
   CriticSpec |-> Req({"critic_id"}, Str) @@ Opt({"model"}, Data("ModelIdentifier")),
   EvaluationPlan |-> Req({"meta"}, Data("ArtifactMeta")) @@ Req({"plan_id"}, Str) @@
     Req({"manuscript_revision"}, Data("ResourceRef")) @@
     Req({"detectors"}, ListOf(Data("DetectorSpec"))) @@
     Opt({"state_snapshot"}, Data("ResourceRef")) @@
     Opt({"context_packet_id", "thresholds_profile"}, Str) @@
     List({"critics"}, Data("CriticSpec")) @@ List({"categories"}, Enum("FindingCategory")) @@
     Opt({"seed"}, Integer),
   EvaluationError |-> Req({"stage", "reason"}, Str) @@ Opt({"detail"}, Str),
   EvaluationArtifact |-> Req({"meta"}, Data("ArtifactMeta")) @@
     Req({"run_id", "plan_id"}, Str) @@ Req({"findings"}, ListOf(Data("Finding"))) @@
     List({"errors"}, Data("EvaluationError")) @@ Map({"metrics"}, Float)]

\* propagation.py, enums
PropagationEnums ==
  Plain({"ChangeActor", "ChangeOpKind", "ExtractedChangeKind", "ImpactClass", "StepAction",
        "ApprovalMode"})

\* propagation.py, dataclasses
PropagationTypes ==
  [ChangeOperation |-> Req({"kind"}, Enum("ChangeOpKind")) @@
     Req({"logical_source_id"}, Str) @@
     Opt({"before_version", "after_version", "before_hash", "after_hash"}, Str) @@
     Map({"detail"}, AnyT),
   ExtractedChange |-> Req({"kind"}, Enum("ExtractedChangeKind")) @@
     Opt({"subject", "predicate"}, Str) @@ Def({"before", "after"}, AnyT, None) @@
     List({"evidence"}, Data("EvidenceSpan")) @@ Opt({"confidence"}, Float),
   ChangeSet |-> Req({"meta"}, Data("ArtifactMeta")) @@
     Req({"change_set_id", "base_revision", "target_branch", "idempotency_key"}, Str) @@
     Req({"actor"}, Enum("ChangeActor")) @@
     Req({"operations"}, ListOf(Data("ChangeOperation"))) @@
     List({"extracted_changes"}, Data("ExtractedChange")) @@ Opt({"declared_intent"}, Str) @@
     List({"preservation_constraints"}, Str),
   ImpactPathEdge |-> Req({"edge_type"}, Str) @@
     Req({"from_ref", "to_ref"}, Data("ResourceRef")) @@ Opt({"authority"}, Str),
   ImpactItem |-> Req({"target"}, Data("ResourceRef")) @@
     Req({"impact_class"}, Enum("ImpactClass")) @@ Opt({"confidence"}, Float) @@
     Opt({"reason"}, Str) @@ List({"reason_paths"}, ListOf(Data("ImpactPathEdge"))),
   ImpactReport |-> Req({"meta"}, Data("ArtifactMeta")) @@
     Req({"report_id", "change_set_id"}, Str) @@
     Req({"impacts"}, ListOf(Data("ImpactItem"))) @@ Opt({"graph_version"}, Str) @@
     List({"coverage_warnings"}, Str),
   RevisionStep |-> Req({"step_id"}, Str) @@ Req({"target"}, Data("ResourceRef")) @@
     Req({"action"}, Enum("StepAction")) @@ Req({"approval"}, Enum("ApprovalMode")) @@
     Opt({"reason", "finding_id"}, Str) @@ Opt({"confidence"}, Float) @@
     List({"preconditions", "preservation_constraints"}, Str),
   RevisionPlan |-> Req({"meta"}, Data("ArtifactMeta")) @@
     Req({"plan_id", "base_revision", "change_set_id"}, Str) @@
     Req({"steps"}, ListOf(Data("RevisionStep"))) @@ Opt({"graph_version"}, Str) @@
     List({"excluded_candidates"}, Data("ImpactItem")) @@ Map({"estimated_cost"}, Float) @@
     List({"risks"}, Str)]

\* runs.py, enums
RunEnums ==
  Plain({"ExportFormat"}) @@ [JobStatus |-> Named({"poisoned", "parked"})]

\* runs.py: what 1.1 added to JobRecord.
JobAdditions ==
  Opt({"lease_holder"}, Str) @@ Opt({"lease_expires_at"}, Float) @@
  Opt({"payload"}, DictOf(AnyT)) @@ Opt({"priority"}, Integer)

\* runs.py, dataclasses
RunTypes ==
  [InputRef |-> Req({"ref"}, Data("ResourceRef")) @@ Opt({"content_sha256"}, Str),
   RunManifest |-> Req({"meta"}, Data("ArtifactMeta")) @@ Req({"run_id", "purpose"}, Str) @@
     List({"inputs"}, Data("InputRef")) @@ Opt({"model"}, Data("ModelIdentifier")) @@
     Opt({"code_version", "platform", "started_at", "finished_at", "outcome"}, Str),
   JobRecord |-> Req({"meta"}, Data("ArtifactMeta")) @@ Req({"job_id", "job_kind"}, Str) @@
     Req({"status"}, Enum("JobStatus")) @@ Def({"attempts"}, Integer, IntV(0)) @@
     Opt({"idempotency_key", "input_digest", "error"}, Str) @@ JobAdditions,
   ExportFile |-> Req({"path", "sha256"}, Str) @@ Opt({"size_bytes"}, Integer),
   ExportManifest |-> Req({"meta"}, Data("ArtifactMeta")) @@ Req({"export_id"}, Str) @@
     Req({"manuscript_revision"}, Data("ResourceRef")) @@
     Req({"format"}, Enum("ExportFormat")) @@ Req({"renderer"}, Data("ToolIdentity")) @@
     Opt({"settings_digest"}, Str) @@ List({"files"}, Data("ExportFile"))]

\* events.py, enums
EventEnums ==
  [EventType |-> Named({"TickCompleted"})]

\* events.py, dataclasses
EventTypes ==
  [EventEnvelope |->
     Req({"schema_version", "event_id", "created_at", "actor", "project_id",
           "idempotency_key"}, Str) @@
     Req({"event_type"}, Enum("EventType")) @@
     Opt({"book_id", "branch_id", "revision_id", "causation_id", "correlation_id",
           "expected_version", "payload_digest"}, Str) @@
     Map({"payload"}, AnyT)]

\* goldens.py, enums
GoldenEnums ==
  Plain({"ImpactLabel"})

\* goldens.py, dataclasses
GoldenTypes ==
  [GoldContextTarget |-> Req({"reason"}, Str) @@ Opt({"span"}, Data("EvidenceSpan")) @@
     Opt({"ref"}, Data("ResourceRef")),
   GoldContextCase |-> Req({"query"}, Data("ContextQuery")) @@
     List({"mandatory", "forbidden"}, Data("GoldContextTarget")) @@ Opt({"notes"}, Str),
   GoldContextSuite |-> Req({"meta"}, Data("ArtifactMeta")) @@ Req({"fixture_id"}, Str) @@
     Req({"cases"}, ListOf(Data("GoldContextCase"))),
   GoldImpactExpectation |-> Req({"target"}, Data("ResourceRef")) @@
     Req({"label"}, Enum("ImpactLabel")) @@ Opt({"note"}, Str),
   GoldImpactCase |-> Req({"scenario_id", "description"}, Str) @@
     Req({"change_set"}, Data("ChangeSet")) @@
     Req({"expected"}, ListOf(Data("GoldImpactExpectation"))),
   GoldImpactSuite |-> Req({"meta"}, Data("ArtifactMeta")) @@ Req({"fixture_id"}, Str) @@
     Req({"cases"}, ListOf(Data("GoldImpactCase")))]

\* conductor.py, enums
ConductorEnums ==
  Plain({"DirectiveKind", "GateKind", "PolicyOutcome", "ExceptionKind"}) @@
  [DirectiveStatus |-> Named({"received"}), VerdictSource |-> Named({"deterministic"}),
        ExceptionStatus |-> Named({"open"})]

\* conductor.py, dataclasses: direction in, and the gates of a decision
DirectionTypes ==
  [Directive |-> Req({"meta"}, Data("ArtifactMeta")) @@ Req({"directive_id", "body"}, Str) @@
     Req({"kind"}, Enum("DirectiveKind")) @@
     Def({"status"}, Enum("DirectiveStatus"), EnumV("DirectiveStatus", "received")) @@
     Opt({"book_id", "branch_id", "interpretation", "received_at", "interpreted_at",
           "superseded_by"}, Str) @@
     List({"targets"}, Data("ResourceRef")) @@ List({"produced_constraint_ids"}, Str) @@
     Def({"precedence"}, Integer, IntV(0)),
   GateResult |-> Req({"gate"}, Enum("GateKind")) @@ Req({"rule_or_critic_id"}, Str) @@
     Req({"passed"}, Boolean) @@
     Def({"verdict_source"}, Enum("VerdictSource"), EnumV("VerdictSource", "deterministic")) @@
     Def({"blocking"}, Boolean, BoolV(TRUE)) @@ List({"vetoes"}, Str) @@
     Opt({"detail", "calibration_id"}, Str) @@ Opt({"score", "threshold"}, Float)]

\* conductor.py, dataclasses: decisions, exceptions and digests out
DecisionTypes ==
  [PolicyDecisionRecord |-> Req({"meta"}, Data("ArtifactMeta")) @@ Req({"decision_id"}, Str) @@
     Req({"outcome"}, Enum("PolicyOutcome")) @@ Opt({"subject"}, Data("ResourceRef")) @@
     Opt({"job_id", "provider", "model", "profile", "policy_config_digest", "decided_at",
           "resulting_revision_id", "escalation_id"}, Str) @@
     List({"gates"}, Data("GateResult")) @@ List({"fell_back_from"}, Str) @@
     Def({"invocations", "total_tokens", "attempt"}, Integer, IntV(0)) @@
     Opt({"cost_usd"}, Float),
   ExceptionRecord |-> Req({"meta"}, Data("ArtifactMeta")) @@
     Req({"exception_id", "summary"}, Str) @@ Req({"kind"}, Enum("ExceptionKind")) @@
     Def({"status"}, Enum("ExceptionStatus"), EnumV("ExceptionStatus", "open")) @@
     Opt({"subject"}, Data("ResourceRef")) @@
     Opt({"job_id", "decision_id", "raised_at", "resolved_at", "resolution",
           "resolved_by_directive_id"}, Str) @@
     List({"suggested_actions"}, Str) @@ Def({"attempts"}, Integer, IntV(0)),
   DigestEntry |-> Req({"meta"}, Data("ArtifactMeta")) @@
     Req({"digest_id", "period_start", "period_end"}, Str) @@ Opt({"book_id"}, Str) @@
     Def({"ticks", "jobs_succeeded", "jobs_failed", "units_parked", "candidates_accepted",
           "candidates_refused", "findings_opened", "findings_closed", "exceptions_open",
           "words_accepted", "invocations", "total_tokens"}, Integer, IntV(0)) @@
     Opt({"spend_usd", "budget_usd"}, Float) @@ List({"audit_samples"}, Data("ResourceRef")) @@
     List({"notes"}, Str) @@ Map({"extra"}, AnyT)]

ConductorTypes == DirectionTypes @@ DecisionTypes

-----------------------------------------------------------------------------
(***************************************************************************)
(* __init__.py: what carries an envelope and has a schema of its own, and  *)
(* which value objects have one too.                                       *)
(***************************************************************************)
ARTIFACT_TYPES ==
  {"ManuscriptRevision", "BoundedPatch", "PlanSnapshot", "StateSnapshot",
   "StateCandidateBatch", "ContextQuery", "ContextPacket", "GenerationRequest",
   "GenerationCandidate", "EvaluationPlan", "EvaluationArtifact", "ChangeSet",
   "ImpactReport", "RevisionPlan", "RunManifest", "JobRecord", "ExportManifest",
   "EventEnvelope", "GoldContextSuite", "GoldImpactSuite", "Directive",
   "PolicyDecisionRecord", "ExceptionRecord", "DigestEntry"}

VALUE_TYPES ==
  {"ResourceRef", "EvidenceSpan", "Finding", "ContextItem", "StateRecord", "GateResult"}

ALL_SCHEMA_TYPES == ARTIFACT_TYPES \cup VALUE_TYPES

Classes ==
  ResourceTypes @@ EnvelopeTypes @@ ManuscriptTypes @@ PlanTypes @@ StateTypes @@
  ContextTypes @@ GenerationTypes @@ EvaluationTypes @@ PropagationTypes @@ RunTypes @@
  EventTypes @@ GoldenTypes @@ ConductorTypes

Enums ==
  ResourceEnums @@ ManuscriptEnums @@ PlanEnums @@ StateEnums @@ ContextEnums @@
  GenerationEnums @@ EvaluationEnums @@ PropagationEnums @@ RunEnums @@ EventEnums @@
  GoldenEnums @@ ConductorEnums

-----------------------------------------------------------------------------
(***************************************************************************)
(* Minor versions of major 1.  Current is the library of this repository;  *)
(* the earlier ones are it without what the sources mark as added later,   *)
(* and NextMinor stands for a release that uses both liberties the         *)
(* compatibility rules give: an optional field more in every dataclass and *)
(* a member more in every enum.                                            *)
(***************************************************************************)
Current   == 2
NextMinor == 3
Minors    == 0..NextMinor

ClassSince(n) == IF n \in DOMAIN ConductorTypes THEN 1 ELSE 0

FieldSince(n, f) ==
  IF \/ n = "ManuscriptNode" /\ f \in DOMAIN NodeAdditions
     \/ n = "JobRecord" /\ f \in DOMAIN JobAdditions
  THEN 1 ELSE 0

MemberSince(n, member) ==
  CASE n = "EventType" /\ member = "TickCompleted" -> 1
    [] n = "JobStatus" /\ member = "parked"        -> 2
    [] OTHER -> 0

FutureField  == "field_of_next_minor"
FutureMember == "member_of_next_minor"

SCHEMA_VERSION == [m \in Minors |-> (<<"1.0.0", "1.1.0", "1.2.0", "1.3.0">>)[m + 1]]

\* The library at minor version m, as far as it differs from the others.
AtMinor(m, classes, enums) ==
  [minor |-> m,
   classes |->
     [n \in {c \in DOMAIN classes : ClassSince(c) <= m} |->
        [f \in {g \in DOMAIN classes[n] : FieldSince(n, g) <= m} |-> classes[n][f]]
        @@ (IF m = NextMinor THEN Opt({FutureField}, Str) ELSE EmptyDict)],
   enums |->
     [n \in DOMAIN enums |->
        {v \in enums[n] : MemberSince(n, v) <= m}
        \cup (IF m = NextMinor THEN {FutureMember} ELSE {})]]

\* The library of every minor version.
Library == [m \in Minors |-> AtMinor(m, Classes, Enums)]

\* The dataclasses that minor version m knows, the fields of one and the values of an enum.
Known(m)      == DOMAIN Library[m].classes
Class(n, m)   == Library[m].classes[n]
Members(n, m) == Library[m].enums[n]

=============================================================================
