SPECIFICATION Spec
CONSTANTS
  Objects <- ObjectsOf
  Foreign <- ForeignOf
  Types = {"ManuscriptRevision", "BoundedPatch", "StateSnapshot", "ContextPacket",
           "GenerationCandidate", "EvaluationArtifact", "ImpactReport", "RunManifest", "JobRecord",
           "EventEnvelope", "GoldContextSuite", "Directive", "ExceptionRecord", "DigestEntry"}
  Versions <- AllMinors
  ForeignTypes = {}
  Readers <- AllMinors
  MaxHops = 2
  Depth = 2
  IntForFloat = FALSE
  EventMeta = FALSE
INVARIANTS
  MinorDriftAccepted
  UpgradeIsLossless
  ReaderSeesProjection
  FrozenNeverFree
  WireValidates
CHECK_DEADLOCK FALSE
